-------------------------------- MODULE Ide --------------------------------
(* The block layer on one ATA channel with two disks: detection of the disks *)
(* and of their partitions, then sector reads and writes by several threads  *)
(* (devices/ide.c, block.c, partition.c).  Two channels share no state.      *)
(* A disk is a function from sectors to contents; its partition table and    *)
(* the registers it shows after the reset are picked initially.              *)
(* Disks answer within the driver's timeouts.                                *)
EXTENDS Integers, Sequences, SequencesExt

CONSTANTS
  Threads, Contents,
  Machines,      \* what may be attached: device -> registers, size and table
  Word,          \* block_sector_t holds numbers modulo Word
  CapacityLimit, \* disks from this size on are ignored
  MaxDepth,      \* bound: nested partition tables before the stack overflows
  MaxSpurious,   \* bound: interrupts that no command caused
  NULL

VARIABLES
  hw,            \* device -> registers, size and partition table
  disk,          \* device -> sector -> contents
  reg,           \* channel: selected device, sector, command, status, data, irq
  lock, expecting_interrupt, completion_wait,   \* struct channel
  is_ata, all_blocks,
  boot,          \* [pc, dev]: where ide_init is
  th,            \* thread -> [pc, op, blk, sector, data]
  last,          \* device -> sector -> contents last written
  spurious

chan == <<lock, expecting_interrupt, completion_wait>>
vars == <<hw, disk, reg, chan, is_ata, all_blocks, boot, th, last, spurious>>

Devices == {0, 1}
Sectors(d) == 0 .. hw[d].capacity - 1
Idle == [pc |-> "idle", op |-> NULL, blk |-> NULL, sector |-> NULL, data |-> NULL]

Init ==
  /\ hw \in Machines
  /\ disk = [d \in Devices |-> [s \in Sectors(d) |-> NULL]]
  /\ last = disk
  /\ reg = [dev |-> 0, lba |-> 0, cmd |-> NULL, status |-> "idle", data |-> NULL,
            irq |-> FALSE]
  /\ lock = NULL /\ expecting_interrupt = FALSE /\ completion_wait = 0
  /\ is_ata = [d \in Devices |-> FALSE]
  /\ all_blocks = <<>>
  /\ boot = [pc |-> "reset", dev |-> 0]
  /\ th = [t \in Threads |-> Idle]
  /\ spurious = 0

-----------------------------------------------------------------------------
(* The partition table.  A table is a sequence of [type, offset, size].     *)

Extended == {5, 15, 133, 197}

TypeOf(part_type) ==
  CASE part_type = 32 -> "kernel" [] part_type = 33 -> "filesys"
    [] part_type = 34 -> "scratch" [] part_type = 35 -> "swap"
    [] OTHER -> "foreign"

block_register(d, nr, type, start, size) ==
  [dev |-> d, nr |-> nr, type |-> type, start |-> start, size |-> size]

\* Mutant of found_partition: the end is not checked for overflow.
found_partition_wraps(d, part_type, start, size, part_nr) ==
  IF start >= hw[d].capacity \/ (start + size) % Word > hw[d].capacity
  THEN <<>>
  ELSE <<block_register(d, part_nr, TypeOf(part_type), start, size)>>

\* The block that a partition is registered as, if it lies inside the device.
found_partition(d, part_type, start, size, part_nr) ==
  LET end == (start + size) % Word
  IN  IF start >= hw[d].capacity \/ end < start \/ end > hw[d].capacity
      THEN <<>>
      ELSE <<block_register(d, part_nr, TypeOf(part_type), start, size)>>

\* read_partition_table: [blocks, nr] after the table said to be in `sector`.
\* The table is always read from sector 0, whatever `sector` is; a table that
\* is its own extended partition is read until the stack overflows (depth).
RECURSIVE read_partition_table(_, _, _, _, _)
read_partition_table(d, sector, primary, acc, depth) ==
  LET Entry(a, e) ==
        IF e.size = 0 \/ e.type = 0 THEN a
        ELSE IF e.type \in Extended
        THEN IF sector = 0
             THEN read_partition_table(d, e.offset, e.offset, a, depth + 1)
             ELSE read_partition_table(d, (e.offset + primary) % Word, primary, a, depth + 1)
        ELSE [a EXCEPT !.nr = @ + 1,
                !.blocks = @ \o found_partition(d, e.type, (e.offset + sector) % Word,
                                                e.size, a.nr + 1)]
  IN  IF sector >= hw[d].capacity \/ ~hw[d].signature THEN acc
      ELSE IF depth > MaxDepth THEN [acc EXCEPT !.overflow = TRUE]
      ELSE FoldLeft(Entry, acc, hw[d].table)

partition_scan(d) ==
  read_partition_table(d, 0, 0, [blocks |-> <<>>, nr |-> 0, overflow |-> FALSE], 0)

-----------------------------------------------------------------------------
(* The channel's primitives, on its registers r.                            *)

select_device(r, d) == [r EXCEPT !.dev = d]

wait_while_busy(r) == r.status # "busy"

\* Reading the status register clears a pending interrupt, unless the interrupt
\* controller holds it already.
wait_until_idle(r) ==
  IF r.status = "idle" THEN {[r EXCEPT !.irq = i] : i \in {r.irq, FALSE}} ELSE {}

select_device_wait(r, d) == {select_device(q, d) : q \in wait_until_idle(r)}

\* The command makes the selected device busy.
issue_pio_command(r, cmd) == [r EXCEPT !.cmd = cmd, !.status = "busy"]

\* Reading a sector's data ends a command, writing it lets the disk store it.
input_sector(r) == [r EXCEPT !.status = "idle"]
output_sector(r, data) == [r EXCEPT !.status = "storing", !.data = data]

-----------------------------------------------------------------------------
(* ide_init, by the only thread there is.                                   *)

\* The soft reset; the driver then waits for the devices that are present, and
\* leaves the last of them selected.
reset_channel ==
  /\ boot.pc = "reset"
  /\ reg' = select_device(reg, IF hw[1].present THEN 1 ELSE 0)
  /\ boot' = [boot EXCEPT !.pc = "check"]
  /\ UNCHANGED <<hw, disk, chan, is_ata, all_blocks, th, last, spurious>>

\* Device d is a disk by the registers it shows; device 1 is looked at unless
\* device 0 says that it failed.
check_device_type ==
  LET d == boot.dev
      bad == (hw[d].error # 1 /\ (hw[d].error # 129 \/ d = 1)) \/ ~hw[d].ready
      slave == ~bad \/ hw[d].error # 129
  IN  /\ boot.pc = "check"
      /\ reg' = select_device(reg, d)
      /\ is_ata' = [is_ata EXCEPT ![d] = ~bad /\ hw[d].ata]
      /\ boot' = IF d = 0 /\ slave THEN [boot EXCEPT !.dev = 1]
                 ELSE [pc |-> "identify", dev |-> 0]
      /\ UNCHANGED <<hw, disk, chan, all_blocks, th, last, spurious>>

\* The next device of ide_init's last loop.
NextDevice == boot' = IF boot.dev = 0 THEN [pc |-> "identify", dev |-> 1]
                      ELSE [pc |-> "done", dev |-> 1]

\* identify_ata_device up to its sema_down.
Identify ==
  /\ boot.pc = "identify"
  /\ IF is_ata[boot.dev]
     THEN /\ \E r \in select_device_wait(reg, boot.dev) : reg' = issue_pio_command(r, "identify")
          /\ expecting_interrupt' = TRUE
          /\ boot' = [boot EXCEPT !.pc = "identified"]
     ELSE NextDevice /\ UNCHANGED <<reg, expecting_interrupt>>
  /\ UNCHANGED <<hw, disk, lock, completion_wait, is_ata, all_blocks, th, last, spurious>>

\* The rest of it: a disk without an answer, or too large, is dropped; any
\* other is registered and its partitions after it.
Register ==
  LET d == boot.dev
      ok == reg.status = "drq" /\ hw[d].capacity < CapacityLimit
      scan == partition_scan(d)
      raw == block_register(d, 0, "raw", 0, hw[d].capacity)
  IN  /\ boot.pc = "identified"
      /\ completion_wait > 0 /\ wait_while_busy(reg)
      /\ completion_wait' = completion_wait - 1
      /\ reg' = input_sector(reg)
      /\ is_ata' = [is_ata EXCEPT ![d] = ok]
      /\ all_blocks' = IF ok THEN Append(all_blocks, raw) \o scan.blocks ELSE all_blocks
      /\ IF ok /\ scan.overflow THEN boot' = [boot EXCEPT !.pc = "crashed"] ELSE NextDevice
      /\ UNCHANGED <<hw, disk, lock, expecting_interrupt, th, last, spurious>>

-----------------------------------------------------------------------------
(* block_read and block_write, down to ide_read and ide_write.              *)

\* The sector of the device that sector s of block b is.
Absolute(b, s) == (b.start + s) % Word

\* A thread calls the block layer with a sector that passes check_sector, and
\* waits for the channel.
Call(t) ==
  /\ boot.pc = "done" /\ th[t].pc = "idle"
  /\ \E n \in DOMAIN all_blocks, op \in {"read", "write"}, c \in Contents :
       LET b == all_blocks[n]
       IN  \E s \in 0 .. b.size - 1 :
             /\ op = "write" => b.type # "foreign"
             /\ th' = [th EXCEPT ![t] = [pc |-> "lock", op |-> op, blk |-> b.dev,
                          sector |-> Absolute(b, s), data |-> IF op = "write" THEN c ELSE NULL]]
  /\ UNCHANGED <<hw, disk, reg, chan, is_ata, all_blocks, boot, last, spurious>>

Lock(t) ==
  /\ th[t].pc = "lock" /\ lock = NULL
  /\ lock' = t
  /\ th' = [th EXCEPT ![t].pc = "select"]
  /\ UNCHANGED <<hw, disk, reg, expecting_interrupt, completion_wait, is_ata, all_blocks,
                 boot, last, spurious>>

\* Mutant of select_sector: only the low bits of the sector number are programmed.
select_sector_low(t) ==
  /\ th[t].pc = "select"
  /\ \E r \in select_device_wait(reg, th[t].blk) : reg' = [r EXCEPT !.lba = th[t].sector % 2]
  /\ th' = [th EXCEPT ![t].pc = "issue"]
  /\ UNCHANGED <<hw, disk, chan, is_ata, all_blocks, boot, last, spurious>>

\* select_sector: waits for the channel to be idle, then programs it.
select_sector(t) ==
  /\ th[t].pc = "select"
  /\ \E r \in select_device_wait(reg, th[t].blk) : reg' = [r EXCEPT !.lba = th[t].sector]
  /\ th' = [th EXCEPT ![t].pc = "issue"]
  /\ UNCHANGED <<hw, disk, chan, is_ata, all_blocks, boot, last, spurious>>

Issue(t) ==
  /\ th[t].pc = "issue"
  /\ expecting_interrupt' = TRUE
  /\ reg' = issue_pio_command(reg, th[t].op)
  /\ th' = [th EXCEPT ![t].pc = IF th[t].op = "read" THEN "down" ELSE "transfer"]
  /\ UNCHANGED <<hw, disk, lock, completion_wait, is_ata, all_blocks, boot, last, spurious>>

Down(t) ==
  /\ th[t].pc = "down" /\ completion_wait > 0
  /\ completion_wait' = completion_wait - 1
  /\ th' = [th EXCEPT ![t].pc = IF th[t].op = "read" THEN "transfer" ELSE "unlock"]
  /\ UNCHANGED <<hw, disk, reg, lock, expecting_interrupt, is_ata, all_blocks, boot, last,
                 spurious>>

\* wait_while_busy, then input_sector or output_sector.
Transfer(t) ==
  /\ th[t].pc = "transfer" /\ wait_while_busy(reg)
  /\ IF th[t].op = "read"
     THEN /\ th' = [th EXCEPT ![t].pc = "unlock", ![t].data = reg.data]
          /\ reg' = input_sector(reg)
          /\ UNCHANGED last
     ELSE /\ th' = [th EXCEPT ![t].pc = "down"]
          /\ reg' = output_sector(reg, th[t].data)
          /\ last' = [last EXCEPT ![th[t].blk][th[t].sector] = th[t].data]
  /\ UNCHANGED <<hw, disk, chan, is_ata, all_blocks, boot, spurious>>

Unlock(t) ==
  /\ th[t].pc = "unlock"
  /\ lock' = NULL
  /\ th' = [th EXCEPT ![t] = Idle]
  /\ UNCHANGED <<hw, disk, reg, expecting_interrupt, completion_wait, is_ata, all_blocks,
                 boot, last, spurious>>

interrupt_handler ==
  /\ reg.irq
  /\ reg' = [reg EXCEPT !.irq = FALSE]
  /\ completion_wait' = IF expecting_interrupt THEN completion_wait + 1 ELSE completion_wait
  /\ UNCHANGED <<hw, disk, lock, expecting_interrupt, is_ata, all_blocks, boot, th, last,
                 spurious>>

-----------------------------------------------------------------------------
(* The hardware.                                                            *)

\* The device answers its command: it has data, or wants some, or, asked who it
\* is, may be no disk after all.
Answer ==
  /\ reg.status = "busy"
  /\ reg' = CASE reg.cmd = "identify" ->
                  [reg EXCEPT !.irq = TRUE, !.status = IF hw[reg.dev].drq THEN "drq" ELSE "idle"]
             [] reg.cmd = "read" ->
                  [reg EXCEPT !.irq = TRUE, !.status = "drq", !.data = disk[reg.dev][reg.lba]]
             [] reg.cmd = "write" -> [reg EXCEPT !.status = "drq"]
  /\ UNCHANGED <<hw, disk, chan, is_ata, all_blocks, boot, th, last, spurious>>

Store ==
  /\ reg.status = "storing"
  /\ disk' = [disk EXCEPT ![reg.dev][reg.lba] = reg.data]
  /\ reg' = [reg EXCEPT !.status = "idle", !.irq = TRUE]
  /\ UNCHANGED <<hw, chan, is_ata, all_blocks, boot, th, last, spurious>>

Spurious ==
  /\ boot.pc = "done" /\ spurious < MaxSpurious /\ ~reg.irq
  /\ spurious' = spurious + 1
  /\ reg' = [reg EXCEPT !.irq = TRUE]
  /\ UNCHANGED <<hw, disk, chan, is_ata, all_blocks, boot, th, last>>

\* The kernel has crashed, or has no disk to work with.
Stopped ==
  /\ boot.pc = "crashed" \/ (boot.pc = "done" /\ all_blocks = <<>>)
  /\ UNCHANGED vars

Next ==
  \/ reset_channel \/ check_device_type \/ Identify \/ Register
  \/ \E t \in Threads : Call(t) \/ Lock(t) \/ select_sector(t) \/ Issue(t) \/ Down(t)
                         \/ Transfer(t) \/ Unlock(t)
  \/ interrupt_handler \/ Answer \/ Store \/ Spurious \/ Stopped

Spec == Init /\ [][Next]_vars

-----------------------------------------------------------------------------
(* Properties.                                                              *)

\* What a thread reads is what was last written to that sector of that disk,
\* through whichever block it was written: the channel's registers, shared by
\* two disks and all threads, belong to one command at a time.  The disk is
\* never seen without data when a transfer is due (the panics of ide_read and
\* ide_write), even if an interrupt that no command caused has put
\* completion_wait ahead.
ReadsLastWrite ==
  \A t \in Threads :
    /\ th[t].pc = "transfer" => reg.status \in {"busy", "drq"}
    /\ th[t].pc = "unlock" /\ th[t].op = "read" => th[t].data = last[th[t].blk][th[t].sector]

\* Every access stays inside its disk: found_partition lets no block reach past
\* the device that it is part of, whatever the table says, sums that exceed a
\* block_sector_t included.
AccessInside ==
  \A t \in Threads : th[t].pc # "idle" => th[t].sector \in Sectors(th[t].blk)
=============================================================================
