------------------------------ MODULE Console ------------------------------
(* The console's byte streams: threads write messages through the console   *)
(* lock and the serial port's transmit queue, the serial port and the       *)
(* keyboard fill the input buffer that threads read from (lib/kernel/       *)
(* console.c, devices/serial.c, intq.c, input.c).  Code that runs with      *)
(* interrupts off is one step, up to the point where the thread blocks.     *)
(* Bytes carry their source and a number, so that a byte that is lost,      *)
(* repeated or out of order shows at the other end.                         *)
EXTENDS Integers

CONSTANTS
  Writers,     \* threads that print messages
  Readers,     \* threads that read the input
  Workloads,   \* sets of threads that run together
  MsgLen,      \* bytes of a message
  BUFSIZE,     \* INTQ_BUFSIZE
  Numbers,     \* bytes of a source are numbered modulo Numbers
  MaxKeys,     \* bound: keys pressed
  MaxHandler,  \* bound: bytes printed by interrupt handlers
  NULL

VARIABLES
  txq, rxq,    \* serial.c's transmit queue, input.c's buffer
  ier,         \* interrupt enable register: [xmit, recv]
  thr, rbr,    \* UART: byte being transmitted, byte received and not read
  console_lock,
  th,          \* thread -> [pc, i]: i is the byte of its message to put next
  line,        \* the last byte of a thread that went out on the serial line
  issued,      \* source -> number of its last byte
  seen,        \* source -> number of its last byte that reached the other end
  panicked     \* an assertion failed

vars == <<txq, rxq, ier, thr, rbr, console_lock, th, line, issued, seen, panicked>>

Users == Writers \cup Readers

\* Sources of bytes other than the messages of threads.
Sources == {"serial", "keyboard", "handler"}

intq_init == [buf |-> [n \in 0 .. BUFSIZE - 1 |-> NULL], head |-> 0, tail |-> 0,
              lock |-> NULL, not_full |-> NULL, not_empty |-> NULL]

\* After serial_init_queue and console_init.
Init ==
  /\ txq = intq_init /\ rxq = intq_init
  /\ ier = [xmit |-> FALSE, recv |-> TRUE]
  /\ thr = NULL /\ rbr = NULL
  /\ console_lock = NULL
  /\ \E load \in Workloads :
       th = [t \in Users |-> [pc |-> IF t \in load THEN "idle" ELSE "absent", i |-> 1]]
  /\ line = NULL
  /\ issued = [d \in Sources |-> 0] /\ seen = issued
  /\ panicked = FALSE

-----------------------------------------------------------------------------
(* Interrupt queues.                                                        *)

Succ(pos) == (pos + 1) % BUFSIZE

intq_empty(q) == q.head = q.tail

intq_full(q) == Succ(q.head) = q.tail

\* The byte at the tail leaves; a thread that waits for room is woken.  (The
\* slot is cleared, which the code need not do: it is not read again.)
intq_getc(q) == [q EXCEPT !.buf[q.tail] = NULL, !.tail = Succ(@), !.not_full = NULL]

\* A byte goes in at the head; a thread that waits for one is woken.
intq_putc(q, byte) == [q EXCEPT !.buf[q.head] = byte, !.head = Succ(@), !.not_empty = NULL]

\* The transmit interrupt is wanted while there is something to send, the
\* receive interrupt while there is room for what it brings.
write_ier == ier' = [xmit |-> ~intq_empty(txq'), recv |-> ~intq_full(rxq')]

\* `byte` has gone out on the line.
Sent(byte) ==
  IF byte # NULL /\ byte[1] = "handler"
  THEN seen' = [seen EXCEPT !["handler"] = byte[2]] /\ UNCHANGED line
  ELSE line' = (IF byte = NULL THEN line ELSE byte) /\ UNCHANGED seen

-----------------------------------------------------------------------------
(* Threads that print: puts, putbuf and vprintf, byte by byte.              *)

AcquireConsole(t) ==
  /\ t \in Writers /\ th[t].pc = "idle"
  /\ console_lock = NULL
  /\ console_lock' = t
  /\ th' = [th EXCEPT ![t].pc = "put"]
  /\ UNCHANGED <<txq, rxq, ier, thr, rbr, line, issued, seen, panicked>>

\* Whether the thread runs in the loop of intq_putc or intq_getc on q: at its
\* beginning, or woken up from wait, when it releases q's lock.
Looping(t, q, pc) ==
  \/ th[t].pc = pc
  \/ th[t].pc = "wait" /\ t \notin {q.not_full, q.not_empty}

Relocked(t, q) == IF q.lock = t THEN [q EXCEPT !.lock = NULL] ELSE q

\* The loop of putbuf (puts and vprintf have the same), after a byte.
putbuf(c) == IF c.i < MsgLen THEN [pc |-> "put", i |-> c.i + 1] ELSE [pc |-> "release", i |-> 1]

\* serial_putc with interrupts on, called by putchar_have_lock: the byte is
\* queued, or the thread waits for room.  The console lock lets one thread at
\* a time get here, so that the queue's lock is free.
SerialPutc(t) ==
  /\ t \in Writers /\ Looping(t, txq, "put")
  /\ LET q == Relocked(t, txq)
     IN  \/ /\ ~intq_full(q)
            /\ txq' = intq_putc(q, <<t, th[t].i>>)
            /\ UNCHANGED rxq
            /\ write_ier
            /\ th' = [th EXCEPT ![t] = putbuf(@)]
         \/ /\ intq_full(q) /\ q.lock = NULL
            /\ txq' = [q EXCEPT !.lock = t, !.not_full = t]
            /\ th' = [th EXCEPT ![t].pc = "wait"]
            /\ UNCHANGED <<rxq, ier>>
  /\ UNCHANGED <<thr, rbr, console_lock, line, issued, seen, panicked>>

ReleaseConsole(t) ==
  /\ th[t].pc = "release"
  /\ console_lock' = NULL
  /\ th' = [th EXCEPT ![t].pc = "idle"]
  /\ UNCHANGED <<txq, rxq, ier, thr, rbr, line, issued, seen, panicked>>

-----------------------------------------------------------------------------
(* Threads that read: input_getc.                                           *)

\* Mutant of InputGetc: the serial port is not told that there is room.
InputGetcSilent(t) ==
  /\ t \in Readers /\ Looping(t, rxq, "idle")
  /\ LET q == Relocked(t, rxq)
         byte == q.buf[q.tail]
     IN  \/ /\ ~intq_empty(q)
            /\ seen' = [seen EXCEPT ![byte[1]] = byte[2]]
            /\ rxq' = intq_getc(q)
            /\ UNCHANGED txq
            /\ UNCHANGED ier
            /\ th' = [th EXCEPT ![t].pc = "idle"]
         \/ /\ intq_empty(q) /\ q.lock = NULL
            /\ rxq' = [q EXCEPT !.lock = t, !.not_empty = t]
            /\ th' = [th EXCEPT ![t].pc = "wait"]
            /\ UNCHANGED <<txq, ier, seen>>
         \/ /\ intq_empty(q) /\ q.lock # NULL
            /\ th' = [th EXCEPT ![t].pc = "lock"]
            /\ UNCHANGED <<txq, rxq, ier, seen>>
  /\ UNCHANGED <<thr, rbr, console_lock, line, issued, panicked>>

InputGetc(t) ==
  /\ t \in Readers /\ Looping(t, rxq, "idle")
  /\ LET q == Relocked(t, rxq)
         byte == q.buf[q.tail]
     IN  \/ /\ ~intq_empty(q)
            /\ seen' = [seen EXCEPT ![byte[1]] = byte[2]]
            /\ rxq' = intq_getc(q)
            /\ UNCHANGED txq
            /\ write_ier
            /\ th' = [th EXCEPT ![t].pc = "idle"]
         \/ /\ intq_empty(q) /\ q.lock = NULL
            /\ rxq' = [q EXCEPT !.lock = t, !.not_empty = t]
            /\ th' = [th EXCEPT ![t].pc = "wait"]
            /\ UNCHANGED <<txq, ier, seen>>
         \/ /\ intq_empty(q) /\ q.lock # NULL
            /\ th' = [th EXCEPT ![t].pc = "lock"]
            /\ UNCHANGED <<txq, rxq, ier, seen>>
  /\ UNCHANGED <<thr, rbr, console_lock, line, issued, panicked>>

-----------------------------------------------------------------------------
\* A reader that had to wait for the input buffer's lock has it: wait asserts
\* that the buffer is empty, and blocks the thread.
Wait(t) ==
  /\ th[t].pc = "lock" /\ rxq.lock = NULL
  /\ \/ /\ intq_empty(rxq)
        /\ rxq' = [rxq EXCEPT !.lock = t, !.not_empty = t]
        /\ th' = [th EXCEPT ![t].pc = "wait"]
        /\ UNCHANGED panicked
     \/ /\ ~intq_empty(rxq)
        /\ panicked' = TRUE
        /\ UNCHANGED <<rxq, th>>
  /\ UNCHANGED <<txq, ier, thr, rbr, console_lock, line, issued, seen>>

-----------------------------------------------------------------------------
(* Interrupt handlers.                                                      *)

\* Mutant of serial_interrupt: the byte is read from the UART before the buffer
\* is known to have room for it.
serial_interrupt_unchecked ==
  /\ (ier.xmit /\ thr = NULL) \/ (ier.recv /\ rbr # NULL)
  /\ LET recv == rbr # NULL /\ ~intq_full(rxq)
         send == thr = NULL /\ ~intq_empty(txq)
     IN  /\ rxq' = IF recv THEN intq_putc(rxq, rbr) ELSE rxq
         /\ rbr' = NULL
         /\ txq' = IF send THEN intq_getc(txq) ELSE txq
         /\ thr' = IF send THEN txq.buf[txq.tail] ELSE thr
  /\ write_ier
  /\ UNCHANGED <<console_lock, th, line, issued, seen, panicked>>

\* A received byte goes to the input buffer when there is room, a queued byte
\* goes out when the transmitter is free.  The UART holds one byte each way,
\* so each of the handler's loops runs at most once.
serial_interrupt ==
  /\ (ier.xmit /\ thr = NULL) \/ (ier.recv /\ rbr # NULL)
  /\ LET recv == rbr # NULL /\ ~intq_full(rxq)
         send == thr = NULL /\ ~intq_empty(txq)
     IN  /\ rxq' = IF recv THEN intq_putc(rxq, rbr) ELSE rxq
         /\ rbr' = IF recv THEN NULL ELSE rbr
         /\ txq' = IF send THEN intq_getc(txq) ELSE txq
         /\ thr' = IF send THEN txq.buf[txq.tail] ELSE thr
  /\ write_ier
  /\ UNCHANGED <<console_lock, th, line, issued, seen, panicked>>

\* A byte for the input buffer; serial_notify follows.
input_putc(byte) == rxq' = intq_putc(rxq, byte) /\ UNCHANGED txq /\ write_ier

\* A key that finds the buffer full is dropped.
keyboard_interrupt ==
  /\ issued["keyboard"] < MaxKeys
  /\ ~intq_full(rxq)
  /\ issued' = [issued EXCEPT !["keyboard"] = @ + 1]
  /\ input_putc(<<"keyboard", issued'["keyboard"]>>)
  /\ UNCHANGED <<thr, rbr, console_lock, th, line, seen, panicked>>

\* A handler prints a byte: it takes no console lock, and serial_putc, called
\* with interrupts off, makes room in a full queue by polling: once the
\* transmitter is free, the queue's oldest byte is sent.
HandlerPutc ==
  /\ issued["handler"] < MaxHandler
  /\ issued' = [issued EXCEPT !["handler"] = @ + 1]
  /\ LET q == IF intq_full(txq) THEN intq_getc(txq) ELSE txq
     IN  txq' = intq_putc(q, <<"handler", issued'["handler"]>>)
  /\ IF intq_full(txq) THEN thr' = txq.buf[txq.tail] /\ Sent(thr)
                       ELSE UNCHANGED <<thr, line, seen>>
  /\ UNCHANGED rxq
  /\ write_ier
  /\ UNCHANGED <<rbr, console_lock, th, panicked>>

-----------------------------------------------------------------------------
(* The UART.                                                                *)

Transmit ==
  /\ thr # NULL
  /\ thr' = NULL
  /\ Sent(thr)
  /\ UNCHANGED <<txq, rxq, ier, rbr, console_lock, th, issued, panicked>>

Receive ==
  /\ rbr = NULL
  /\ issued' = [issued EXCEPT !["serial"] = (@ + 1) % Numbers]
  /\ rbr' = <<"serial", issued'["serial"]>>
  /\ UNCHANGED <<txq, rxq, ier, thr, console_lock, th, line, seen, panicked>>

-----------------------------------------------------------------------------
Continue(t) == SerialPutc(t) \/ ReleaseConsole(t) \/ InputGetc(t) \/ Wait(t)

\* debug_panic halts the machine.
Halted == panicked /\ UNCHANGED vars

Next ==
  \/ /\ ~panicked
     /\ \/ \E t \in Users : AcquireConsole(t) \/ Continue(t)
        \/ serial_interrupt \/ keyboard_interrupt \/ HandlerPutc
        \/ Transmit \/ Receive
  \/ Halted

Spec == Init /\ [][Next]_vars

-----------------------------------------------------------------------------
(* Properties.                                                              *)

\* After a byte of a message comes the next byte of the same message, after its
\* last byte the first of a message (the bytes of handlers, which take no
\* console lock, may come between).
MessageWhole ==
  line' # line =>
    IF line = NULL \/ line[2] = MsgLen THEN line'[2] = 1
    ELSE line' = <<line[1], line[2] + 1>>

InOrder ==
  \A d \in Sources : seen'[d] # seen[d] => seen'[d] = (seen[d] + 1) % Numbers

\* Messages reach the serial line whole, and what the serial port and the
\* keyboard deliver and what handlers print arrives in order and without a gap:
\* console_lock covers a message, a queue that is full, a writer that waits and
\* a handler that polls lose, repeat and reorder nothing, and the serial port's
\* register is read only when the buffer has room.
StreamStep == MessageWhole /\ InOrder
StreamsInOrder == [][StreamStep]_vars

\* Nobody sleeps, and nothing stays in the UART, without the interrupt that
\* ends it being enabled: write_ier follows every change of a queue, so that a
\* writer waits only while the queue is full and drains, a reader only while
\* the buffer is empty and filled, and a received byte only while there is no
\* room for it; and the lock of a queue is with a thread that waits there.
InterruptsArmed ==
  ~panicked =>
    /\ txq.not_full # NULL => intq_full(txq) /\ ier.xmit
    /\ rxq.not_empty # NULL => intq_empty(rxq) /\ ier.recv
    /\ thr = NULL /\ ~intq_empty(txq) => ier.xmit
    /\ rbr # NULL /\ ~intq_full(rxq) => ier.recv
    /\ \A q \in {txq, rxq} : q.lock # NULL => th[q.lock].pc = "wait"

\* wait in intq.c asserts that the queue is empty when a thread waits for a byte
\* and full when it waits for room, and that no other thread waits already: the
\* assertion holds whenever a thread gets there, however many threads read.
WaitAsserted == ~panicked
=============================================================================
