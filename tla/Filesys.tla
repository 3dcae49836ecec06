------------------------------ MODULE Filesys ------------------------------
(***************************************************************************)
(* The pintos file system (filesys/filesys.c, directory.c, inode.c, file.c *)
(* and free-map.c) under the system calls that use it (userprog/syscall.c, *)
(* and load and process_exit of process.c).                                *)
(*                                                                         *)
(* A sector is written atomically and every write is a step of its own, so *)
(* that the machine can stop between any two.  The system calls hold       *)
(* filesys_lock; load, process_exit and one error path of syscall_open do  *)
(* not.  Lengths are counted in sectors.  The free map and the entries of  *)
(* the root directory take one sector each, and the inodes of these two    *)
(* are left out: they are never removed and never change.                  *)
(***************************************************************************)
EXTENDS Integers, Sequences, FiniteSets, Functions, FiniteSetsExt

CONSTANTS
    Procs,      \* processes, a place is used again after process_exit
    Names, ValidNames, \* file names, and those that dir_add accepts
    Size,       \* sectors of the device
    MaxLength,  \* longest file, in sectors
    Entries,    \* entries of the root directory
    MaxFd,      \* MAX_FD
    Inodes,     \* addresses of in-memory inodes
    ExitsAlone, \* load and process_exit run while nobody else is in the file system
    None

ASSUME FilesysAssumption ==
    /\ ValidNames \subseteq Names /\ Names # {}
    /\ Size \in Nat /\ Size >= 4 /\ MaxLength \in Nat
    /\ Entries \in Nat /\ MaxFd \in Nat
    /\ ExitsAlone \in BOOLEAN
    /\ None \notin Procs /\ None \notin Inodes

VARIABLES
    free_map,       \* sectors in use, the bitmap in memory
    disk,           \* the device: its free map, its sectors, its root directory
    inode,          \* in-memory inodes
    open_inodes,    \* list of those that are open
    filesys_lock,   \* the process that holds it
    call,           \* what each process does in the file system
    proc,           \* the files of each process
    lost,           \* history: sectors in use that nothing can free any more
    touched         \* history: files written to since they were created

vars == <<free_map, disk, inode, open_inodes, filesys_lock, call, proc, lost, touched>>

-----------------------------------------------------------------------------

Sector == 0..(Size - 1)
Slot == 1..Entries
Fd == 0..(MaxFd - 1)

\* Sectors that do_format takes: the two inodes, the free map, the root directory
SystemSectors == 0..3

\* What a sector holds: an inode with its start and length, zeros, or written data
Block == [kind : {"inode", "zero", "data"}, start : Sector, length : 0..MaxLength]
InodeBlock(s, n) == [kind |-> "inode", start |-> s, length |-> n]
Zeros == [kind |-> "zero", start |-> 0, length |-> 0]
Written == [kind |-> "data", start |-> 0, length |-> 0]

DirEntry == [in_use : BOOLEAN, name : Names, inode_sector : Sector]

\* struct inode; open_cnt is 0 in freed memory
Inode == [sector : Sector, open_cnt : Nat, deny_write_cnt : Nat, removed : BOOLEAN,
          data : Block]
Freed == [sector |-> 0, open_cnt |-> 0, deny_write_cnt |-> 0, removed |-> FALSE,
          data |-> Zeros]

\* struct file, without its position: a process may seek anywhere
File == [inode : Inodes, deny_write : BOOLEAN] \cup {[inode |-> None, deny_write |-> FALSE]}
NoFile == [inode |-> None, deny_write |-> FALSE]

At == {"idle",
       \* filesys_create
       "data", "write_inode", "zero", "dir_add", "fail",
       \* inode_open: search the list, reopen, or read from the device
       "find", "reopen", "malloc", "read", "opened",
       \* inode_close, and the next file of process_exit
       "close", "release", "release_data", "exit"}
Call == [at : At, op : {"none", "remove", "open", "load", "close", "exit"},
         name : Names, ofs : 0..Entries, fd : -1..(MaxFd - 1), sector : Sector, start : Sector,
         length : 0..MaxLength, i : 0..MaxLength, file : File]
Idle == [at |-> "idle", op |-> "none", name |-> CHOOSE n \in Names : TRUE, ofs |-> 0, fd |-> -1,
         sector |-> 0, start |-> 0, length |-> 0, i |-> 0, file |-> NoFile]

\* last_fd_created, descriptors with their free list, and the executable
Process == [descriptors : [Fd -> File], free_fd : Seq(Fd), last_fd : -1..(MaxFd - 1),
            executable : File]
NewProcess == [descriptors |-> [d \in Fd |-> NoFile], free_fd |-> <<>>, last_fd |-> -1,
               executable |-> NoFile]

-----------------------------------------------------------------------------
(* Free map.                                                               *)

Run(s, n) == s..(s + n - 1)

\* bitmap_scan takes the first place of n consecutive free sectors
Places(n) == {s \in 0..(Size - n) : Run(s, n) \cap free_map = {}}

\* bitmap_scan_and_flip and bitmap_set_multiple; both write the new map to the device.
free_map_allocate(s, n) ==
    /\ free_map' = free_map \cup Run(s, n)
    /\ disk' = [disk EXCEPT !.free_map = free_map']

free_map_release(s, n) ==
    /\ free_map' = free_map \ Run(s, n)
    /\ disk' = [disk EXCEPT !.free_map = free_map']

-----------------------------------------------------------------------------
(* Entering and leaving.                                                   *)

Alone(p) == \A q \in Procs \ {p} : call[q].at = "idle"

\* A system call acquires filesys_lock first and releases it last.
Enter(p, c) ==
    /\ call[p].at = "idle"
    /\ filesys_lock = None
    /\ ExitsAlone => Alone(p)
    /\ filesys_lock' = p
    /\ call' = [call EXCEPT ![p] = c]

\* load and process_exit take no lock.
EnterUnlocked(p, c) ==
    /\ call[p].at = "idle"
    /\ ExitsAlone => Alone(p)
    /\ call' = [call EXCEPT ![p] = c]
    /\ UNCHANGED filesys_lock

Release(p) == filesys_lock' = IF filesys_lock = p THEN None ELSE filesys_lock

Leave(p) ==
    /\ call' = [call EXCEPT ![p] = Idle]
    /\ Release(p)

Goto(p, at) == call' = [call EXCEPT ![p].at = at]

\* lookup: the entry in use under a name
Lookup(n) == {k \in Slot : disk.dir[k].in_use /\ disk.dir[k].name = n}

-----------------------------------------------------------------------------
(* filesys_create.                                                         *)

\* The sector of the inode comes first; when there is none, filesys_create fails
\* and nothing has changed.
Create(p, n, len) ==
    /\ Places(1) # {}
    /\ LET s == Min(Places(1)) IN
       /\ Enter(p, [Idle EXCEPT !.at = "data", !.name = n, !.length = len, !.sector = s])
       /\ free_map_allocate(s, 1)
    /\ UNCHANGED <<inode, open_inodes, proc, lost, touched>>

Fail(p) == call' = [call EXCEPT ![p] = [Idle EXCEPT !.at = "fail", !.sector = call[p].sector]]

\* inode_create: calloc may fail, and so may the allocation of the data.
AllocateData(p) ==
    /\ call[p].at = "data"
    /\ \/ LET places == Places(call[p].length) IN
          /\ places # {}
          /\ free_map_allocate(Min(places), call[p].length)
          /\ call' = [call EXCEPT ![p].at = "write_inode", ![p].start = Min(places)]
       \/ /\ Fail(p)
          /\ UNCHANGED <<free_map, disk>>
    /\ UNCHANGED <<inode, open_inodes, filesys_lock, proc, lost, touched>>

\* Variant of WriteInode: no zeros are written.
WriteInodeOnly(p) ==
    LET c == call[p] IN
    /\ c.at = "write_inode"
    /\ disk' = [disk EXCEPT !.block[c.sector] = InodeBlock(c.start, c.length)]
    /\ Goto(p, "dir_add")
    /\ UNCHANGED <<free_map, inode, open_inodes, filesys_lock, proc, lost, touched>>

WriteInode(p) ==
    LET c == call[p] IN
    /\ c.at = "write_inode"
    /\ disk' = [disk EXCEPT !.block[c.sector] = InodeBlock(c.start, c.length)]
    /\ Goto(p, IF c.length = 0 THEN "dir_add" ELSE "zero")
    /\ UNCHANGED <<free_map, inode, open_inodes, filesys_lock, proc, lost, touched>>

\* One sector of zeros
WriteZeros(p) ==
    LET c == call[p] IN
    /\ c.at = "zero"
    /\ disk' = [disk EXCEPT !.block[c.start + c.i] = Zeros]
    /\ call' = [call EXCEPT ![p].i = c.i + 1,
                            ![p].at = IF c.i + 1 < c.length THEN "zero" ELSE "dir_add"]
    /\ UNCHANGED <<free_map, inode, open_inodes, filesys_lock, proc, lost, touched>>

FreeSlots == {k \in Slot : ~disk.dir[k].in_use}

\* dir_add fails for a bad name, a name in use, and a full directory, which
\* cannot grow.
dir_add(p) ==
    LET c == call[p] IN
    /\ c.at = "dir_add"
    /\ IF c.name \in ValidNames /\ Lookup(c.name) = {} /\ FreeSlots # {}
       THEN /\ disk' = [disk EXCEPT !.dir[Min(FreeSlots)] =
                          [in_use |-> TRUE, name |-> c.name, inode_sector |-> c.sector]]
            /\ touched' = touched \ {c.sector}
            /\ Leave(p)
            /\ UNCHANGED lost
       ELSE /\ Fail(p)
            /\ lost' = lost \cup Run(c.start, c.length)
            /\ UNCHANGED <<disk, touched, filesys_lock>>
    /\ UNCHANGED <<free_map, inode, open_inodes, proc>>

\* A failed filesys_create releases the sector of the inode, not the data.
CreateFails(p) ==
    /\ call[p].at = "fail"
    /\ free_map_release(call[p].sector, 1)
    /\ Leave(p)
    /\ UNCHANGED <<inode, open_inodes, proc, lost, touched>>

-----------------------------------------------------------------------------
(* inode_open, from filesys_open and from filesys_remove.                  *)

\* dir_lookup and dir_remove start with the entry under the name; a call that
\* finds none returns and has changed nothing.
Found(op, k) == [Idle EXCEPT !.at = "find", !.op = op, !.ofs = k,
                             !.sector = disk.dir[k].inode_sector]

\* filesys_remove
Remove(p, n) ==
    /\ Lookup(n) # {}
    /\ Enter(p, Found("remove", Min(Lookup(n))))
    /\ UNCHANGED <<free_map, disk, inode, open_inodes, proc, lost, touched>>

\* syscall_open: the descriptor is the first of the free list, else a new one;
\* when all MAX_FD are used the file is not opened.
Open(p, n) ==
    LET r == proc[p]
        fd == IF r.free_fd # <<>> THEN Head(r.free_fd) ELSE r.last_fd + 1
    IN  /\ r.free_fd # <<>> \/ r.last_fd < MaxFd - 1
        /\ Lookup(n) # {}
        /\ Enter(p, [Found("open", Min(Lookup(n))) EXCEPT !.fd = fd])
        /\ UNCHANGED <<free_map, disk, inode, open_inodes, proc, lost, touched>>

\* load, by a new process
Load(p, n) ==
    /\ proc[p] = NewProcess
    /\ Lookup(n) # {}
    /\ EnterUnlocked(p, Found("load", Min(Lookup(n))))
    /\ UNCHANGED <<free_map, disk, inode, open_inodes, proc, lost, touched>>

\* Search the list of open inodes.
FindInode(p) ==
    LET c == call[p]
        hits == {k \in DOMAIN open_inodes : inode[open_inodes[k]].sector = c.sector}
    IN  /\ c.at = "find"
        /\ call' = IF hits = {}
                   THEN [call EXCEPT ![p].at = "malloc"]
                   ELSE [call EXCEPT ![p].at = "reopen",
                                     ![p].file.inode = open_inodes[Min(hits)]]
        /\ UNCHANGED <<free_map, disk, inode, open_inodes, filesys_lock, proc, lost, touched>>

\* Variant of inode_reopen: open_cnt stays.
inode_reopen_uncounted(p) ==
    LET i == call[p].file.inode IN
    /\ call[p].at = "reopen"
    /\ inode[i].open_cnt > 0        \* else a use of freed memory
    /\ inode' = [inode EXCEPT ![i].open_cnt = @]
    /\ Goto(p, "opened")
    /\ UNCHANGED <<free_map, disk, open_inodes, filesys_lock, proc, lost, touched>>

inode_reopen(p) ==
    LET i == call[p].file.inode IN
    /\ call[p].at = "reopen"
    /\ inode[i].open_cnt > 0        \* else a use of freed memory
    /\ inode' = [inode EXCEPT ![i].open_cnt = @ + 1]
    /\ Goto(p, "opened")
    /\ UNCHANGED <<free_map, disk, open_inodes, filesys_lock, proc, lost, touched>>

\* malloc may fail; the new inode is in the list before it is read.
NewInode(p) ==
    /\ call[p].at = "malloc"
    /\ \/ \E i \in Inodes :
            /\ inode[i].open_cnt = 0
            /\ inode' = [inode EXCEPT ![i] = [Freed EXCEPT !.sector = call[p].sector,
                                                           !.open_cnt = 1]]
            /\ open_inodes' = <<i>> \o open_inodes
            /\ call' = [call EXCEPT ![p].at = "read", ![p].file.inode = i]
            /\ UNCHANGED filesys_lock
       \/ /\ Leave(p)
          /\ UNCHANGED <<inode, open_inodes>>
    /\ UNCHANGED <<free_map, disk, proc, lost, touched>>

ReadInode(p) ==
    /\ call[p].at = "read"
    /\ inode' = [inode EXCEPT ![call[p].file.inode].data = disk.block[call[p].sector]]
    /\ Goto(p, "opened")
    /\ UNCHANGED <<free_map, disk, open_inodes, filesys_lock, proc, lost, touched>>

-----------------------------------------------------------------------------
(* What follows a successful inode_open.                                   *)


\* Variant of EraseEntry: the inode is not marked.
EraseEntryKeeps(p) ==
    LET c == call[p] IN
    /\ c.at = "opened" /\ c.op = "remove"
    /\ disk' = [disk EXCEPT !.dir[c.ofs].in_use = FALSE]
    /\ inode' = [inode EXCEPT ![c.file.inode].removed = FALSE]
    /\ Goto(p, "close")
    /\ UNCHANGED <<free_map, open_inodes, filesys_lock, proc, lost, touched>>

\* dir_remove erases the entry and marks the inode; dir_remove closes it then.
EraseEntry(p) ==
    LET c == call[p] IN
    /\ c.at = "opened" /\ c.op = "remove"
    /\ disk' = [disk EXCEPT !.dir[c.ofs].in_use = FALSE]
    /\ inode' = [inode EXCEPT ![c.file.inode].removed = TRUE]
    /\ Goto(p, "close")
    /\ UNCHANGED <<free_map, open_inodes, filesys_lock, proc, lost, touched>>

\* file_open and the descriptor.  calloc may fail for the file, which closes the
\* inode under the lock, or malloc for the descriptor, after the lock is released.
OpenDescriptor(p) ==
    LET c == call[p] IN
    /\ c.at = "opened" /\ c.op = "open"
    /\ \/ /\ proc' = [proc EXCEPT ![p].descriptors[c.fd] = c.file,
                                  ![p].free_fd = IF @ = <<>> THEN @ ELSE Tail(@),
                                  ![p].last_fd = IF c.fd > @ THEN c.fd ELSE @]
          /\ Leave(p)
       \/ /\ Goto(p, "close")
          /\ UNCHANGED <<proc, filesys_lock>>
       \/ /\ proc[p].free_fd = <<>>
          /\ Goto(p, "close")
          /\ Release(p)
          /\ UNCHANGED proc
    /\ UNCHANGED <<free_map, disk, inode, open_inodes, lost, touched>>

\* load: calloc may fail in file_open; else the file becomes the executable and
\* file_deny_write is called.
OpenExecutable(p) ==
    LET c == call[p] IN
    /\ c.at = "opened" /\ c.op = "load"
    /\ \/ /\ inode' = [inode EXCEPT ![c.file.inode].deny_write_cnt = @ + 1]
          /\ proc' = [proc EXCEPT ![p].executable = [c.file EXCEPT !.deny_write = TRUE]]
          /\ Leave(p)
       \/ /\ Goto(p, "close")
          /\ UNCHANGED <<inode, proc, filesys_lock>>
    /\ UNCHANGED <<free_map, disk, open_inodes, lost, touched>>

-----------------------------------------------------------------------------
(* Reading, writing and closing.                                           *)


\* syscall_write puts data in any sector of the file, unless writes are denied.
Write(p, d) ==
    LET i == proc[p].descriptors[d].inode IN
    /\ call[p].at = "idle" /\ filesys_lock = None /\ (ExitsAlone => Alone(p))
    /\ i # None
    /\ inode[i].deny_write_cnt = 0
    /\ \E s \in Run(inode[i].data.start, inode[i].data.length) :
          disk' = [disk EXCEPT !.block[s] = Written]
    /\ touched' = touched \cup {inode[i].sector}
    /\ UNCHANGED <<free_map, inode, open_inodes, filesys_lock, call, proc, lost>>

\* syscall_close
Close(p, d) ==
    LET f == proc[p].descriptors[d] IN
    /\ f # NoFile
    /\ Enter(p, [Idle EXCEPT !.at = "close", !.op = "close", !.fd = d, !.file = f])
    /\ proc' = [proc EXCEPT ![p].descriptors[d] = NoFile, ![p].free_fd = Append(@, d)]
    /\ UNCHANGED <<free_map, disk, inode, open_inodes, lost, touched>>

\* process_exit closes the executable, then every descriptor, without the lock.
Exit(p) ==
    /\ proc[p] # NewProcess
    /\ EnterUnlocked(p, [Idle EXCEPT !.at = "exit", !.op = "exit"])
    /\ UNCHANGED <<free_map, disk, inode, open_inodes, proc, lost, touched>>

OpenFds(p) == {d \in Fd : proc[p].descriptors[d] # NoFile}

ExitNext(p) ==
    /\ call[p].at = "exit"
    /\ IF proc[p].executable # NoFile
       THEN /\ call' = [call EXCEPT ![p].at = "close", ![p].file = proc[p].executable]
            /\ proc' = [proc EXCEPT ![p].executable = NoFile]
       ELSE IF OpenFds(p) # {}
       THEN LET d == Min(OpenFds(p))
            IN  /\ call' = [call EXCEPT ![p].at = "close",
                                        ![p].file = proc[p].descriptors[d]]
                /\ proc' = [proc EXCEPT ![p].descriptors[d] = NoFile]
       ELSE /\ call' = [call EXCEPT ![p] = Idle]
            /\ proc' = [proc EXCEPT ![p] = NewProcess]
    /\ UNCHANGED <<free_map, disk, inode, open_inodes, filesys_lock, lost, touched>>

\* After inode_close: process_exit goes on, the other calls return.
Closed(p) ==
    IF call[p].op = "exit"
    THEN /\ call' = [call EXCEPT ![p] = [Idle EXCEPT !.at = "exit", !.op = "exit"]]
         /\ UNCHANGED filesys_lock
    ELSE Leave(p)

\* file_close and inode_close up to the release of the sectors: the last to
\* close takes the inode off the list.
CloseInode(p) ==
    LET c == call[p]
        i == c.file.inode
        allowed == [inode[i] EXCEPT !.open_cnt = @ - 1,
                                    !.deny_write_cnt = IF c.file.deny_write THEN @ - 1 ELSE @]
    IN  /\ c.at = "close"
        /\ inode[i].open_cnt > 0        \* else a use of freed memory
        /\ IF inode[i].open_cnt > 1
           THEN /\ inode' = [inode EXCEPT ![i] = allowed]
                /\ Closed(p)
                /\ UNCHANGED open_inodes
           ELSE /\ open_inodes' = SelectSeq(open_inodes, LAMBDA j : j # i)
                /\ inode' = [inode EXCEPT ![i] = Freed]
                /\ IF inode[i].removed
                   THEN /\ call' = [call EXCEPT ![p].at = "release",
                                       ![p].sector = inode[i].sector,
                                       ![p].start = inode[i].data.start,
                                       ![p].length = inode[i].data.length,
                                       ![p].file = NoFile]
                        /\ UNCHANGED filesys_lock
                   ELSE Closed(p)
        /\ UNCHANGED <<free_map, disk, proc, lost, touched>>

\* A removed file gives back the sector of its inode, then its data.
ReleaseInode(p) ==
    /\ call[p].at = "release"
    /\ free_map_release(call[p].sector, 1)
    /\ Goto(p, "release_data")
    /\ UNCHANGED <<inode, open_inodes, filesys_lock, proc, lost, touched>>

ReleaseData(p) ==
    /\ call[p].at = "release_data"
    /\ free_map_release(call[p].start, call[p].length)
    /\ Closed(p)
    /\ UNCHANGED <<inode, open_inodes, proc, lost, touched>>

-----------------------------------------------------------------------------

EntryFile(k) == disk.dir[k].inode_sector
Sectors(s, b) == {s} \cup Run(b.start, b.length)
EntrySectors(k) == Sectors(EntryFile(k), disk.block[EntryFile(k)])
UsedSlots == Slot \ FreeSlots

\* The machine stops at any moment and starts again: free_map_open reads the map.
Crash ==
    /\ free_map' = disk.free_map
    /\ inode' = [i \in Inodes |-> Freed]
    /\ open_inodes' = <<>>
    /\ filesys_lock' = None
    /\ call' = [p \in Procs |-> Idle]
    /\ proc' = [p \in Procs |-> NewProcess]
    /\ lost' = disk.free_map \ (SystemSectors \cup UNION {EntrySectors(k) : k \in UsedSlots})
    /\ UNCHANGED <<disk, touched>>

\* do_format, then free_map_open
Init ==
    /\ free_map = SystemSectors
    /\ disk = [free_map |-> SystemSectors,
               block |-> [s \in Sector |-> Zeros],
               dir |-> [k \in Slot |-> [in_use |-> FALSE, name |-> Idle.name,
                                        inode_sector |-> 0]]]
    /\ inode = [i \in Inodes |-> Freed]
    /\ open_inodes = <<>>
    /\ filesys_lock = None
    /\ call = [p \in Procs |-> Idle]
    /\ proc = [p \in Procs |-> NewProcess]
    /\ lost = {}
    /\ touched = {}

Step(p) ==
    \/ \E n \in Names :
         \/ \E len \in 0..MaxLength : Create(p, n, len)
         \/ Remove(p, n)
         \/ Open(p, n)
         \/ Load(p, n)
    \/ \E d \in Fd : Write(p, d) \/ Close(p, d)
    \/ AllocateData(p) \/ WriteInode(p) \/ WriteZeros(p)
    \/ dir_add(p) \/ CreateFails(p)
    \/ FindInode(p) \/ inode_reopen(p) \/ NewInode(p) \/ ReadInode(p)
    \/ EraseEntry(p) \/ OpenDescriptor(p) \/ OpenExecutable(p)
    \/ Exit(p) \/ ExitNext(p)
    \/ CloseInode(p) \/ ReleaseInode(p) \/ ReleaseData(p)

Next == Crash \/ \E p \in Procs : Step(p)

Spec == Init /\ [][Next]_vars

-----------------------------------------------------------------------------
(* Properties.                                                             *)

\* Every variable holds a value of its kind (filesys.c, inode.c, file.c,
\* directory.c, and the descriptors of struct thread).
TypeOK ==
    /\ free_map \subseteq Sector
    /\ disk \in [free_map : SUBSET Sector, block : [Sector -> Block], dir : [Slot -> DirEntry]]
    /\ inode \in [Inodes -> Inode]
    /\ open_inodes \in Seq(Inodes)
    /\ filesys_lock \in Procs \cup {None}
    /\ call \in [Procs -> Call]
    /\ proc \in [Procs -> Process]
    /\ lost \subseteq Sector
    /\ touched \subseteq Sector

\* Who holds sectors: the entries, the inodes removed while open, and the calls
\* that create a file or give one back
RemovedInodes == {i \in Inodes : inode[i].open_cnt > 0 /\ inode[i].removed}
CallSectors(p) ==
    LET c == call[p] IN
    CASE c.at \in {"data", "fail"} -> {c.sector}
      [] c.at \in {"write_inode", "zero", "dir_add", "release"} -> Sectors(c.sector, c)
      [] c.at = "release_data" -> Run(c.start, c.length)
      [] OTHER -> {}
Owners == {<<"entry", k>> : k \in UsedSlots} \cup {<<"inode", i>> : i \in RemovedInodes}
          \cup {<<"call", p>> : p \in Procs}
Owned(o) == CASE o[1] = "entry" -> EntrySectors(o[2])
              [] o[1] = "inode" -> Sectors(inode[o[2]].sector, inode[o[2]].data)
              [] o[1] = "call" -> CallSectors(o[2])
Held == UNION {Owned(o) : o \in Owners}


\* inode_open's list never holds a stale or a second copy of an inode: an inode
\* found by its sector is the file that the directory names there, with the
\* start and length on the device, and is not one removed before.
CacheCoherent ==
    /\ \A k \in UsedSlots : disk.block[EntryFile(k)].kind = "inode"
    /\ \A i, j \in Range(open_inodes) : inode[i].sector = inode[j].sector => i = j
    /\ \A i \in Range(open_inodes) :
          (\A p \in Procs : call[p].at # "read") =>
             /\ inode[i].data = disk.block[inode[i].sector]
             /\ inode[i].removed <=> \A k \in UsedSlots : EntryFile(k) # inode[i].sector

\* The files of a process: descriptors, the executable, and the one its call holds
FileAt(p, d) == CASE d = -2 -> IF call[p].at = "reopen" THEN NoFile ELSE call[p].file
                  [] d = -1 -> proc[p].executable
                  [] OTHER -> proc[p].descriptors[d]
Refs(i) == {<<p, d>> \in Procs \X (-2..(MaxFd - 1)) : FileAt(p, d).inode = i}
Deniers(i) == {r \in Refs(i) : FileAt(r[1], r[2]).deny_write}

\* The state is well typed, open_cnt counts the files open on an inode and
\* deny_write_cnt those that run it, as the assertions of inode_deny_write and inode_allow_write need.
CountsReferences ==
    /\ TypeOK
    /\ \A i \in Inodes :
          /\ inode[i].open_cnt = Cardinality(Refs(i))
          /\ inode[i].deny_write_cnt = Cardinality(Deniers(i))

\* A file that nobody wrote to reads as zeros, whatever its sectors held before
\* (inode_create), also when the machine stopped while it was being created.
NewFileIsZero ==
    \A k \in UsedSlots : EntryFile(k) \notin touched =>
        \A s \in EntrySectors(k) \ {EntryFile(k)} : disk.block[s] = Zeros


\* "If this was the last reference to INODE, frees its memory" (inode_close): an
\* inode that a file, or a call about to reopen it, refers to is not freed.
InodeOutlivesFiles ==
    \A i \in Inodes : inode[i].open_cnt = 0 =>
        Refs(i) = {} /\ \A p \in Procs : call[p].file.inode # i
=============================================================================
