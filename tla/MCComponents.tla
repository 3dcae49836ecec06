---------------------------- MODULE MCComponents ----------------------------
(* The components that share no state, for TLC: a behaviour is one of them,   *)
(* `which`; the variables of the others are unused.                           *)
EXTENDS MCInputs

CONSTANTS
  Parts,                     \* the components to check
  Threads, Values, Blocks,   \* threads; pointers of Malloc; contents of Ide
  Writers, Readers, w1, w2, r1, r2,     \* threads of Console
  e1, e2, e3, e4, e5, e6, l, m,         \* elements and lists
  ZeroSector, TornSector, NULL, NoThread

VARIABLES
  which,
  used_map, pool_lock, descs, arenas, mem, ptr, call,            \* Malloc
  free, page, proc,                                              \* Loader
  hw, disk, reg, lock, expecting_interrupt, completion_wait,     \* Ide
  is_ata, all_blocks, boot, io, last, spurious,
  txq, rxq, ier, thr, rbr, console_lock, th, line, issued, seen, panicked,   \* Console
  link, val,                                                     \* List
  h, elems,                                                      \* Hash
  statics, reports,                                              \* Metadata
  s, phase, todo, padded_in, kern_flipped, kern_local, out,      \* Convolve
  job,                                                           \* MCLibrary
  routing_table, neighbors, forwarding_table, ports, cable,      \* RIPRouter
  changes, died,
  slaveList, info, slaveIdMap, slaveNodeMap, registering,        \* SlaveRing
  lookup, overlapped, reregistrations,
  sets, latest,                                                  \* KVCache
  ocean_array, runs, threw,                                      \* Ocean
  grid, connections, count, currentPlayer, moveKind, search, root      \* Board

M == INSTANCE Malloc WITH Ptrs <- Values, PageCnt <- 3, PGSIZE <- 6, Header <- 4, MinBlock <- 1,
                          Sizes <- {1, 3}, th <- call
P == INSTANCE Loader WITH Procs <- Threads, Exes <- MCExes, KernelPages <- {11, 12, 13},
                          UserPages <- {21, 22, 23}, PGSIZE <- 2, PHYS_BASE <- 8, PtEntries <- 2,
                          AddrMod <- 16
I == INSTANCE Ide WITH Contents <- Blocks, Machines <- MCMachines, Word <- 8, CapacityLimit <- 5,
                       MaxDepth <- 3, MaxSpurious <- 1, th <- io
C == INSTANCE Console WITH Workloads <- {{w1, w2}, {w1, r1, r2}}, MsgLen <- 3, BUFSIZE <- 3,
                           Numbers <- 3, MaxKeys <- 1, MaxHandler <- 1
Keys == (e1 :> 1) @@ (e2 :> 1) @@ (e3 :> 2) @@ (e4 :> 3) @@ (e5 :> 4) @@ (e6 :> 5)
Hashes == (e1 :> 5) @@ (e2 :> 5) @@ (e3 :> 2) @@ (e4 :> 1) @@ (e5 :> 6) @@ (e6 :> 1)
D == INSTANCE List WITH Elems <- {e1, e2, e3}, Lists <- {l, m}, Key <- Keys
H == INSTANCE Hash WITH Items <- DOMAIN Keys, KeyOf <- Keys, HashOf <- Hashes, MinBuckets <- 1,
                        BEST_ELEMS_PER_BUCKET <- 1
X == INSTANCE Metadata WITH Files <- MCFiles, MaxFiles <- 2, AsciiTags <- {"Make"}
V == INSTANCE Convolve WITH Threads <- {0, 1}, Shapes <- MCShapes, VECTOR <- 2, BLOCK <- 4,
                            UNROLL <- 4, Custom <- {3, 5}, Junk <- 1000, in <- MCin,
                            kernel <- MCkernel, before <- MCbefore
J == INSTANCE MCLibrary
R == INSTANCE RIPRouter WITH Routers <- {"r1", "r2", "r3"}, Hosts <- {"h"}, POSITIVE_INFINITY <- 5,
                             TTL <- 3, Topologies <- MCTopologies, MaxChanges <- 1
S == INSTANCE SlaveRing WITH Ids <- -2 .. 1, numSlaves <- 3, MaxReregistrations <- 2
K == INSTANCE KVCache WITH KVKeys <- DOMAIN MChashCode, KVValues <- {1, 2}, hashCode <- MChashCode,
                           MIN_VALUE <- -8, numSets <- 3, maxElemsPerSet <- 3
O == INSTANCE Ocean WITH width <- 3, height <- 2, starveTime <- 1, Arrays <- MCArrays
B == INSTANCE Board WITH DIMENSION <- 4, Chips <- 3, playerColor <- "black", searchDepth <- 1

malloc == <<used_map, pool_lock, descs, arenas, mem, ptr, call>>
loader == <<free, page, proc>>
ide == <<hw, disk, reg, lock, expecting_interrupt, completion_wait, is_ata, all_blocks, boot, io,
         last, spurious>>
console == <<txq, rxq, ier, thr, rbr, console_lock, th, line, issued, seen, panicked>>
list == <<link, val>>
hash == <<h, elems>>
metadata == <<statics, reports>>
convolve == <<s, phase, todo, padded_in, kern_flipped, kern_local, out>>
router == <<routing_table, neighbors, forwarding_table, ports, cable, changes, died>>
ring == <<slaveList, info, slaveIdMap, slaveNodeMap, registering, lookup, overlapped,
          reregistrations>>
cache == <<sets, latest>>
ocean == <<ocean_array, runs, threw>>
board == <<grid, connections, count, currentPlayer, moveKind, search, root>>
all == <<which, malloc, loader, ide, console, list, hash, metadata, convolve, job, router, ring,
         cache, ocean, board>>

Unused(v) == v = NULL

MCInit ==
  /\ which \in Parts
  /\ IF which = "malloc" THEN M!Init
     ELSE /\ Unused(used_map) /\ Unused(pool_lock) /\ Unused(descs) /\ Unused(arenas)
          /\ Unused(mem) /\ Unused(ptr) /\ Unused(call)
  /\ IF which = "loader" THEN P!Init ELSE Unused(free) /\ Unused(page) /\ Unused(proc)
  /\ IF which = "ide" THEN I!Init
     ELSE /\ Unused(hw) /\ Unused(disk) /\ Unused(reg) /\ Unused(lock)
          /\ Unused(expecting_interrupt) /\ Unused(completion_wait) /\ Unused(is_ata)
          /\ Unused(all_blocks) /\ Unused(boot) /\ Unused(io) /\ Unused(last) /\ Unused(spurious)
  /\ IF which = "console" THEN C!Init
     ELSE /\ Unused(txq) /\ Unused(rxq) /\ Unused(ier) /\ Unused(thr) /\ Unused(rbr)
          /\ Unused(console_lock) /\ Unused(th) /\ Unused(line) /\ Unused(issued)
          /\ Unused(seen) /\ Unused(panicked)
  /\ IF which = "list" THEN D!Init ELSE Unused(link) /\ Unused(val)
  /\ IF which = "hash" THEN H!Init ELSE Unused(h) /\ Unused(elems)
  /\ IF which = "metadata" THEN X!Init ELSE Unused(statics) /\ Unused(reports)
  /\ IF which = "convolve" THEN V!Init
     ELSE /\ Unused(s) /\ Unused(phase) /\ Unused(todo) /\ Unused(padded_in)
          /\ Unused(kern_flipped) /\ Unused(kern_local) /\ Unused(out)
  /\ IF which = "library" THEN J!Init ELSE Unused(job)
  /\ IF which = "router" THEN R!Init
     ELSE /\ Unused(routing_table) /\ Unused(neighbors) /\ Unused(forwarding_table)
          /\ Unused(ports) /\ Unused(cable) /\ Unused(changes) /\ Unused(died)
  /\ IF which = "ring" THEN S!Init
     ELSE /\ Unused(slaveList) /\ Unused(info) /\ Unused(slaveIdMap)
          /\ Unused(slaveNodeMap) /\ Unused(registering) /\ Unused(lookup)
          /\ Unused(overlapped) /\ Unused(reregistrations)
  /\ IF which = "cache" THEN K!Init ELSE Unused(sets) /\ Unused(latest)
  /\ IF which = "ocean" THEN O!Init ELSE Unused(ocean_array) /\ Unused(runs) /\ Unused(threw)
  /\ IF which = "board" THEN B!Init
     ELSE /\ Unused(grid) /\ Unused(connections) /\ Unused(count)
          /\ Unused(currentPlayer) /\ Unused(moveKind) /\ Unused(search) /\ Unused(root)

MCNext ==
  \/ /\ which = "malloc" /\ M!Next
     /\ UNCHANGED <<which, loader, ide, console, list, hash, metadata, convolve, job, router,
                    ring, cache, ocean, board>>
  \/ /\ which = "loader" /\ P!Next
     /\ UNCHANGED <<which, malloc, ide, console, list, hash, metadata, convolve, job, router,
                    ring, cache, ocean, board>>
  \/ /\ which = "ide" /\ I!Next
     /\ UNCHANGED <<which, malloc, loader, console, list, hash, metadata, convolve, job, router,
                    ring, cache, ocean, board>>
  \/ /\ which = "console" /\ C!Next
     /\ UNCHANGED <<which, malloc, loader, ide, list, hash, metadata, convolve, job, router,
                    ring, cache, ocean, board>>
  \/ /\ which = "list" /\ D!Next
     /\ UNCHANGED <<which, malloc, loader, ide, console, hash, metadata, convolve, job, router,
                    ring, cache, ocean, board>>
  \/ /\ which = "hash" /\ H!Next
     /\ UNCHANGED <<which, malloc, loader, ide, console, list, metadata, convolve, job, router,
                    ring, cache, ocean, board>>
  \/ /\ which = "metadata" /\ X!Next
     /\ UNCHANGED <<which, malloc, loader, ide, console, list, hash, convolve, job, router,
                    ring, cache, ocean, board>>
  \/ /\ which = "convolve" /\ V!Next
     /\ UNCHANGED <<which, malloc, loader, ide, console, list, hash, metadata, job, router,
                    ring, cache, ocean, board>>
  \/ /\ which = "library" /\ J!Next
     /\ UNCHANGED <<which, malloc, loader, ide, console, list, hash, metadata, convolve, router,
                    ring, cache, ocean, board>>
  \/ /\ which = "router" /\ R!Next
     /\ UNCHANGED <<which, malloc, loader, ide, console, list, hash, metadata, convolve, job,
                    ring, cache, ocean, board>>
  \/ /\ which = "ring" /\ S!Next
     /\ UNCHANGED <<which, malloc, loader, ide, console, list, hash, metadata, convolve, job,
                    router, cache, ocean, board>>
  \/ /\ which = "cache" /\ K!Next
     /\ UNCHANGED <<which, malloc, loader, ide, console, list, hash, metadata, convolve, job,
                    router, ring, ocean, board>>
  \/ /\ which = "ocean" /\ O!Next
     /\ UNCHANGED <<which, malloc, loader, ide, console, list, hash, metadata, convolve, job,
                    router, ring, cache, board>>
  \/ /\ which = "board" /\ B!Next
     /\ UNCHANGED <<which, malloc, loader, ide, console, list, hash, metadata, convolve, job,
                    router, ring, cache, ocean>>

MCSpec == MCInit /\ [][MCNext]_all

\* The elements of each set are alike in Malloc, Loader and Ide.
Symmetry == Permutations(Threads) \cup Permutations(Values) \cup Permutations(Blocks)

-----------------------------------------------------------------------------
(* Properties: those of the components.                                       *)

\* malloc, realloc and free let no two users write to one byte, and realloc keeps
\* what its caller wrote (Malloc!ContentsKept).
ContentsKept == which = "malloc" => M!ContentsKept

\* Every page and block of the allocators is free or in use, once, and counted
\* (Malloc!ArenasAccounted).
ArenasAccounted == which = "malloc" => M!ArenasAccounted

\* load and process_exit neither lose a page nor free one in use, on every error
\* path (Loader!PagesAccounted).
PagesAccounted == which = "loader" => P!PagesAccounted


\* No block of a disk reaches past it, whatever the partition table says
\* (Ide!AccessInside).
AccessInside == which = "ide" => I!AccessInside

\* ide_read returns what ide_write last wrote there, and finds data when it
\* transfers, in spite of spurious interrupts (Ide!ReadsLastWrite).
ReadsLastWrite == which = "ide" => I!ReadsLastWrite

\* Messages reach the serial line whole, input reaches the readers in order and
\* without a gap (Console!StreamsInOrder).
StreamsInOrder == [][which = "console" => C!StreamStep]_all

\* Nobody waits for an interrupt that is not enabled (Console!InterruptsArmed).
InterruptsArmed == which = "console" => C!InterruptsArmed

\* The assertions of intq.c's wait hold (Console!WaitAsserted).
WaitAsserted == which = "console" => C!WaitAsserted

\* What the calls so far make of it, a data structure stands for: the linked lists
\* are sequences, the hash table is a set, the cache is a bounded map and the
\* run-length encoding is an ocean (List!ListIsSequence, Hash!HashIsSet,
\* KVCache!CacheIsMap, Ocean!EncodingIsOcean).
ContainersMatch ==
  /\ which = "list" => D!ListIsSequence
  /\ which = "hash" => H!HashIsSet
  /\ which = "cache" => K!CacheIsMap
  /\ which = "ocean" => O!EncodingIsOcean



\* The parallel, unrolled conv2D computes what reference computes
\* (Convolve!ConvolutionMatches).
ConvolutionMatches == which = "convolve" => V!ConvolutionMatches


\* Lookups in the master's ring of slaves find the two replicas of a key, unless a
\* slave is registering again meanwhile (SlaveRing!RingServes).
RingServes == which = "ring" => S!RingServes

\* The game board's incremental bookkeeping is that of the chips on it, and a tree
\* search restores the board (Board!BoardConsistent).
BoardConsistent == which = "board" => B!BoardConsistent
=============================================================================
