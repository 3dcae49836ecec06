------------------------------- MODULE Malloc -------------------------------
(* The kernel's memory allocators: palloc.c hands out pages from a pool     *)
(* whose bitmap is searched under the pool's lock and cleared without it;   *)
(* malloc.c cuts pages (arenas) into blocks of one size, one descriptor and *)
(* one lock per size, and returns an arena's page when its last block is    *)
(* freed.  Threads allocate, reallocate and free the blocks of shared       *)
(* pointers.  Bytes hold who wrote them last, so a block that is handed out *)
(* twice, or freed while in use, shows in its contents.                     *)
EXTENDS Integers, FiniteSets, Sequences, SequencesExt

CONSTANTS
  Threads,
  Ptrs,        \* the pointers of the program, each to one block or to nothing
  PageCnt,     \* pages of the pool
  PGSIZE,
  Header,      \* sizeof (struct arena)
  MinBlock,    \* the smallest block, 16 bytes in malloc_init
  Sizes,       \* the sizes asked for
  NULL, NoThread

VARIABLES
  used_map,    \* page -> in use
  pool_lock,   \* the thread in palloc_get_multiple's critical section
  descs,       \* block size -> [lock, free_list]
  arenas,      \* page -> [desc, free_cnt], or NULL
  mem,         \* byte -> its last writer
  ptr,         \* pointer -> [addr, size, len], or NULL
  th           \* thread -> its call of malloc, realloc or free

vars == <<used_map, pool_lock, descs, arenas, mem, ptr, th>>

Pages == 0 .. PageCnt - 1

BlockSizes == {s \in {MinBlock * 2^k : k \in 0 .. PGSIZE} : s < PGSIZE \div 2}

BlocksPerArena(d) == (PGSIZE - Header) \div d

\* The first descriptor that satisfies the request; 0 when it is too big for any.
DescOf(size) ==
  LET fit == {d \in BlockSizes : d >= size}
  IN  IF fit = {} THEN 0 ELSE CHOOSE d \in fit : \A e \in fit : d <= e

PagesFor(size) == (size + Header + PGSIZE - 1) \div PGSIZE

PageOf(addr) == addr \div PGSIZE

ArenaBlocks(page, d) ==
  [i \in 1 .. BlocksPerArena(d) |-> page * PGSIZE + Header + (i - 1) * d]

BlockSize(addr) ==
  LET a == arenas[PageOf(addr)]
  IN  IF a.desc # 0 THEN a.desc ELSE PGSIZE * a.free_cnt - (addr % PGSIZE)

Bytes(addr, n) == addr .. addr + n - 1

Fill(m, bytes, v) == [b \in DOMAIN m |-> IF b \in bytes THEN v ELSE m[b]]

(* bitmap_scan (map, 0, cnt, false).                                        *)
FreeRuns(cnt) == {i \in 0 .. PageCnt - cnt : \A j \in i .. i + cnt - 1 : ~used_map[j]}

Idle == [pc |-> "idle", p |-> NULL, size |-> 0, page |-> 0, old |-> NULL]

Init ==
  /\ used_map = [i \in Pages |-> FALSE]
  /\ pool_lock = NoThread
  /\ descs = [d \in BlockSizes |-> [lock |-> NoThread, free_list |-> <<>>]]
  /\ arenas = [i \in Pages |-> NULL]
  /\ mem = [b \in 0 .. PageCnt * PGSIZE - 1 |-> "cc"]
  /\ ptr = [p \in Ptrs |-> NULL]
  /\ th = [t \in Threads |-> Idle]

Goto(t, pc) == th' = [th EXCEPT ![t].pc = pc]

Unlock(ds, t) == [d \in BlockSizes |-> IF ds[d].lock = t THEN [ds[d] EXCEPT !.lock = NoThread] ELSE ds[d]]

-----------------------------------------------------------------------------
(* malloc and realloc.                                                      *)

\* malloc (size) when p points to nothing, realloc (p, size) when it points to
\* a block; malloc of size 0 returns a null pointer and changes nothing.
Malloc(t, p, size) ==
  /\ th[t].pc = "idle"
  /\ size > 0
  /\ \A u \in Threads : th[u].p # p
  /\ th' = [th EXCEPT ![t] = [Idle EXCEPT !.pc = IF DescOf(size) = 0 THEN "scan" ELSE "lock",
                                          !.p = p, !.size = size, !.old = ptr[p]]]
  /\ UNCHANGED <<used_map, pool_lock, descs, arenas, mem, ptr>>

LockDesc(t) ==
  LET d == DescOf(th[t].size)
  IN  /\ th[t].pc = "lock"
      /\ descs[d].lock = NoThread
      /\ descs' = [descs EXCEPT ![d].lock = t]
      /\ Goto(t, IF descs[d].free_list = <<>> THEN "scan" ELSE "pop")
      /\ UNCHANGED <<used_map, pool_lock, arenas, mem, ptr>>

\* palloc_get_multiple searches the bitmap under the pool's lock.
Scan(t) ==
  LET cnt == PagesFor(th[t].size)
      need == IF DescOf(th[t].size) = 0 THEN cnt ELSE 1
      runs == FreeRuns(need)
  IN  /\ th[t].pc = "scan"
      /\ pool_lock = NoThread
      /\ \/ /\ runs # {}
            /\ pool_lock' = t
            /\ th' = [th EXCEPT ![t].pc = "flip",
                                ![t].page = CHOOSE i \in runs : \A j \in runs : i <= j]
            /\ UNCHANGED descs
         \/ /\ runs = {}
            /\ descs' = Unlock(descs, t)
            /\ th' = [th EXCEPT ![t] = Idle]
            /\ UNCHANGED pool_lock
      /\ UNCHANGED <<used_map, arenas, mem, ptr>>

\* Mutant of Return: realloc gives out the new block without the old one's bytes.
ReturnUncopied(t, addr, m) ==
  LET c == th[t]
      len == IF c.old = NULL \/ c.size < c.old.len THEN c.size ELSE c.old.len
  IN  /\ mem' = IF c.old = NULL THEN Fill(m, Bytes(addr, c.size), c.p) ELSE m
      /\ ptr' = [ptr EXCEPT ![c.p] = [addr |-> addr, size |-> c.size, len |-> len]]
      /\ th' = [th EXCEPT ![t] = IF c.old = NULL THEN Idle ELSE [c EXCEPT !.pc = "free"]]

\* A block was found: the caller's data goes into it; realloc copies the old
\* block's bytes and frees the old block.
Return(t, addr, m) ==
  LET c == th[t]
      old == c.old
      len == IF old = NULL THEN c.size
             ELSE IF old.len < c.size THEN old.len ELSE c.size
      copied == IF old = NULL THEN c.size
                ELSE IF BlockSize(old.addr) < c.size THEN BlockSize(old.addr) ELSE c.size
  IN  /\ mem' = [b \in DOMAIN m |->
                   IF b \notin Bytes(addr, copied) THEN m[b]
                   ELSE IF old = NULL THEN c.p ELSE m[old.addr + b - addr]]
      /\ ptr' = [ptr EXCEPT ![c.p] = [addr |-> addr, size |-> c.size, len |-> len]]
      /\ th' = [th EXCEPT ![t] = IF old = NULL THEN Idle ELSE [c EXCEPT !.pc = "free"]]

\* The bits are set, and the page becomes an arena: one big block, or a
\* descriptor's free blocks.
Flip(t) ==
  LET d == DescOf(th[t].size)
      cnt == IF d = 0 THEN PagesFor(th[t].size) ELSE 1
      page == th[t].page
      header == Bytes(page * PGSIZE, Header)
  IN  /\ th[t].pc = "flip"
      /\ used_map' = [i \in Pages |-> used_map[i] \/ i \in page .. page + cnt - 1]
      /\ pool_lock' = NoThread
      /\ arenas' = [arenas EXCEPT ![page] =
                      [desc |-> d, free_cnt |-> IF d = 0 THEN cnt ELSE BlocksPerArena(d)]]
      /\ \/ /\ d = 0
            /\ Return(t, page * PGSIZE + Header, Fill(mem, header, "arena"))
            /\ UNCHANGED descs
         \/ /\ d # 0
            /\ descs' = [descs EXCEPT ![d].free_list = @ \o ArenaBlocks(page, d)]
            /\ mem' = Fill(Fill(mem, Bytes(page * PGSIZE, PGSIZE), "link"), header, "arena")
            /\ Goto(t, "pop")
            /\ UNCHANGED ptr

Pop(t) ==
  LET d == DescOf(th[t].size)
      b == Head(descs[d].free_list)
  IN  /\ th[t].pc = "pop"
      /\ descs' = [descs EXCEPT ![d] = [lock |-> NoThread, free_list |-> Tail(@.free_list)]]
      /\ arenas' = [arenas EXCEPT ![PageOf(b)].free_cnt = @ - 1]
      /\ Return(t, b, mem)
      /\ UNCHANGED <<used_map, pool_lock>>

-----------------------------------------------------------------------------
(* free, and realloc's free of the old block.                               *)

\* free (p), and realloc (p, 0): the bytes of a descriptor's block are cleared
\* before the lock is taken.
Free(t, p) ==
  LET b == IF th[t].pc = "free" THEN th[t].old ELSE ptr[p]
      d == arenas[PageOf(b.addr)].desc
  IN  /\ \/ /\ th[t].pc = "idle"
            /\ ptr[p] # NULL
            /\ \A u \in Threads : th[u].p # p
            /\ ptr' = [ptr EXCEPT ![p] = NULL]
         \/ /\ th[t].pc = "free"
            /\ p = th[t].p
            /\ UNCHANGED ptr
      /\ mem' = IF d = 0 THEN mem ELSE Fill(mem, Bytes(b.addr, d), "cc")
      /\ th' = [th EXCEPT ![t] = [Idle EXCEPT !.pc = IF d = 0 THEN "free page" ELSE "free lock",
                                              !.p = p, !.old = b, !.page = PageOf(b.addr)]]
      /\ UNCHANGED <<used_map, pool_lock, descs, arenas>>

FreeLock(t) ==
  LET d == arenas[th[t].page].desc
  IN  /\ th[t].pc = "free lock"
      /\ descs[d].lock = NoThread
      /\ descs' = [descs EXCEPT ![d].lock = t]
      /\ Goto(t, "push")
      /\ UNCHANGED <<used_map, pool_lock, arenas, mem, ptr>>

\* Mutant of Push: the arena is given back one block too late.
PushLate(t) ==
  LET a == th[t].page
      d == arenas[a].desc
      b == th[t].old.addr
      list == <<b>> \o descs[d].free_list
      empty == arenas[a].free_cnt + 1 > BlocksPerArena(d)
  IN  /\ th[t].pc = "push"
      /\ mem' = Fill(mem, Bytes(b, d), "link")
      /\ arenas' = [arenas EXCEPT ![a].free_cnt = @ + 1]
      /\ descs' = [descs EXCEPT ![d] =
           IF empty
           THEN [@ EXCEPT !.free_list = SelectSeq(list, LAMBDA x : PageOf(x) # a)]
           ELSE [lock |-> NoThread, free_list |-> list]]
      /\ th' = [th EXCEPT ![t] = IF empty THEN [@ EXCEPT !.pc = "free page"] ELSE Idle]
      /\ UNCHANGED <<used_map, pool_lock, ptr>>

\* The block goes to the front of the free list; when its arena has no block in
\* use any more, all of the arena's blocks leave the list.
Push(t) ==
  LET a == th[t].page
      d == arenas[a].desc
      b == th[t].old.addr
      list == <<b>> \o descs[d].free_list
      empty == arenas[a].free_cnt + 1 >= BlocksPerArena(d)
  IN  /\ th[t].pc = "push"
      /\ mem' = Fill(mem, Bytes(b, d), "link")
      /\ arenas' = [arenas EXCEPT ![a].free_cnt = @ + 1]
      /\ descs' = [descs EXCEPT ![d] =
           IF empty
           THEN [@ EXCEPT !.free_list = SelectSeq(list, LAMBDA x : PageOf(x) # a)]
           ELSE [lock |-> NoThread, free_list |-> list]]
      /\ th' = [th EXCEPT ![t] = IF empty THEN [@ EXCEPT !.pc = "free page"] ELSE Idle]
      /\ UNCHANGED <<used_map, pool_lock, ptr>>

\* palloc_free_multiple: the pages are cleared, then their bits, one at a time
\* and without the pool's lock.
FreePage(t) ==
  LET a == th[t].page
      cnt == IF arenas[a].desc = 0 THEN arenas[a].free_cnt ELSE 1
  IN  /\ th[t].pc = "free page"
      /\ mem' = Fill(mem, Bytes(a * PGSIZE, cnt * PGSIZE), "cc")
      /\ arenas' = [arenas EXCEPT ![a] = NULL]
      /\ th' = [th EXCEPT ![t].pc = "free bits", ![t].size = cnt]
      /\ UNCHANGED <<used_map, pool_lock, descs, ptr>>

FreeBit(t) ==
  LET c == th[t]
  IN  /\ c.pc = "free bits"
      /\ used_map' = [used_map EXCEPT ![c.page] = FALSE]
      /\ \/ /\ c.size > 1
            /\ th' = [th EXCEPT ![t].page = @ + 1, ![t].size = @ - 1]
            /\ UNCHANGED descs
         \/ /\ c.size = 1
            /\ th' = [th EXCEPT ![t] = Idle]
            /\ descs' = Unlock(descs, t)
      /\ UNCHANGED <<pool_lock, arenas, mem, ptr>>

Next ==
  \E t \in Threads :
    \/ \E p \in Ptrs, size \in Sizes : Malloc(t, p, size)
    \/ LockDesc(t) \/ Scan(t) \/ Flip(t) \/ Pop(t)
    \/ \E p \in Ptrs : Free(t, p)
    \/ FreeLock(t) \/ Push(t) \/ FreePage(t) \/ FreeBit(t)

Spec == Init /\ [][Next]_vars

-----------------------------------------------------------------------------
(* Properties.                                                              *)

\* malloc, realloc and free never let two users write to one byte: whatever
\* other threads allocate and free, a block keeps what its owner wrote until
\* the owner frees it, realloc carries it over, and the header of an arena in
\* use is never written to.
ContentsKept ==
  /\ \A p \in Ptrs : ptr[p] # NULL =>
       \A i \in 0 .. ptr[p].len - 1 : mem[ptr[p].addr + i] = p
  /\ \A a \in Pages : arenas[a] # NULL =>
       \A b \in Bytes(a * PGSIZE, Header) : mem[b] = "arena"

\* The blocks a thread holds of a descriptor's arena: those pointers point to,
\* and those between a caller and the free list.
InUse(a) ==
  {ptr[p].addr : p \in {q \in Ptrs : ptr[q] # NULL /\ PageOf(ptr[q].addr) = a}}
    \cup {th[t].old.addr : t \in {u \in Threads :
            th[u].pc \in {"free", "free lock", "push"} /\ PageOf(th[u].old.addr) = a}}

\* Every page and block is accounted for: a page is in use exactly when an arena
\* or a thread on its way to free it holds it, an arena counts its free blocks,
\* all of them are on the free list once, the others are in use, and no page is
\* kept for an arena whose blocks are all free (but between two steps of the
\* thread that holds the descriptor's lock).
ArenasAccounted ==
  /\ \A i \in Pages : used_map[i] <=>
       \/ \E a \in Pages : arenas[a] # NULL
            /\ i \in a .. a + (IF arenas[a].desc = 0 THEN arenas[a].free_cnt ELSE 1) - 1
       \/ \E t \in Threads : th[t].pc = "free bits" /\ i \in th[t].page .. th[t].page + th[t].size - 1
  /\ \A d \in BlockSizes :
       LET list == descs[d].free_list
           own == {a \in Pages : arenas[a] # NULL /\ arenas[a].desc = d}
       IN  /\ Cardinality(ToSet(list)) = Len(list)
           /\ \A i \in 1 .. Len(list) : PageOf(list[i]) \in own
           /\ descs[d].lock = NoThread => \A a \in own :
                LET free == {b \in ToSet(list) : PageOf(b) = a}
                IN  /\ arenas[a].free_cnt = Cardinality(free)
                    /\ arenas[a].free_cnt < BlocksPerArena(d)
                    /\ InUse(a) \cap free = {}
                    /\ Cardinality(InUse(a)) + Cardinality(free) = BlocksPerArena(d)
=============================================================================
