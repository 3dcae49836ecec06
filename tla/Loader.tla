------------------------------- MODULE Loader -------------------------------
(* Loading an executable into a new address space: load and its helpers in  *)
(* process.c over the page directories of pagedir.c and the two page pools  *)
(* of palloc.c.  Processes load and end at the same time and share the      *)
(* pools; an allocation fails when its pool is empty.  A page of memory is a *)
(* page directory, a page table, or the bytes of a user page, a byte being  *)
(* the file offset it was read from, Zero, or what palloc_free_page fills.  *)
EXTENDS Integers, FiniteSets, Sequences

CONSTANTS
  Procs,
  Exes,        \* executables: [length, header, phdrs]
  KernelPages, UserPages,   \* the pages of the two pools
  PGSIZE,
  PHYS_BASE,   \* first address that is not a user address, a multiple of PGSIZE
  PtEntries,   \* entries of a page table
  AddrMod,     \* addresses are computed modulo AddrMod, 2^32 in the code
  NULL

VARIABLES
  free,        \* the free pages of both pools
  page,        \* page -> its contents
  proc         \* process -> [pc, exe, pd, i, seg, kpage]

vars == <<free, page, proc>>

PdEntries == PHYS_BASE \div (PGSIZE * PtEntries)
Zero == -1
Junk == [i \in 0 .. PGSIZE - 1 |-> -2]
NoSeg == [upage |-> 0, pos |-> 0, read |-> 0, zero |-> 0, writable |-> FALSE, stack |-> FALSE]
NoProc == [pc |-> "none", exe |-> NULL, pd |-> NULL, i |-> 0, seg |-> NoSeg, kpage |-> NULL]

Init ==
  /\ free = KernelPages \cup UserPages
  /\ page = [k \in KernelPages \cup UserPages |-> Junk]
  /\ proc = [p \in Procs |-> NoProc]

Lowest(S) == CHOOSE k \in S : \A j \in S : k <= j

IsUser(addr) == addr % AddrMod < PHYS_BASE
RoundDown(addr) == addr - (addr % PGSIZE)
RoundUp(addr) == RoundDown(addr + PGSIZE - 1)
At(p, pc) == proc[p].pc = pc

\* The page table that has the entry of user page number u, or NULL.
lookup_page(p, u) == page[proc[p].pd][u \div PtEntries]

pagedir_get_page(p, u) ==
  LET pt == lookup_page(p, u) IN IF pt = NULL THEN NULL ELSE page[pt][u % PtEntries]

\* Maps user page u, in a new page table if there is none.
pagedir_set_page(p, u, pte) ==
  LET pt == lookup_page(p, u)
      avail == free \cap KernelPages
      new == Lowest(avail)
  IN  \/ /\ pt # NULL
         /\ page' = [page EXCEPT ![pt][u % PtEntries] = pte]
         /\ UNCHANGED free
      \/ /\ pt = NULL /\ avail # {}
         /\ free' = free \ {new}
         /\ page' = [page EXCEPT ![proc[p].pd][u \div PtEntries] = new,
                                 ![new] = [e \in 0 .. PtEntries - 1 |->
                                             IF e = u % PtEntries THEN pte ELSE NULL]]

\* load returns false: the new process goes on to exit.
Fail(p) == proc' = [proc EXCEPT ![p] = [NoProc EXCEPT !.pc = "exit", !.pd = proc[p].pd]]

-----------------------------------------------------------------------------
(* load.                                                                    *)

PagedirCreate(p, exe) ==
  LET avail == free \cap KernelPages
  IN  /\ At(p, "none")
      /\ avail # {}
      /\ free' = free \ {Lowest(avail)}
      /\ page' = [page EXCEPT ![Lowest(avail)] = [e \in 0 .. PdEntries - 1 |-> NULL]]
      /\ proc' = [proc EXCEPT ![p].pc = "header", ![p].exe = exe, ![p].pd = Lowest(avail)]

\* The file does not open, or its header is not an ELF header.
ReadHeader(p) ==
  /\ At(p, "header")
  /\ IF proc[p].exe.header
     THEN proc' = [proc EXCEPT ![p].pc = "phdr", ![p].i = 1]
     ELSE Fail(p)
  /\ UNCHANGED <<free, page>>

ValidateSegment(ph, length) ==
  /\ ph.offset % PGSIZE = ph.vaddr % PGSIZE
  /\ ph.offset <= length
  /\ ph.memsz >= ph.filesz
  /\ ph.memsz # 0
  /\ IsUser(ph.vaddr)
  /\ IsUser(ph.vaddr + ph.memsz)
  /\ (ph.vaddr + ph.memsz) % AddrMod >= ph.vaddr
  /\ ph.vaddr >= PGSIZE

Segment(ph) ==
  LET page_offset == ph.vaddr % PGSIZE
      read == IF ph.filesz > 0 THEN page_offset + ph.filesz ELSE 0
  IN  [upage |-> RoundDown(ph.vaddr), pos |-> RoundDown(ph.offset), read |-> read,
       zero |-> RoundUp(page_offset + ph.memsz) - read,
       writable |-> ph.writable, stack |-> FALSE]

StackSegment ==
  [NoSeg EXCEPT !.upage = PHYS_BASE - PGSIZE, !.zero = PGSIZE, !.writable = TRUE, !.stack = TRUE]

\* One round of the loop over the program headers; after the last one,
\* setup_stack.
ReadPhdr(p) ==
  LET exe == proc[p].exe
      i == proc[p].i
      ph == exe.phdrs[i]
      next == [proc EXCEPT ![p].i = i + 1]
  IN  /\ At(p, "phdr")
      /\ \/ /\ i > Len(exe.phdrs)
            /\ proc' = [proc EXCEPT ![p].pc = "alloc", ![p].seg = StackSegment]
         \/ /\ i <= Len(exe.phdrs)
            /\ ph.type = "ignore"
            /\ proc' = next
         \/ /\ i <= Len(exe.phdrs)
            /\ ph.type = "load"
            /\ ValidateSegment(ph, exe.length)
            /\ proc' = [next EXCEPT ![p].pc = "alloc", ![p].seg = Segment(ph)]
         \/ /\ i <= Len(exe.phdrs)
            /\ \/ ph.type \in {"refuse", "past end"}
               \/ ph.type = "load" /\ ~ValidateSegment(ph, exe.length)
            /\ Fail(p)
      /\ UNCHANGED <<free, page>>

\* The next page of a segment, or the stack's page.
AllocPage(p) ==
  LET seg == proc[p].seg
      avail == free \cap UserPages
  IN  /\ At(p, "alloc")
      /\ \/ /\ seg.read = 0 /\ seg.zero = 0
            /\ proc' = [proc EXCEPT ![p].pc = IF seg.stack THEN "loaded" ELSE "phdr",
                                    ![p].seg = NoSeg]
            /\ UNCHANGED free
         \/ /\ seg.read > 0 \/ seg.zero > 0
            /\ IF avail = {}
               THEN Fail(p) /\ UNCHANGED free
               ELSE /\ free' = free \ {Lowest(avail)}
                    /\ proc' = [proc EXCEPT ![p].pc = "read", ![p].kpage = Lowest(avail)]
      /\ UNCHANGED page

PageRead(p) == IF proc[p].seg.read < PGSIZE THEN proc[p].seg.read ELSE PGSIZE

\* palloc_free_page, and load returns false.
FreeAndFail(p) ==
  /\ free' = free \cup {proc[p].kpage}
  /\ page' = [page EXCEPT ![proc[p].kpage] = Junk]
  /\ Fail(p)


\* file_read into the page and memset of the rest; a short read fails.
ReadPage(p) ==
  LET seg == proc[p].seg
      n == PageRead(p)
  IN  /\ At(p, "read")
      /\ \/ /\ seg.pos + n > proc[p].exe.length
            /\ n > 0
            /\ FreeAndFail(p)
         \/ /\ n = 0 \/ seg.pos + n <= proc[p].exe.length
            /\ page' = [page EXCEPT ![proc[p].kpage] =
                          [b \in 0 .. PGSIZE - 1 |-> IF b < n THEN seg.pos + b ELSE Zero]]
            /\ proc' = [proc EXCEPT ![p].pc = "install"]
            /\ UNCHANGED free

\* install_page: fails when the address is mapped already, or when it needs a
\* page table and there is no page for it.
InstallPage(p) ==
  LET c == proc[p]
      u == c.seg.upage \div PGSIZE
      n == PageRead(p)
  IN  /\ At(p, "install")
      /\ \/ /\ \/ pagedir_get_page(p, u) # NULL
               \/ lookup_page(p, u) = NULL /\ free \cap KernelPages = {}
            /\ FreeAndFail(p)
         \/ /\ pagedir_get_page(p, u) = NULL
            /\ pagedir_set_page(p, u, [kpage |-> c.kpage, writable |-> c.seg.writable])
            /\ proc' = [proc EXCEPT ![p].pc = "alloc", ![p].kpage = NULL,
                                    ![p].seg = [c.seg EXCEPT !.read = @ - n, !.pos = @ + n,
                                                  !.zero = @ - (PGSIZE - n), !.upage = @ + PGSIZE]]

-----------------------------------------------------------------------------
(* process_exit.                                                            *)

Exit(p) ==
  /\ At(p, "loaded")
  /\ Fail(p)
  /\ UNCHANGED <<free, page>>

\* Mutant of PagedirDestroy: the directory's tables are not freed.
PagedirDestroyTables(p) ==
  LET pd == proc[p].pd
      i == proc[p].i
      last == i + 1 >= PdEntries * PtEntries
      pt == page[pd][i \div PtEntries]
      pte == IF pt = NULL THEN NULL ELSE page[pt][i % PtEntries]
      freed == (IF pte = NULL THEN {} ELSE {pte.kpage})
                 \cup (IF last THEN {pd} ELSE {})
  IN  /\ At(p, "exit")
      /\ free' = free \cup freed
      /\ page' = [k \in DOMAIN page |-> IF k \in freed THEN Junk ELSE page[k]]
      /\ proc' = [proc EXCEPT ![p] = IF last THEN NoProc ELSE [@ EXCEPT !.i = i + 1]]

\* One page table entry of pagedir_destroy's loops: its page, after the table's
\* last entry the table, at the end the directory.
PagedirDestroy(p) ==
  LET pd == proc[p].pd
      i == proc[p].i
      last == i + 1 >= PdEntries * PtEntries
      pt == page[pd][i \div PtEntries]
      pte == IF pt = NULL THEN NULL ELSE page[pt][i % PtEntries]
      freed == (IF pte = NULL THEN {} ELSE {pte.kpage})
                 \cup (IF pt # NULL /\ (i + 1) % PtEntries = 0 THEN {pt} ELSE {})
                 \cup (IF last THEN {pd} ELSE {})
  IN  /\ At(p, "exit")
      /\ free' = free \cup freed
      /\ page' = [k \in DOMAIN page |-> IF k \in freed THEN Junk ELSE page[k]]
      /\ proc' = [proc EXCEPT ![p] = IF last THEN NoProc ELSE [@ EXCEPT !.i = i + 1]]

Next ==
  \E p \in Procs :
    \/ \E exe \in Exes : PagedirCreate(p, exe)
    \/ ReadHeader(p) \/ ReadPhdr(p) \/ AllocPage(p) \/ ReadPage(p) \/ InstallPage(p)
    \/ Exit(p) \/ PagedirDestroy(p)

Spec == Init /\ [][Next]_vars

-----------------------------------------------------------------------------
(* Properties.                                                              *)

\* The pages a process has a way to: its directory, the tables and the mapped
\* pages that are not freed yet, and the page load is filling.
Owned(p) ==
  LET c == proc[p]
      from == IF c.pc = "exit" THEN c.i ELSE 0
      tables == {e \in 0 .. PdEntries - 1 : page[c.pd][e] # NULL /\ from < (e + 1) * PtEntries}
      mapped == {u \in from .. PdEntries * PtEntries - 1 :
                   u \div PtEntries \in tables /\ pagedir_get_page(p, u) # NULL}
  IN  IF c.pd = NULL THEN <<{}, 0>>
      ELSE <<{c.pd} \cup {page[c.pd][e] : e \in tables} \cup {pagedir_get_page(p, u).kpage : u \in mapped}
               \cup ({c.kpage} \ {NULL}),
             1 + Cardinality(tables) + Cardinality(mapped) + (IF c.kpage = NULL THEN 0 ELSE 1)>>

\* load and process_exit neither lose a page nor free one that is in use, on
\* whatever error load stops: every page is free, or belongs to one place of one
\* process.
PagesAccounted ==
  LET owners == {<<p, Owned(p)>> : p \in Procs}
  IN  /\ \A o \in owners : Cardinality(o[2][1]) = o[2][2]
      /\ \A o, r \in owners : o # r => o[2][1] \cap r[2][1] = {}
      /\ free = DOMAIN page \ UNION {o[2][1] : o \in owners}

=============================================================================
