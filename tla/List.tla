------------------------------- MODULE List -------------------------------
(* lib/kernel/list.c: doubly linked lists whose links are in the elements,   *)
(* with a head and a tail that are elements too.  The state is the links;    *)
(* `val` is the history that says which sequence each list should be.        *)
EXTENDS Integers, Sequences, SequencesExt

CONSTANTS Elems, Lists, Key      \* Key[e]: what LESS compares

VARIABLES link, val
vars == <<link, val>>

Head_(l) == <<l, "head">>
Tail_(l) == <<l, "tail">>
Nodes == Elems \cup {Head_(l) : l \in Lists} \cup {Tail_(l) : l \in Lists}

list_init ==
  [next |-> [n \in Nodes |-> IF \E l \in Lists : n = Head_(l)
                             THEN Tail_(CHOOSE l \in Lists : n = Head_(l)) ELSE n],
   prev |-> [n \in Nodes |-> IF \E l \in Lists : n = Tail_(l)
                             THEN Head_(CHOOSE l \in Lists : n = Tail_(l)) ELSE n]]

Init == link = list_init /\ val = [l \in Lists |-> <<>>]

-----------------------------------------------------------------------------
(* The operations, on links L.                                              *)

list_begin(L, l) == L.next[Head_(l)]
list_empty(L, l) == list_begin(L, l) = Tail_(l)

list_insert(L, before, e) ==
  [next |-> [L.next EXCEPT ![e] = before, ![L.prev[before]] = e],
   prev |-> [L.prev EXCEPT ![e] = L.prev[before], ![before] = e]]

list_remove(L, e) ==
  [next |-> [L.next EXCEPT ![L.prev[e]] = L.next[e]],
   prev |-> [L.prev EXCEPT ![L.next[e]] = L.prev[e]]]

\* Moves the elements from `first` up to `end` (exclusive) before `before`.
list_splice(L, before, first, end) ==
  LET last == L.prev[end]
      Cut == [next |-> [L.next EXCEPT ![L.prev[first]] = L.next[last]],
              prev |-> [L.prev EXCEPT ![L.next[last]] = L.prev[first]]]
  IN  IF first = end THEN L
      ELSE [next |-> [Cut.next EXCEPT ![last] = before, ![Cut.prev[before]] = first],
            prev |-> [Cut.prev EXCEPT ![first] = Cut.prev[before], ![before] = last]]

\* The nodes from a up to b (exclusive), as an iteration with list_next meets
\* them: at most as many as there are.
RECURSIVE Walk(_, _, _)
Walk(step, a, b) ==
  IF a = b THEN <<>> ELSE <<a>> \o Walk([step EXCEPT ![a] = b], step[a], b)

list_size(L, l) == Len(Walk(L.next, list_begin(L, l), Tail_(l)))

\* The links of every element are swapped, then those of the two ends.
list_reverse(L, l) ==
  LET S == ToSet(Walk(L.next, list_begin(L, l), Tail_(l)))
      first == L.prev[Tail_(l)]
      last == L.next[Head_(l)]
      next == [n \in Nodes |-> IF n \in S THEN L.prev[n] ELSE L.next[n]]
      prev == [n \in Nodes |-> IF n \in S THEN L.next[n] ELSE L.prev[n]]
  IN  IF list_empty(L, l) THEN L
      ELSE [next |-> [next EXCEPT ![Head_(l)] = first, ![last] = prev[first]],
            prev |-> [prev EXCEPT ![Tail_(l)] = last, ![first] = next[last]]]

less(a, b) == Key[a] < Key[b]

RECURSIVE find_end_of_run(_, _, _)
find_end_of_run(L, a, b) ==
  LET n == L.next[a]
  IN  IF n # b /\ ~less(n, L.prev[n]) THEN find_end_of_run(L, n, b) ELSE n

\* Mutant of inplace_merge: of two equal elements the later comes first.
RECURSIVE inplace_merge_unstable(_, _, _, _)
inplace_merge_unstable(L, a0, a1b0, b1) ==
  IF a0 = a1b0 \/ a1b0 = b1 THEN L
  ELSE IF less(a0, a1b0) THEN inplace_merge_unstable(L, L.next[a0], a1b0, b1)
  ELSE LET n == L.next[a1b0]
       IN  inplace_merge_unstable(list_splice(L, a0, L.prev[n], n), a0, n, b1)

RECURSIVE inplace_merge(_, _, _, _)
inplace_merge(L, a0, a1b0, b1) ==
  IF a0 = a1b0 \/ a1b0 = b1 THEN L
  ELSE IF ~less(a1b0, a0) THEN inplace_merge(L, L.next[a0], a1b0, b1)
  ELSE LET n == L.next[a1b0]
       IN  inplace_merge(list_splice(L, a0, L.prev[n], n), a0, n, b1)

\* One pass over the list from a0: adjacent runs are merged, two by two.
RECURSIVE Pass(_, _, _, _)
Pass(L, a0, end, output_run_cnt) ==
  IF a0 = end THEN [links |-> L, cnt |-> output_run_cnt]
  ELSE LET a1b0 == find_end_of_run(L, a0, end)
           b1 == find_end_of_run(L, a1b0, end)
       IN  IF a1b0 = end THEN [links |-> L, cnt |-> output_run_cnt + 1]
           ELSE Pass(inplace_merge(L, a0, a1b0, b1), b1, end, output_run_cnt + 1)

RECURSIVE list_sort(_, _)
list_sort(L, l) ==
  LET pass == Pass(L, list_begin(L, l), Tail_(l), 0)
  IN  IF pass.cnt > 1 THEN list_sort(pass.links, l) ELSE pass.links

list_insert_ordered(L, l, e) ==
  LET elems == Walk(L.next, list_begin(L, l), Tail_(l))
      at == SelectInSeq(elems, LAMBDA x : less(e, x))
  IN  list_insert(L, IF at = 0 THEN Tail_(l) ELSE elems[at], e)

\* Drops what is equal to the element before it, to the end of dup.
RECURSIVE Unique(_, _, _, _)
Unique(L, e, l, dup) ==
  LET n == L.next[e]
  IN  IF n = Tail_(l) THEN L
      ELSE IF ~less(e, n) /\ ~less(n, e)
      THEN Unique(list_insert(list_remove(L, n), Tail_(dup), n), e, l, dup)
      ELSE Unique(L, n, l, dup)

list_unique(L, l, dup) == IF list_empty(L, l) THEN L ELSE Unique(L, list_begin(L, l), l, dup)

\* The first of the largest elements, and of the smallest; the tail if none.
list_max(L, l) ==
  LET elems == Walk(L.next, list_begin(L, l), Tail_(l))
  IN  IF elems = <<>> THEN Tail_(l)
      ELSE FoldLeft(LAMBDA m, e : IF less(m, e) THEN e ELSE m, elems[1], Tail(elems))

list_min(L, l) ==
  LET elems == Walk(L.next, list_begin(L, l), Tail_(l))
  IN  IF elems = <<>> THEN Tail_(l)
      ELSE FoldLeft(LAMBDA m, e : IF less(e, m) THEN e ELSE m, elems[1], Tail(elems))

-----------------------------------------------------------------------------
(* The actions: an operation on the links, and what it is to do to the       *)
(* sequences.                                                                *)

Node(l, i) == (val[l] \o <<Tail_(l)>>)[i]
Unlinked(e) == \A l \in Lists : e \notin ToSet(val[l])
StableSort(s) ==
  LET order == SetToSortSeq(DOMAIN s, LAMBDA i, j : less(s[i], s[j])
                                        \/ (~less(s[j], s[i]) /\ i < j))
  IN  [i \in DOMAIN s |-> s[order[i]]]
Sorted(s) == s = StableSort(s)
First(s, i) == i = 1 \/ less(s[i - 1], s[i]) \/ less(s[i], s[i - 1])
Keep(s, Test(_)) == [n \in 1 .. Len(SelectSeq([i \in DOMAIN s |-> i], Test)) |->
                       s[SelectSeq([i \in DOMAIN s |-> i], Test)[n]]]

Insert(l) == \E e \in Elems, i \in 1 .. Len(val[l]) + 1 :
  /\ Unlinked(e)
  /\ link' = list_insert(link, Node(l, i), e)
  /\ val' = [val EXCEPT ![l] = InsertAt(@, i, e)]

InsertOrdered(l) == \E e \in Elems :
  /\ Unlinked(e) /\ Sorted(val[l])
  /\ link' = list_insert_ordered(link, l, e)
  /\ val' = [val EXCEPT ![l] = StableSort(Append(@, e))]

Delete(l) == \E i \in DOMAIN val[l] :
  /\ link' = list_remove(link, val[l][i])
  /\ val' = [val EXCEPT ![l] = RemoveAt(@, i)]

\* Elements i up to j of list l go before element k of list m, which is not
\* one of them.
Splice(l, m) == \E i, j \in 1 .. Len(val[l]) + 1, k \in 1 .. Len(val[m]) + 1 :
  LET moved == SubSeq(val[l], i, j - 1)
      rest == [val EXCEPT ![l] = SubSeq(@, 1, i - 1) \o SubSeq(@, j, Len(@))]
      at == IF l = m /\ k >= j THEN k - (j - i) ELSE k
  IN  /\ i <= j /\ (l # m \/ k \notin i .. j - 1)
      /\ link' = list_splice(link, Node(m, k), Node(l, i), Node(l, j))
      /\ val' = [rest EXCEPT ![m] = SubSeq(@, 1, at - 1) \o moved \o SubSeq(@, at, Len(@))]

ReverseList(l) ==
  /\ link' = list_reverse(link, l)
  /\ val' = [val EXCEPT ![l] = Reverse(@)]

Sort(l) ==
  /\ link' = list_sort(link, l)
  /\ val' = [val EXCEPT ![l] = StableSort(@)]

DropEqual(l, dup) ==
  /\ l # dup
  /\ link' = list_unique(link, l, dup)
  /\ LET s == val[l]
     IN  val' = [val EXCEPT ![l] = Keep(s, LAMBDA i : First(s, i)),
                            ![dup] = @ \o Keep(s, LAMBDA i : ~First(s, i))]

Next == \E l, m \in Lists :
  \/ Insert(l) \/ InsertOrdered(l) \/ Delete(l) \/ Splice(l, m)
  \/ ReverseList(l) \/ Sort(l) \/ DropEqual(l, m)

Spec == Init /\ [][Next]_vars

-----------------------------------------------------------------------------
\* Forwards and backwards, every list is the sequence that the calls so far
\* were to make: sorting is stable, a splice within a list or between lists
\* moves exactly its range, the duplicates that list_unique removes keep their
\* order.  list_max and list_min are the first of their value.
ListIsSequence ==
  \A l \in Lists :
    LET s == val[l]
        Best(e, Better(_, _)) == \E i \in DOMAIN s :
          /\ e = s[i]
          /\ \A j \in DOMAIN s : ~Better(s[j], e) /\ (j < i => Better(e, s[j]))
    IN  /\ Walk(link.next, list_begin(link, l), Tail_(l)) = s
        /\ Walk(link.prev, link.prev[Tail_(l)], Head_(l)) = Reverse(s)
        /\ list_size(link, l) = Len(s)
        /\ IF s = <<>> THEN list_max(link, l) = Tail_(l) /\ list_min(link, l) = Tail_(l)
           ELSE /\ Best(list_max(link, l), LAMBDA a, b : less(b, a))
                /\ Best(list_min(link, l), LAMBDA a, b : less(a, b))
=============================================================================
