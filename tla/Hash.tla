------------------------------- MODULE Hash -------------------------------
(* lib/kernel/hash.c: a hash table with chaining whose number of buckets      *)
(* follows the number of elements, as far as memory allows.  Buckets are      *)
(* lists (module List), here sequences of elements; `elems` is the history    *)
(* that says which elements the table should hold.                            *)
EXTENDS Integers, Sequences, SequencesExt

CONSTANTS
  Items,           \* hash elements
  KeyOf,           \* element -> what `less` compares
  HashOf,          \* element -> what `hash` returns
  MinBuckets,      \* 4 in the code
  BEST_ELEMS_PER_BUCKET,
  NULL

VARIABLES h, elems
vars == <<h, elems>>

\* h: [elem_cnt, buckets]; bucket_cnt is the length of buckets.
hash_init == [elem_cnt |-> 0, buckets |-> [i \in 1 .. MinBuckets |-> <<>>]]

Init == h = hash_init /\ elems = {}

Equal(a, b) == ~(KeyOf[a] < KeyOf[b]) /\ ~(KeyOf[b] < KeyOf[a])

\* The hash masked with bucket_cnt - 1, a power of two less one.
find_bucket(buckets, e) == (HashOf[e] % Len(buckets)) + 1

find_elem(t, e) ==
  LET bucket == t.buckets[find_bucket(t.buckets, e)]
      i == SelectInSeq(bucket, LAMBDA x : Equal(x, e))
  IN  IF i = 0 THEN NULL ELSE bucket[i]

insert_elem(t, e) ==
  [elem_cnt |-> t.elem_cnt + 1,
   buckets |-> [t.buckets EXCEPT ![find_bucket(t.buckets, e)] = <<e>> \o @]]

remove_elem(t, e) ==
  [elem_cnt |-> t.elem_cnt - 1,
   buckets |-> [t.buckets EXCEPT ![find_bucket(t.buckets, e)] =
                  SelectSeq(@, LAMBDA x : x # e)]]

\* The largest power of two that is not above x: the lowest one bits of x are
\* turned off until one is left.
PowerBelow(x) == LET P == {2 ^ k : k \in 0 .. x} IN CHOOSE p \in P : p <= x /\ 2 * p > x

BucketsFor(cnt) ==
  LET n == cnt \div BEST_ELEMS_PER_BUCKET
  IN  PowerBelow(IF n < MinBuckets THEN MinBuckets ELSE n)

\* The elements move, one by one, to the front of their bucket in a new array.
Moved(t, cnt) ==
  [t EXCEPT !.buckets =
     FoldLeft(LAMBDA b, e : [b EXCEPT ![find_bucket(b, e)] = <<e>> \o @],
              [i \in 1 .. cnt |-> <<>>], FlattenSeq(t.buckets))]

\* What rehash may make of t: nothing, if the number of buckets is right or
\* there is no memory for other ones.
rehash(t) ==
  LET cnt == BucketsFor(t.elem_cnt)
  IN  IF cnt = Len(t.buckets) THEN {t} ELSE {t, Moved(t, cnt)}

-----------------------------------------------------------------------------
hash_insert(e) ==
  LET old == find_elem(h, e)
      t == IF old = NULL THEN insert_elem(h, e) ELSE h
  IN  /\ e \notin elems
      /\ h' \in rehash(t)
      /\ elems' = IF \E x \in elems : Equal(x, e) THEN elems ELSE elems \cup {e}

hash_replace(e) ==
  LET old == find_elem(h, e)
      t == IF old = NULL THEN h ELSE remove_elem(h, old)
  IN  /\ e \notin elems
      /\ h' \in rehash(insert_elem(t, e))
      /\ elems' = {x \in elems : ~Equal(x, e)} \cup {e}

hash_delete(e) ==
  LET found == find_elem(h, e)
  IN  /\ h' \in IF found = NULL THEN {h} ELSE rehash(remove_elem(h, found))
      /\ elems' = {x \in elems : ~Equal(x, e)}

hash_clear ==
  /\ h' = [elem_cnt |-> 0, buckets |-> [i \in DOMAIN h.buckets |-> <<>>]]
  /\ elems' = {}

Next == (\E e \in Items : hash_insert(e) \/ hash_replace(e) \/ hash_delete(e)) \/ hash_clear

Spec == Init /\ [][Next]_vars

-----------------------------------------------------------------------------
\* The elements in the order of an iteration: hash_first starts before the
\* first bucket, hash_next skips the buckets that are empty.
RECURSIVE Iterate(_, _, _)
Iterate(t, bucket, i) ==
  IF i < Len(t.buckets[bucket]) THEN <<t.buckets[bucket][i + 1]>> \o Iterate(t, bucket, i + 1)
  ELSE IF bucket < Len(t.buckets) THEN Iterate(t, bucket + 1, 0)
  ELSE <<>>

\* Whatever the order of calls and of failed allocations, the table holds the
\* elements it should, each is found, an iteration meets each once, and
\* elem_cnt, from which the next number of buckets follows, counts them.  A
\* rehash that has moved only some elements, or hashed them with the old
\* number of buckets, would lose them.
HashIsSet ==
  LET all == Iterate(h, 1, 0)
  IN  /\ ToSet(all) = elems /\ Len(all) = h.elem_cnt
      /\ \A e \in Items :
           IF \E x \in elems : Equal(x, e)
           THEN find_elem(h, e) = (CHOOSE x \in elems : Equal(x, e))
           ELSE find_elem(h, e) = NULL
=============================================================================
