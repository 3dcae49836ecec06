------------------------------ MODULE Removal ------------------------------
(* Removal of an element of a sequence, in a module of its own so that the *)
(* proofs about it have few definitions in sight.                          *)
EXTENDS Integers, Sequences

\* Sequence q without its i-th element.
Without(q, i) == SubSeq(q, 1, i - 1) \o SubSeq(q, i + 1, Len(q))
=============================================================================
