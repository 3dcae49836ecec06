--------------------------- MODULE SequenceLemmas ---------------------------
(***************************************************************************)
(* Facts about sequences that the proofs of several modules use.           *)
(***************************************************************************)
EXTENDS Removal, Functions, TLAPS

\* The empty sequence, and the length of the others.
LEMMA EmptySequence ==
    ASSUME NEW S
    PROVE  /\ <<>> \in Seq(S)
           /\ Len(<<>>) = 0
           /\ \A q \in Seq(S) : q # <<>> => Len(q) \in Nat \ {0}
  OBVIOUS

\* A sequence is a function on the positions 1 to its length.
LEMMA SequenceFunction ==
    ASSUME NEW S, NEW q \in Seq(S)
    PROVE  /\ Len(q) \in Nat
           /\ q \in [1..Len(q) -> S]
           /\ DOMAIN q = 1..Len(q)
           /\ \A j \in 1..Len(q) : q[j] \in S
  OBVIOUS

LEMMA HeadTail ==
    ASSUME NEW S, NEW q \in Seq(S), q # <<>>
    PROVE  /\ Head(q) \in S
           /\ Tail(q) \in Seq(S)
           /\ Len(Tail(q)) = Len(q) - 1
           /\ \A j \in 1..Len(Tail(q)) : Tail(q)[j] = q[j + 1]
  OBVIOUS

LEMMA AppendElement ==
    ASSUME NEW S, NEW q \in Seq(S), NEW e \in S
    PROVE  /\ Append(q, e) \in Seq(S)
           /\ Append(q, e) # <<>>
           /\ Len(Append(q, e)) = Len(q) + 1
           /\ \A j \in 1..Len(q) : Append(q, e)[j] = q[j]
           /\ Append(q, e)[Len(q) + 1] = e
<1>1. /\ Append(q, e) \in Seq(S)
      /\ Len(Append(q, e)) = Len(q) + 1
      /\ \A j \in 1..Len(q) : Append(q, e)[j] = q[j]
      /\ Append(q, e)[Len(q) + 1] = e
  OBVIOUS
<1>2. Len(q) \in Nat /\ Len(q) + 1 # 0
  OBVIOUS
<1> QED
  BY <1>1, <1>2, EmptySequence

LEMMA Concatenation ==
    ASSUME NEW S, NEW q \in Seq(S), NEW r \in Seq(S)
    PROVE  /\ q \o r \in Seq(S)
           /\ Len(q \o r) = Len(q) + Len(r)
           /\ \A j \in 1..Len(q) + Len(r) :
                (q \o r)[j] = IF j <= Len(q) THEN q[j] ELSE r[j - Len(q)]
<1>1. q \o r \in Seq(S) /\ Len(q \o r) = Len(q) + Len(r)
  OBVIOUS
<1>2. ASSUME NEW j \in 1..Len(q) + Len(r)
      PROVE  (q \o r)[j] = IF j <= Len(q) THEN q[j] ELSE r[j - Len(q)]
  OBVIOUS
<1> QED
  BY <1>1, <1>2

\* Removing an element leaves a sequence over the same set.
LEMMA WithoutType ==
    ASSUME NEW S, NEW q \in Seq(S), NEW i \in 1..Len(q)
    PROVE  /\ Without(q, i) \in Seq(S)
           /\ Len(Without(q, i)) = Len(q) - 1
           /\ \A j \in 1..Len(q) - 1 :
                Without(q, i)[j] = IF j < i THEN q[j] ELSE q[j + 1]
<1> DEFINE a == SubSeq(q, 1, i - 1)
           b == SubSeq(q, i + 1, Len(q))
<1>1. Len(q) \in Nat /\ i \in Nat /\ 1 <= i /\ i <= Len(q) /\ i - 1 \in Int /\ i + 1 \in Int
  BY SequenceFunction
<1>2. \A j \in 1..Len(q) : q[j] \in S
  BY SequenceFunction
<1>3. a \in Seq(S) /\ Len(a) = i - 1 /\ \A j \in 1..(i - 1) : a[j] = q[j]
  <2>1. \A j \in 1..(i - 1) : q[j] \in S
    BY <1>1, <1>2
  <2> QED
    BY <1>1, <2>1
<1>4. b \in Seq(S) /\ Len(b) = Len(q) - i /\ \A j \in 1..(Len(q) - i) : b[j] = q[j + i]
  <2>1. \A j \in (i + 1)..Len(q) : q[j] \in S
    BY <1>1, <1>2
  <2>2. Len(q) \in Int /\ 1 \in Int
    BY <1>1
  <2>3. /\ b \in Seq(S)
        /\ Len(b) = IF i + 1 <= Len(q) THEN Len(q) - (i + 1) + 1 ELSE 0
        /\ \A j \in 1..(Len(q) - (i + 1) + 1) : b[j] = q[(i + 1) + j - 1]
    BY <1>1, <2>1, <2>2, SMTT(30)
  <2> QED
    BY <1>1, <2>3
<1> HIDE DEF a, b
<1>5. /\ a \o b \in Seq(S)
      /\ Len(a \o b) = Len(a) + Len(b)
      /\ \A j \in 1..Len(a) + Len(b) :
            (a \o b)[j] = IF j <= Len(a) THEN a[j] ELSE b[j - Len(a)]
  BY <1>3, <1>4, Concatenation
<1>6. ASSUME NEW j \in 1..Len(q) - 1
      PROVE  (a \o b)[j] = IF j < i THEN q[j] ELSE q[j + 1]
  <2>1. CASE j < i
    BY <1>1, <1>3, <1>4, <1>5, <2>1
  <2>2. CASE j >= i
    <3>1. j - Len(a) \in 1..(Len(q) - i) /\ (j - Len(a)) + i = j + 1 /\ ~(j <= Len(a))
      BY <1>1, <1>3, <2>2
    <3>2. j \in 1..Len(a) + Len(b) /\ ~(j < i)
      BY <1>1, <1>3, <1>4, <2>2
    <3>3. (a \o b)[j] = b[j - Len(a)]
      BY <1>5, <3>1, <3>2
    <3>4. b[j - Len(a)] = q[(j - Len(a)) + i]
      BY <1>4, <3>1
    <3> QED
      BY <3>1, <3>2, <3>3, <3>4
  <2>3. j < i \/ j >= i
    BY <1>1
  <2> QED
    BY <2>1, <2>2, <2>3, Zenon
<1>7. Len(a \o b) = Len(q) - 1
  BY <1>1, <1>3, <1>4, <1>5
<1>8. Without(q, i) = a \o b
  BY DEF Without, a, b
<1> QED
  BY <1>5, <1>6, <1>7, <1>8

\* The elements of a sequence are those at the positions 1 to its length.
LEMMA RangeOfSequence ==
    ASSUME NEW S, NEW q \in Seq(S)
    PROVE  /\ Len(q) \in Nat
           /\ DOMAIN q = 1..Len(q)
           /\ Range(q) \subseteq S
           /\ \A x : x \in Range(q) <=> \E j \in 1..Len(q) : q[j] = x
<1>1. Len(q) \in Nat /\ DOMAIN q = 1..Len(q) /\ \A j \in 1..Len(q) : q[j] \in S
  BY SequenceFunction
<1> QED
  BY <1>1 DEF Range

\* Appending adds one element, and keeps the elements distinct when it is new.
LEMMA AppendRange ==
    ASSUME NEW S, NEW q \in Seq(S), NEW e \in S
    PROVE  /\ Range(Append(q, e)) = Range(q) \cup {e}
           /\ IsInjective(q) /\ e \notin Range(q) => IsInjective(Append(q, e))
<1> DEFINE r == Append(q, e)
<1>1. /\ r \in Seq(S)
      /\ Len(r) = Len(q) + 1
      /\ \A j \in 1..Len(q) : r[j] = q[j]
      /\ r[Len(q) + 1] = e
  BY AppendElement
<1> HIDE DEF r
<1>2. /\ Len(q) \in Nat
      /\ DOMAIN q = 1..Len(q)
      /\ DOMAIN r = 1..Len(r)
      /\ \A x : x \in Range(q) <=> \E j \in 1..Len(q) : q[j] = x
      /\ \A x : x \in Range(r) <=> \E j \in 1..Len(r) : r[j] = x
  BY <1>1, RangeOfSequence
<1>3. \A x : x \in Range(r) <=> x \in Range(q) \/ x = e
  <2>1. ASSUME NEW x, x \in Range(r)
        PROVE  x \in Range(q) \/ x = e
    <3>1. PICK j \in 1..Len(r) : r[j] = x
      BY <1>2, <2>1
    <3> QED
      BY <1>1, <1>2, <3>1
  <2>2. ASSUME NEW x, x \in Range(q)
        PROVE  x \in Range(r)
    <3>1. PICK j \in 1..Len(q) : q[j] = x
      BY <1>2, <2>2
    <3> QED
      BY <1>1, <1>2, <3>1
  <2>3. e \in Range(r)
    BY <1>1, <1>2
  <2> QED
    BY <2>1, <2>2, <2>3
<1>4. ASSUME IsInjective(q), e \notin Range(q)
      PROVE  IsInjective(r)
  <2>1. ASSUME NEW a \in 1..Len(r), NEW b \in 1..Len(r), r[a] = r[b]
        PROVE  a = b
    <3>1. a \in 1..Len(q) \/ a = Len(q) + 1
      BY <1>1, <1>2
    <3>2. b \in 1..Len(q) \/ b = Len(q) + 1
      BY <1>1, <1>2
    <3> QED
      BY <1>1, <1>2, <1>4, <2>1, <3>1, <3>2 DEF IsInjective
  <2> QED
    BY <1>2, <2>1 DEF IsInjective
<1> QED
  BY <1>3, <1>4 DEF r

\* The tail of a sequence of distinct elements has all of them but the head.
LEMMA TailRange ==
    ASSUME NEW S, NEW q \in Seq(S), q # <<>>, IsInjective(q)
    PROVE  /\ Head(q) \in Range(q)
           /\ Range(Tail(q)) = Range(q) \ {Head(q)}
           /\ IsInjective(Tail(q))
<1> DEFINE r == Tail(q)
<1>1. /\ Len(q) \in Nat \ {0}
      /\ Head(q) = q[1]
      /\ r \in Seq(S)
      /\ Len(r) = Len(q) - 1
      /\ \A j \in 1..Len(r) : r[j] = q[j + 1]
  BY HeadTail, EmptySequence
<1> HIDE DEF r
<1>2. /\ DOMAIN q = 1..Len(q)
      /\ DOMAIN r = 1..Len(r)
      /\ \A x : x \in Range(q) <=> \E j \in 1..Len(q) : q[j] = x
      /\ \A x : x \in Range(r) <=> \E j \in 1..Len(r) : r[j] = x
  BY <1>1, RangeOfSequence
<1>3. ASSUME NEW x
      PROVE  x \in Range(r) <=> x \in Range(q) /\ x # q[1]
  <2>1. ASSUME x \in Range(r)
        PROVE  x \in Range(q) /\ x # q[1]
    <3>1. PICK j \in 1..Len(r) : r[j] = x
      BY <1>2, <2>1
    <3>2. j + 1 \in 1..Len(q) /\ j + 1 # 1 /\ 1 \in 1..Len(q) /\ q[j + 1] = x
      BY <1>1, <3>1
    <3> QED
      BY <1>2, <3>2 DEF IsInjective
  <2>2. ASSUME x \in Range(q), x # q[1]
        PROVE  x \in Range(r)
    <3>1. PICK j \in 1..Len(q) : q[j] = x
      BY <1>2, <2>2
    <3>2. j - 1 \in 1..Len(r) /\ (j - 1) + 1 = j
      BY <1>1, <2>2, <3>1
    <3>3. r[j - 1] = x
      BY <1>1, <3>1, <3>2
    <3> QED
      BY <1>2, <3>2, <3>3
  <2> QED
    BY <2>1, <2>2
<1>4. IsInjective(r)
  <2>1. ASSUME NEW a \in 1..Len(r), NEW b \in 1..Len(r), r[a] = r[b]
        PROVE  a = b
    <3>1. a + 1 \in 1..Len(q) /\ b + 1 \in 1..Len(q) /\ q[a + 1] = q[b + 1]
      BY <1>1, <2>1
    <3>2. a + 1 = b + 1
      BY <1>2, <3>1 DEF IsInjective
    <3> QED
      BY <1>1, <3>2
  <2> QED
    BY <1>2, <2>1 DEF IsInjective
<1>5. q[1] \in Range(q)
  BY <1>1, <1>2
<1> QED
  BY <1>1, <1>3, <1>4, <1>5 DEF r

\* Removing the element at a position from a sequence of distinct elements removes
\* exactly that element.
LEMMA WithoutRange ==
    ASSUME NEW S, NEW q \in Seq(S), NEW i \in 1..Len(q), IsInjective(q)
    PROVE  /\ Without(q, i) \in Seq(S)
           /\ Range(Without(q, i)) = Range(q) \ {q[i]}
           /\ IsInjective(Without(q, i))
<1> DEFINE r == Without(q, i)
<1>1. /\ r \in Seq(S)
      /\ Len(r) = Len(q) - 1
      /\ \A j \in 1..Len(q) - 1 : r[j] = IF j < i THEN q[j] ELSE q[j + 1]
  BY WithoutType
<1> HIDE DEF r
<1>2. /\ Len(q) \in Nat
      /\ DOMAIN q = 1..Len(q)
      /\ DOMAIN r = 1..Len(r)
      /\ \A x : x \in Range(q) <=> \E j \in 1..Len(q) : q[j] = x
      /\ \A x : x \in Range(r) <=> \E j \in 1..Len(r) : r[j] = x
  BY <1>1, RangeOfSequence
\* Where the element at position j of r is in q.
<1> DEFINE old(j) == IF j < i THEN j ELSE j + 1
<1>3. \A j \in 1..Len(r) : old(j) \in 1..Len(q) /\ old(j) # i /\ r[j] = q[old(j)]
  BY <1>1, <1>2
<1>4. \A j, k \in 1..Len(r) : old(j) = old(k) => j = k
  BY <1>1, <1>2
<1>5. \A k \in 1..Len(q) : k # i => \E j \in 1..Len(r) : old(j) = k
  <2> SUFFICES ASSUME NEW k \in 1..Len(q), k # i
               PROVE  \E j \in 1..Len(r) : old(j) = k
    OBVIOUS
  <2>1. CASE k < i
    BY <1>1, <1>2, <2>1
  <2>2. CASE k > i
    <3>1. k - 1 \in 1..Len(r) /\ old(k - 1) = k
      BY <1>1, <1>2, <2>2
    <3> QED
      BY <3>1
  <2> QED
    BY <1>2, <2>1, <2>2
<1> HIDE DEF old
<1>6. ASSUME NEW x
      PROVE  x \in Range(r) <=> x \in Range(q) /\ x # q[i]
  BY <1>2, <1>3, <1>5 DEF IsInjective
<1>7. IsInjective(r)
  BY <1>2, <1>3, <1>4 DEF IsInjective
<1> QED
  BY <1>1, <1>6, <1>7 DEF r

=============================================================================
