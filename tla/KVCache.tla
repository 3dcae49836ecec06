------------------------------ MODULE KVCache ------------------------------
(* The set-associative, second-chance cache of master and slaves.  Callers    *)
(* hold the lock of the key's set, so that every call is one step.            *)
EXTENDS Integers, Sequences, SequencesExt

CONSTANTS KVKeys, KVValues, hashCode,   \* key -> its 32-bit hash
          MIN_VALUE,                    \* the least int, its own Math.abs
          numSets, maxElemsPerSet, NULL

VARIABLES sets,     \* set -> entries [key, value, isReferenced], oldest first
          latest    \* history: the value last put for each key, NULL after del
vars == <<sets, latest>>

Init == sets = [i \in 0 .. numSets - 1 |-> <<>>] /\ latest = [k \in KVKeys |-> NULL]

\* Java's remainder has the sign of the dividend; a negative index is out of bounds.
SetOf(key) ==
  LET h == hashCode[key]
  IN  IF h = MIN_VALUE THEN -((-h) % numSets) ELSE (IF h < 0 THEN -h ELSE h) % numSets
OutOfBounds(key) == SetOf(key) \notin DOMAIN sets

Entry(key, value, ref) == [key |-> key, value |-> value, isReferenced |-> ref]
Find(set, key) == SelectInSeq(set, LAMBDA e : e.key = key)

\* A hit is referenced and goes to the end of its set.
Touched(set, key) ==
  LET i == Find(set, key)
  IN  IF i = 0 THEN set
      ELSE Append(RemoveAt(set, i), [set[i] EXCEPT !.isReferenced = TRUE])

\* The first entry is taken off the set; one with a reference loses it and goes
\* to the end, and the next one is tried, for n entries at most.
SecondChance(set, n) ==
  FoldLeft(LAMBDA r, i :
             IF r.found THEN r
             ELSE IF Head(r.set).isReferenced
                  THEN [r EXCEPT !.set = Append(Tail(r.set), [Head(r.set) EXCEPT !.isReferenced = FALSE])]
                  ELSE [set |-> Tail(r.set), found |-> TRUE],
           [set |-> set, found |-> FALSE], [i \in 1 .. n |-> i]).set

Evicted(set) == SecondChance(set, maxElemsPerSet + 1)

Stored(set, key, value) ==
  LET i == Find(set, key)
  IN  IF i # 0 THEN [set EXCEPT ![i] = Entry(key, value, TRUE)]
      ELSE Append(IF Len(set) = maxElemsPerSet THEN Evicted(set) ELSE set, Entry(key, value, TRUE))

get(key) ==
  /\ ~OutOfBounds(key)
  /\ sets' = [sets EXCEPT ![SetOf(key)] = Touched(@, key)]
  /\ UNCHANGED latest
put(key, value) ==
  /\ ~OutOfBounds(key)
  /\ sets' = [sets EXCEPT ![SetOf(key)] = Stored(@, key, value)]
  /\ latest' = [latest EXCEPT ![key] = value]
del(key) ==
  /\ ~OutOfBounds(key)
  /\ sets' = [sets EXCEPT ![SetOf(key)] = SelectSeq(@, LAMBDA e : e.key # key)]
  /\ latest' = [latest EXCEPT ![key] = NULL]
\* ArrayIndexOutOfBoundsException.
Throw(key) == OutOfBounds(key) /\ UNCHANGED vars

Next == \E key \in KVKeys : \/ get(key) \/ del(key) \/ Throw(key)
                            \/ \E value \in KVValues : put(key, value)
Spec == Init /\ [][Next]_vars

-----------------------------------------------------------------------------

\* A set never outgrows its size or holds a key twice, a key that is found has
\* the value last put for it, and a put into a full set drops just one entry:
\* the oldest one without a reference, or the oldest when all have one.
CacheIsMap ==
  \A i \in DOMAIN sets :
    LET set == sets[i]
        free == SelectInSeq(set, LAMBDA e : ~e.isReferenced)
        victim == IF free = 0 THEN 1 ELSE free
    IN  /\ Len(set) <= maxElemsPerSet
        /\ \A j, n \in DOMAIN set : set[j].key = set[n].key => j = n
        /\ \A j \in DOMAIN set : SetOf(set[j].key) = i /\ set[j].value = latest[set[j].key]
        /\ Len(set) = maxElemsPerSet =>
             /\ Len(Evicted(set)) = maxElemsPerSet - 1
             /\ \A j \in DOMAIN set : j # victim <=> Find(Evicted(set), set[j].key) # 0
=============================================================================
