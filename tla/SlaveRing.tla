----------------------------- MODULE SlaveRing -----------------------------
(* The master's ring of slaves: registration (one thread, the pool of         *)
(* TPCRegistrationHandler) and the lookups of handleTPCRequest and handleGet, *)
(* which read the list and the maps without a lock.                           *)
(* A node of the list is named by its slave's id; the info of a slave that    *)
(* registers again is a new object, a pair <<id, n>>, and the maps compare    *)
(* infos as objects.  Single map operations are atomic.                       *)
EXTENDS Integers, Sequences, FiniteSets, SequencesExt, Functions

CONSTANTS Ids,            \* the longs: of slaves and hashed keys
          numSlaves,
          MaxReregistrations,
          NULL

VARIABLES slaveList,      \* ids, without the head
          info,           \* node -> its info
          slaveIdMap,     \* id -> info
          slaveNodeMap,   \* info -> node
          registering,    \* [at, slave, old, node] of registerSlave
          lookup,         \* [at, caller, n, info, first, second] of a lookup
          overlapped,     \* history: the lookup met a re-registration
          reregistrations
vars == <<slaveList, info, slaveIdMap, slaveNodeMap, registering, lookup, overlapped, reregistrations>>
ring == <<slaveList, info, slaveIdMap, slaveNodeMap>>

With(f, x, v) == [y \in DOMAIN f \cup {x} |-> IF y = x THEN v ELSE f[y]]
Get(f, x) == IF x \in DOMAIN f THEN f[x] ELSE NULL
Empty == [x \in {} |-> x]
NotRegistering == [at |-> "idle", slave |-> NULL, old |-> NULL]

isLessThanUnsigned(n1, n2) == (n1 < n2) # ((n1 < 0) # (n2 < 0))

\* Mutant of isLessThanEqualUnsigned: a hash that is a slave's id goes past it.
isLessUnsigned(n1, n2) == isLessThanUnsigned(n1, n2)

isLessThanEqualUnsigned(n1, n2) == isLessThanUnsigned(n1, n2) \/ n1 = n2

\* The new node goes before the first that is not less, and nowhere if that is
\* the slave itself.
addSlave(list, id) ==
  LET i == SelectInSeq(list, LAMBDA x : ~isLessThanUnsigned(x, id))
  IN  IF i = 0 THEN Append(list, id)
      ELSE IF list[i] = id THEN list ELSE InsertAt(list, i, id)

\* The info of the first node at or after n, or of the front.
findSlaveAfterLong(n) ==
  LET i == SelectInSeq(slaveList, LAMBDA x : isLessThanEqualUnsigned(n, x))
  IN  info[slaveList[IF i = 0 THEN 1 ELSE i]]

\* The next node's info, the front's after the last; an info without a node is
\* looked for by its id.
findSuccessor(firstReplica) ==
  LET node == Get(slaveNodeMap, firstReplica)
      i == SelectInSeq(slaveList, LAMBDA x : x = node)
  IN  IF node = NULL THEN findSlaveAfterLong(firstReplica[1])
      ELSE info[slaveList[IF i = Len(slaveList) THEN 1 ELSE i + 1]]

Init ==
  /\ slaveList = <<>> /\ info = Empty /\ slaveIdMap = Empty /\ slaveNodeMap = Empty
  /\ registering = NotRegistering
  /\ lookup = [at |-> "idle", caller |-> NULL, n |-> 0, info |-> NULL, first |-> NULL, second |-> NULL]
  /\ overlapped = FALSE /\ reregistrations = 0

-----------------------------------------------------------------------------
(* registerSlave                                                             *)

\* A new slave.  Lookups wait for numRegistered = numSlaves, which comes last, so
\* no lookup sees the list change.  When the ring is full nothing happens.
RegisterNew(id) ==
  LET slave == <<id, 0>>
  IN  /\ registering.at = "idle" /\ id \notin DOMAIN slaveIdMap
      /\ IF Len(slaveList) >= numSlaves THEN UNCHANGED ring
         ELSE /\ slaveList' = addSlave(slaveList, id)
              /\ info' = With(info, id, slave)
              /\ slaveIdMap' = With(slaveIdMap, id, slave)
              /\ slaveNodeMap' = With(slaveNodeMap, slave, id)
      /\ UNCHANGED <<registering, lookup, overlapped, reregistrations>>

\* A slave comes back: node.setInfo, and then the maps, one step each.
Reregister(id) ==
  LET slave == <<id, reregistrations + 1>>
      old == slaveIdMap[id]
  IN  /\ registering.at = "idle" /\ reregistrations < MaxReregistrations
      /\ id \in DOMAIN slaveIdMap
      /\ info' = [info EXCEPT ![slaveNodeMap[old]] = slave]
      /\ registering' = [at |-> "idMap", slave |-> slave, old |-> old]
      /\ reregistrations' = reregistrations + 1
      /\ overlapped' = TRUE
      /\ UNCHANGED <<slaveList, slaveIdMap, slaveNodeMap, lookup>>
PutId ==
  /\ registering.at = "idMap"
  /\ slaveIdMap' = With(slaveIdMap, registering.slave[1], registering.slave)
  /\ registering' = [registering EXCEPT !.at = "remove"]
  /\ UNCHANGED <<slaveList, info, slaveNodeMap, lookup, overlapped, reregistrations>>
RemoveOld ==
  /\ registering.at = "remove"
  /\ slaveNodeMap' = Restrict(slaveNodeMap, DOMAIN slaveNodeMap \ {registering.old})
  /\ registering' = [registering EXCEPT !.at = "put"]
  /\ UNCHANGED <<slaveList, info, slaveIdMap, lookup, overlapped, reregistrations>>
PutNode ==
  /\ registering.at = "put"
  /\ slaveNodeMap' = With(slaveNodeMap, registering.slave, registering.slave[1])
  /\ registering' = NotRegistering
  /\ UNCHANGED <<slaveList, info, slaveIdMap, lookup, overlapped, reregistrations>>

-----------------------------------------------------------------------------
(* The lookups                                                               *)

To(at) == [lookup EXCEPT !.at = at]
Looks == UNCHANGED <<ring, registering, overlapped, reregistrations>>

\* Once all slaves have registered: findFirstReplica for a key that hashes to n.
findFirstReplica(caller, n) ==
  /\ lookup.at \in {"idle", "done", "failed"}
  /\ Len(slaveList) = numSlaves
  /\ lookup' = [at |-> "first", caller |-> caller, n |-> n, info |-> findSlaveAfterLong(n),
                first |-> NULL, second |-> NULL]
  /\ overlapped' = (registering.at # "idle")
  /\ UNCHANGED <<ring, registering, reregistrations>>

\* handleTPCRequest takes the info's node, whose getInfo throws when there is
\* none, and then the node of its successor.
FirstNode ==
  LET node == Get(slaveNodeMap, lookup.info)
  IN  /\ lookup.at = "first" /\ lookup.caller = "tpc"
      /\ lookup' = IF node = NULL THEN To("failed")
                   ELSE [To("successor") EXCEPT !.first = node]
      /\ Looks
FirstInfo ==
  /\ lookup.at = "successor"
  /\ lookup' = [To("find") EXCEPT !.info = info[lookup.first]]
  /\ Looks
SecondInfo ==
  /\ lookup.at = "find"
  /\ lookup' = [To("second") EXCEPT !.info = findSuccessor(lookup.info)]
  /\ Looks
SecondNode ==
  /\ lookup.at = "second"
  /\ lookup' = [To("done") EXCEPT !.second = Get(slaveNodeMap, lookup.info)]
  /\ Looks

\* handleGet asks the slave of the info, and later the one of its successor.
GetSuccessor ==
  /\ lookup.at = "first" /\ lookup.caller = "get"
  /\ lookup' = [To("done") EXCEPT !.first = lookup.info[1], !.second = findSuccessor(lookup.info)[1]]
  /\ Looks

Next == \/ \E id \in Ids : RegisterNew(id) \/ Reregister(id)
        \/ PutId \/ RemoveOld \/ PutNode
        \/ \E caller \in {"tpc", "get"}, n \in Ids : findFirstReplica(caller, n)
        \/ FirstNode \/ FirstInfo \/ SecondInfo \/ SecondNode \/ GetSuccessor
Spec == Init /\ [][Next]_vars

-----------------------------------------------------------------------------
(* The replicas of a key                                                     *)

\* How far id is from n, going up around the ring of all longs.
Ahead(n, id) == (id - n) % Cardinality(Ids)
Nearest(n, S) == CHOOSE id \in S : \A x \in S : Ahead(n, id) <= Ahead(n, x)
Primary(n) == Nearest(n, Range(slaveList))
Secondary(n) == Nearest(Primary(n) + 1, Range(slaveList))

\* The ring holds every registered slave once, at most numSlaves; a lookup finds
\* the slaves that come first and second, counting up from the key's hash, and
\* around after the highest unsigned id.  A lookup during a re-registration may
\* miss: it throws, or takes the primary or nobody for the second replica.
RingServes ==
  /\ Len(slaveList) = Cardinality(DOMAIN slaveIdMap) /\ Len(slaveList) <= numSlaves
  /\ Range(slaveList) = DOMAIN slaveIdMap
  /\ registering.at = "idle" =>
       slaveIdMap = info /\ slaveNodeMap = [i \in Range(info) |-> i[1]]
  /\ lookup.at = "failed" => overlapped
  /\ lookup.at = "done" =>
       /\ lookup.first = Primary(lookup.n)
       /\ \/ lookup.second = Secondary(lookup.n)
          \/ overlapped /\ lookup.second \in {Primary(lookup.n), NULL}
=============================================================================
