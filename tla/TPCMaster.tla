----------------------------- MODULE TPCMaster -----------------------------
(***************************************************************************)
(* The master with its slaves.  handleTPCRequest is synchronized, so one   *)
(* thread, Coord, stands for whichever client thread is in it; each thread *)
(* of Reader runs handleGet.  All slaves have registered (both handlers    *)
(* wait for that), and Replicas gives findFirstReplica(key) and its        *)
(* findSuccessor, which no longer change.                                  *)
(*                                                                         *)
(* The lock of a cache set is held by a reader from its cache miss until   *)
(* it returns, so the lock is not a variable of its own.                   *)
(***************************************************************************)
EXTENDS TPCMasterHandler

CONSTANTS
    Coord,      \* the thread in handleTPCRequest
    Reader,     \* threads in handleGet
    Replicas,   \* the two slaves that hold each key
    CacheSet,   \* the set of the master's KVCache that each key falls in
    MaxTxns     \* bound on the number of TPC requests

ASSUME MasterAssumption ==
    /\ Coord \notin Reader
    /\ Caller = Reader \cup {Coord}
    /\ Replicas \in [Key -> [1..2 -> Slave]]
    /\ DOMAIN CacheSet = Key
    /\ MaxTxns \in Nat

VARIABLES
    phase,          \* where handleTPCRequest is
    rqst,           \* its argument msg
    turn,           \* index into slaves of the loop's currNode
    globalAbort,
    invalidFormat,
    txns,           \* number of TPC requests so far
    masterCache,
    getting,        \* where each reader is in handleGet
    getKey,         \* the key it looks for
    returned,       \* the value its last handleGet returned, None for ERROR_NO_SUCH_KEY
    db,             \* history: the effect of the committed requests that returned
    permitted       \* history: what a reader's current or last handleGet may return

masterVars == <<phase, rqst, turn, globalAbort, invalidFormat, txns>>
getVars == <<getting, getKey, returned>>
vars == <<slaveVars, masterVars, masterCache, getVars, db, permitted>>

-----------------------------------------------------------------------------

\* Requests that pass isValidTPCRequest.
TPCRequest ==
    [type : {"putreq"}, key : Key, val : Value]
        \cup [type : {"delreq"}, key : Key, val : {None}]

Commit == [type |-> "commit", key |-> None, val |-> None]
Abort == [type |-> "abort", key |-> None, val |-> None]
GetReq(k) == [type |-> "getreq", key |-> k, val |-> None]

\* slaves[turn - 1] of the current request.
CurrSlave == Replicas[rqst.key][turn]

\* Phase 1 ended with two READY votes for the current request.
Committing == phase \in {"phase2", "flush"} /\ ~globalAbort

Init ==
    /\ SlaveInit
    /\ phase = "idle"
    /\ rqst = None
    /\ turn = 1
    /\ globalAbort = FALSE
    /\ invalidFormat = FALSE
    /\ txns = 0
    /\ masterCache = [k \in Key |-> None]
    /\ getting = [r \in Reader |-> "idle"]
    /\ getKey = [r \in Reader |-> None]
    /\ returned = [r \in Reader |-> None]
    /\ db = [k \in Key |-> None]
    /\ permitted = [r \in Reader |-> {None}]

\* A reader that looks for the key of the request that commits now may return
\* either value from here on.
PermitNewValue ==
    permitted' = [r \in Reader |->
                     IF getting[r] # "idle" /\ getKey[r] = rqst.key
                     THEN permitted[r] \cup {rqst.val} ELSE permitted[r]]

-----------------------------------------------------------------------------
(* handleTPCRequest.                                                       *)

Request(m) ==
    /\ phase = "idle"
    /\ txns < MaxTxns
    /\ txns' = txns + 1
    /\ phase' = "phase1"
    /\ rqst' = m
    /\ turn' = 1
    /\ globalAbort' = FALSE
    /\ invalidFormat' = FALSE
    /\ UNCHANGED <<slaveVars, masterCache, getVars, db, permitted>>

\* Mutant of NextVote: phase 2 goes on from where phase 1 stopped.
NextVoteNoReset(abort) ==
    /\ globalAbort' = (globalAbort \/ abort)
    /\ turn' = turn + 1
    /\ phase' = IF turn = 1 THEN "phase1" ELSE "phase2"
    /\ UNCHANGED <<rqst, invalidFormat, txns, masterCache, getVars, db, permitted>>

\* End of an iteration of phase 1: the next slave, or phase 2.
NextVote(abort) ==
    /\ globalAbort' = (globalAbort \/ abort)
    /\ turn' = IF turn = 1 THEN 2 ELSE 1
    /\ phase' = IF turn = 1 THEN "phase1" ELSE "phase2"
    /\ IF turn = 2 /\ ~globalAbort' THEN PermitNewValue ELSE UNCHANGED permitted
    /\ UNCHANGED <<rqst, invalidFormat, txns, masterCache, getVars, db>>

Phase1Send ==
    /\ phase = "phase1"
    /\ Send(Coord, CurrSlave, rqst)
    /\ UNCHANGED <<step, log, store, client, exec, resp, pos, faults, hist,
                   masterVars, masterCache, getVars, db, permitted>>

Phase1Connect ==
    /\ phase = "phase1"
    /\ CannotConnect(Coord, CurrSlave)
    /\ NextVote(TRUE)
    /\ UNCHANGED <<step, log, store, queue, client, exec, resp, pos, conn, hist>>

\* Mutant of Phase1Timeout: a vote that does not come is not a vote to abort.
Phase1TimeoutIgnored ==
    /\ phase = "phase1"
    /\ Timeout(Coord)
    /\ NextVote(FALSE)
    /\ UNCHANGED <<step, log, store, exec, resp, pos, hist>>

Phase1Timeout ==
    /\ phase = "phase1"
    /\ Timeout(Coord)
    /\ NextVote(TRUE)
    /\ UNCHANGED <<step, log, store, exec, resp, pos, hist>>

Phase1Receive ==
    /\ phase = "phase1"
    /\ Receive(Coord)
    /\ NextVote(conn[Coord].type # "ready")
    /\ UNCHANGED <<step, log, store, queue, client, exec, resp, pos, faults, hist>>

\* The while loop of phase 2.  A failed connection only makes it sleep and try
\* again, so that path changes nothing.
Phase2Send ==
    /\ phase = "phase2"
    /\ Send(Coord, CurrSlave, IF globalAbort THEN Abort ELSE Commit)
    /\ UNCHANGED <<step, log, store, client, exec, resp, pos, faults, hist,
                   masterVars, masterCache, getVars, db, permitted>>

\* The request has returned or thrown; its outcome is history.
Done ==
    /\ phase' = "idle"
    /\ db' = IF globalAbort THEN db ELSE [db EXCEPT ![rqst.key] = rqst.val]

\* Mutant of Phase2Timeout: no answer ends the loop like an answer.
Phase2TimeoutGivesUp ==
    /\ phase = "phase2"
    /\ Timeout(Coord)
    /\ turn' = IF turn = 1 THEN 2 ELSE 1
    /\ IF turn = 1 THEN UNCHANGED <<phase, db>> ELSE Done
    /\ UNCHANGED <<step, log, store, exec, resp, pos, hist, rqst, globalAbort,
                   invalidFormat, txns, masterCache, getVars, permitted>>

Phase2Timeout ==
    /\ phase = "phase2"
    /\ Timeout(Coord)
    /\ UNCHANGED <<step, log, store, exec, resp, pos, hist,
                   masterVars, masterCache, getVars, db, permitted>>

\* Any response ends the while loop; one that is not ACK is remembered.
Phase2Receive ==
    /\ phase = "phase2"
    /\ Receive(Coord)
    /\ invalidFormat' = (invalidFormat \/ conn[Coord].type # "ack")
    /\ \/ /\ turn = 1
          /\ turn' = 2
          /\ UNCHANGED <<phase, db>>
       \/ /\ turn = 2
          /\ turn' = 1
          /\ IF globalAbort \/ invalidFormat'
             THEN Done
             ELSE phase' = "flush" /\ UNCHANGED db
    /\ UNCHANGED <<step, log, store, queue, client, exec, resp, pos, faults, hist,
                   rqst, globalAbort, txns, masterCache, getVars, permitted>>

\* Mutant of Locked: handleGet does not hold the lock of the cache set.
LockedNever(k) == FALSE

Locked(k) ==
    \E r \in Reader : getting[r] # "idle" /\ CacheSet[getKey[r]] = CacheSet[k]

\* KVCache.put: other entries of the set may be evicted.
CachePut(k, v) ==
    \E evicted \in SUBSET {j \in Key \ {k} : CacheSet[j] = CacheSet[k]} :
        masterCache' = [j \in Key |-> IF j = k THEN v
                                      ELSE IF j \in evicted THEN None
                                      ELSE masterCache[j]]

\* Mutant of Flush: a deleted key stays in the cache.
FlushPutsOnly ==
    /\ phase = "flush"
    /\ ~Locked(rqst.key)
    /\ IF rqst.type = "putreq" THEN CachePut(rqst.key, rqst.val) ELSE UNCHANGED masterCache
    /\ Done
    /\ UNCHANGED <<slaveVars, rqst, turn, globalAbort, invalidFormat, txns,
                   getVars, permitted>>

\* Flush changes to master cache.
Flush ==
    /\ phase = "flush"
    /\ ~Locked(rqst.key)
    /\ IF rqst.type = "putreq"
       THEN CachePut(rqst.key, rqst.val)
       ELSE masterCache' = [masterCache EXCEPT ![rqst.key] = None]
    /\ Done
    /\ UNCHANGED <<slaveVars, rqst, turn, globalAbort, invalidFormat, txns,
                   getVars, permitted>>

-----------------------------------------------------------------------------
(* handleGet.                                                              *)

\* Take the set's lock and look in the cache.
GetStart(r, k) ==
    /\ getting[r] = "idle"
    /\ ~Locked(k)
    /\ permitted' = [permitted EXCEPT ![r] =
                        {db[k]} \cup IF Committing /\ rqst.key = k THEN {rqst.val} ELSE {}]
    /\ getKey' = [getKey EXCEPT ![r] = k]
    /\ IF masterCache[k] # None
       THEN /\ returned' = [returned EXCEPT ![r] = masterCache[k]]
            /\ UNCHANGED getting
       ELSE /\ getting' = [getting EXCEPT ![r] = "primary"]
            /\ UNCHANGED returned
    /\ UNCHANGED <<slaveVars, masterVars, masterCache, db>>

Asked(r) == Replicas[getKey[r]][IF getting[r] = "primary" THEN 1 ELSE 2]

\* getValueFromReplica returns value: return it and cache it, or ask the
\* secondary replica, or give up with ERROR_NO_SUCH_KEY.
GotValue(r, value) ==
    /\ getting' = [getting EXCEPT ![r] =
                      IF value = None /\ @ = "primary" THEN "secondary" ELSE "idle"]
    /\ returned' = IF getting'[r] = "idle" THEN [returned EXCEPT ![r] = value]
                                           ELSE returned
    /\ IF value # None THEN CachePut(getKey[r], value) ELSE UNCHANGED masterCache
    /\ UNCHANGED <<masterVars, getKey, db>>

GetSend(r) ==
    /\ getting[r] # "idle"
    /\ Send(r, Asked(r), GetReq(getKey[r]))
    /\ UNCHANGED <<step, log, store, client, exec, resp, pos, faults, hist,
                   masterVars, masterCache, getVars, db, permitted>>

\* After a failure ERROR_NO_SUCH_KEY is a possible outcome for any key.
PermitNoSuchKey(r) == permitted' = [permitted EXCEPT ![r] = @ \cup {None}]

GetConnect(r) ==
    /\ getting[r] # "idle"
    /\ CannotConnect(r, Asked(r))
    /\ GotValue(r, None)
    /\ PermitNoSuchKey(r)
    /\ UNCHANGED <<step, log, store, queue, client, exec, resp, pos, conn, hist>>

\* Mutant of GetTimeout: the response is awaited without a timeout.
GetTimeoutNever(r) == FALSE

GetTimeout(r) ==
    /\ getting[r] # "idle"
    /\ Timeout(r)
    /\ GotValue(r, None)
    /\ PermitNoSuchKey(r)
    /\ UNCHANGED <<step, log, store, exec, resp, pos, hist>>

GetReceive(r) ==
    /\ getting[r] # "idle"
    /\ Receive(r)
    /\ GotValue(r, IF conn[r].type = "resp" THEN conn[r].val ELSE None)
    /\ UNCHANGED <<permitted, step, log, store, queue, client, exec, resp, pos,
                   faults, hist>>

-----------------------------------------------------------------------------

TPCStep ==
    \/ Phase1Send \/ Phase1Connect \/ Phase1Timeout \/ Phase1Receive
    \/ Phase2Send \/ Phase2Timeout \/ Phase2Receive
    \/ Flush

GetStep(r) == GetSend(r) \/ GetConnect(r) \/ GetTimeout(r) \/ GetReceive(r)

Next ==
    \/ \E m \in TPCRequest : Request(m)
    \/ TPCStep
    \/ \E r \in Reader : GetStep(r) \/ \E k \in Key : GetStart(r, k)
    \/ \E s \in Slave :
          /\ SlaveStep(s) \/ SlaveFault(s)
          /\ UNCHANGED <<masterVars, masterCache, getVars, db, permitted>>

Spec == Init /\ [][Next]_vars

\* Threads of the master and of a running slave make progress, and a slave
\* that crashed is started again.
Fairness ==
    /\ WF_vars(TPCStep)
    /\ \A r \in Reader : WF_vars(GetStep(r))
    /\ \A s \in Slave :
          WF_vars(SlaveStep(s) /\ UNCHANGED <<masterVars, masterCache, getVars, db, permitted>>)

FairSpec == Spec /\ Fairness

-----------------------------------------------------------------------------
(* Properties.                                                             *)

\* Types of all variables.
TypeOK ==
    /\ SlaveTypeOK
    /\ phase \in {"idle", "phase1", "phase2", "flush"}
    /\ rqst \in TPCRequest \cup {None}
    /\ rqst = None => phase = "idle"
    /\ turn \in 1..2
    /\ globalAbort \in BOOLEAN
    /\ invalidFormat \in BOOLEAN
    /\ txns \in 0..MaxTxns
    /\ masterCache \in [Key -> OptValue]
    /\ getting \in [Reader -> {"idle", "primary", "secondary"}]
    /\ getKey \in [Reader -> Key \cup {None}]
    /\ \A r \in Reader : getting[r] # "idle" => getKey[r] \in Key
    /\ returned \in [Reader -> OptValue]
    /\ db \in [Key -> OptValue]
    /\ permitted \in [Reader -> SUBSET OptValue]

\* Atomicity of handleTPCRequest: except for the key of a request that is being
\* committed, both replicas of a key hold exactly the effect of the requests
\* that committed and returned, in their logs (so also after a crash) and, when
\* no job is half done, in their stores.
ReplicasAgree ==
    \A k \in Key : \A i \in 1..2 :
        ~(Committing /\ rqst.key = k) =>
            LET s == Replicas[k][i] IN
            /\ Durable(s)[k] = db[k]
            /\ step[s] \in {"idle", "reply"} => store[s][k] = db[k]

\* rebuildServer never throws, and a slave that has come back, whatever it was
\* doing when it crashed, has the store it would have had without the crash.
RecoveryExact ==
    \A s \in Slave :
        /\ step[s] # "failed"
        /\ step[s] \in {"idle", "reply"} => store[s] = Durable(s)

\* A commit message names no request: TPCMasterHandler commits the last entry of
\* its log.  That entry is always the request the master is committing.
CommitsCurrentRequest ==
    [][\A s \in Slave :
          (exec'[s] # exec[s] /\ step'[s] = "apply") =>
              Committing /\ exec'[s] = rqst /\ s = CurrSlave]_vars

\* The master's cache never holds a value that is neither the committed one nor
\* the one being committed, although readers fill it while requests run.
CacheCoherent ==
    \A k \in Key :
        masterCache[k] \in {None, db[k]}
            \cup IF Committing /\ rqst.key = k THEN {rqst.val} ELSE {}

\* handleGet returns a value that was committed during the call: never the value
\* of an aborted request, never one overwritten before the call began, and
\* ERROR_NO_SUCH_KEY only for a missing key or after a failure.
ReadsCommitted ==
    \A r \in Reader : getting[r] = "idle" => returned[r] \in permitted[r]

\* Both phases of handleTPCRequest end: phase 2 outlasts crashes and timeouts.
\* (The flush after them waits for a lock that is not fair.)
PhasesTerminate == (phase \in {"phase1", "phase2"}) ~> (phase \in {"flush", "idle"})

\* handleGet terminates.
GetTerminates == \A r \in Reader : (getting[r] # "idle") ~> (getting[r] = "idle")

\* What the comment above phase 2 says: the loop leaves a slave only when it has
\* responded with an ACK.
Phase2EndsWithAck ==
    [][phase = "phase2" /\ <<phase, turn>>' # <<phase, turn>> => conn[Coord].type = "ack"]_vars

-----------------------------------------------------------------------------
(* Refinement.                                                             *)

\* The database as the logs of the i-th replicas and the decision on the
\* current request give it.
View(i) ==
    [k \in Key |-> IF Committing /\ rqst.key = k THEN rqst.val
                   ELSE Durable(Replicas[k][i])[k]]

Outcome ==
    IF phase \in {"idle", "phase1"} THEN "undecided"
    ELSE IF globalAbort THEN "aborted" ELSE "committed"

Primary == INSTANCE AtomicStore WITH
    Updates <- TPCRequest, data <- View(1), outcome <- Outcome,
    pending <- IF phase = "idle" THEN None ELSE rqst

Secondary == INSTANCE AtomicStore WITH
    Updates <- TPCRequest, data <- View(2), outcome <- Outcome,
    pending <- IF phase = "idle" THEN None ELSE rqst

\* Seen through the logs of the primary replicas, and just as well through those
\* of the secondary ones, the system is a single store on which requests take
\* effect atomically, at the moment phase 1 ends.
ImplementsAtomicStore == Primary!Spec /\ Secondary!Spec
=============================================================================
