------------------------------ MODULE TPCReads ------------------------------
(***************************************************************************)
(* handleGet: what readers are told, and what the master's cache holds,    *)
(* are values that their keys have or are being given.                     *)
(***************************************************************************)
EXTENDS TPCAgreement

-----------------------------------------------------------------------------
(* The inductive invariant.                                                *)

\* The values that key k has, or is being given.
Current(k) == {db[k]} \cup (IF Committing /\ rqst.key = k THEN {rqst.val} ELSE {})

\* A reader has asked the replica it means to ask, and what it is about to be told
\* is a value that its key has or is being given.
Told(r, a) == a.type = "resp" /\ a.val \in Current(getKey[r])

Asking(r, s, i) == s = Asked(r) /\ queue[s][i].msg = GetReq(getKey[r])

Reading(r) ==
    /\ \A s \in Slave : \A i \in Jobs(s) : queue[s][i].from = r => Asking(r, s, i)
    /\ \A s \in Slave : client[s] = r => step[s] = "reply" /\ Told(r, resp[s])
    /\ conn[r].type \in Answers => Told(r, conn[r])
    /\ Current(getKey[r]) \subseteq permitted[r]

ReaderOK(r) == IF getting[r] = "idle" THEN conn[r] = Closed ELSE Reading(r)

Reads == \A r \in Reader : ReaderOK(r)

ReadsInv == Reads /\ CacheCoherent /\ ReadsCommitted

-----------------------------------------------------------------------------
(* The readers.                                                            *)

\* Steps that keep the outcome of the request keep the values of the keys.
LEMMA CurrentStill ==
    ASSUME UNCHANGED <<rqst, db>>, Committing' <=> Committing
    PROVE  \A k \in Key : Current(k)' = Current(k)
BY Zenon DEF Current

\* Flush leaves its key with the new value.
LEMMA FlushCurrent ==
    ASSUME TypeOK, Agreed, Acked, Flush
    PROVE  /\ \A k \in Key : k # rqst.key => Current(k)' = Current(k)
           /\ Current(rqst.key)' = {rqst.val}
           /\ rqst.key \in Key /\ rqst' = rqst
<1>1. db' = [db EXCEPT ![rqst.key] = rqst.val] /\ Committing /\ ~Committing'
  BY FlushAgreed, Zenon
<1>2. db \in [Key -> OptValue] /\ rqst.key \in Key /\ rqst' = rqst
  BY MasterFacts, Zenon DEF Flush, TypeOK
<1>3. db'[rqst'.key] = rqst.val /\ \A k \in Key : k # rqst.key => db'[k] = db[k]
  BY <1>1, <1>2, Zenon
<1> QED
  BY <1>1, <1>2, <1>3, Zenon DEF Current

\* The values of a key change when phase 1 ends in a commit, which readers of the
\* key are permitted to see, and when Flush ends it, which no reader of the key is
\* in handleGet for.
LEMMA CurrentNext ==
    ASSUME TypeOK, Calm, Ballots, Agreed, Acked, Next
    PROVE  \/ /\ \A k \in Key : Current(k)' = Current(k)
              /\ \A r \in Reader : getting[r] # "idle" => permitted[r] \subseteq permitted'[r]
           \/ /\ \A k \in Key : Current(k) \subseteq Current(k)'
              /\ \A k \in Key : k # rqst.key => Current(k)' = Current(k)
              /\ \A k \in Key : Current(k)' \subseteq Current(k) \cup {rqst.val}
              /\ PermitNewValue /\ UNCHANGED <<getVars, masterCache>>
           \/ /\ Flush
              /\ \A k \in Key : k # rqst.key => Current(k)' = Current(k)
              /\ Current(rqst.key)' = {rqst.val}
<1> USE TypeParts
<1>0. permitted \in [Reader -> SUBSET OptValue]
  BY Zenon DEF TypeOK
<1>1. ASSUME UNCHANGED <<masterVars, db>>
      PROVE  \A k \in Key : Current(k)' = Current(k)
  BY <1>1, CurrentStill, Zenon DEF masterVars, Committing
<1>2. ASSUME NEW m \in TPCRequest, Request(m)
      PROVE  (\A k \in Key : Current(k)' = Current(k)) /\ permitted' = permitted
  <2>1. ~Committing /\ ~Committing' /\ UNCHANGED <<db, permitted>>
    BY <1>2, Zenon DEF Request, Committing
  <2> QED
    BY <2>1, Zenon DEF Current
<1>3. ASSUME Phase1Connect \/ Phase1Timeout \/ Phase1Receive
      PROVE  \/ (\A k \in Key : Current(k)' = Current(k)) /\ permitted' = permitted
             \/ /\ \A k \in Key : Current(k) \subseteq Current(k)'
                /\ \A k \in Key : k # rqst.key => Current(k)' = Current(k)
                /\ \A k \in Key : Current(k)' \subseteq Current(k) \cup {rqst.val}
                /\ PermitNewValue /\ UNCHANGED <<getVars, masterCache>>
  <2>1. PICK a \in BOOLEAN : phase = "phase1" /\ NextVote(a) /\ (~a => Voted(CurrSlave))
    BY <1>3, CountedVote, Zenon
  <2>2. ~Committing /\ UNCHANGED <<db, rqst, getVars, masterCache>> /\ turn \in 1..2
    BY <2>1, Zenon DEF NextVote, Committing, TypeOK
  <2>3. CASE turn = 2 /\ ~globalAbort'
    <3>1. PermitNewValue
      BY <2>1, <2>3, Zenon DEF NextVote
    <3>2. \A k \in Key : /\ Current(k) = {db[k]}
                         /\ Current(k)' = {db[k]} \cup (IF Committing' /\ rqst.key = k THEN {rqst.val} ELSE {})
      BY <2>2, Zenon DEF Current
    <3> QED
      BY <2>2, <3>1, <3>2, Zenon
  <2>4. CASE ~(turn = 2 /\ ~globalAbort')
    <3>1. permitted' = permitted /\ ~Committing'
      BY <2>1, <2>2, <2>4 DEF NextVote, Committing
    <3> QED
      BY <2>2, <3>1, CurrentStill, Zenon
  <2> QED
    BY <2>3, <2>4, Zenon
<1>4. ASSUME Phase2Receive
      PROVE  (\A k \in Key : Current(k)' = Current(k)) /\ permitted' = permitted
  <2>1. db' = db /\ rqst' = rqst /\ (Committing' <=> Committing)
    BY <1>4, AnswerAgreed, Zenon
  <2> QED
    BY <1>4, <2>1, CurrentStill, Zenon DEF Phase2Receive
<1>5. ASSUME Flush
      PROVE  /\ \A k \in Key : k # rqst.key => Current(k)' = Current(k)
             /\ Current(rqst.key)' = {rqst.val}
  BY <1>5, FlushCurrent, Zenon
<1>6. CASE Phase1Send \/ Phase2Send \/ Phase2Timeout
  BY <1>1, <1>6, Zenon DEF Phase1Send, Phase2Send, Phase2Timeout
<1>7. ASSUME NEW r \in Reader, GetStep(r)
      PROVE  /\ \A k \in Key : Current(k)' = Current(k)
             /\ \A q \in Reader : permitted[q] \subseteq permitted'[q]
  <2>1. UNCHANGED <<masterVars, db>>
    BY <1>7, Zenon DEF GetStep, GetSend, GetConnect, GetTimeout, GetReceive, GotValue
  <2>2. permitted' = permitted \/ PermitNoSuchKey(r)
    BY <1>7, Zenon DEF GetStep, GetSend, GetConnect, GetTimeout, GetReceive
  <2> QED
    BY <1>0, <1>1, <2>1, <2>2, Zenon DEF PermitNoSuchKey
<1>8. ASSUME NEW r \in Reader, NEW k \in Key, GetStart(r, k)
      PROVE  /\ \A j \in Key : Current(j)' = Current(j)
             /\ \A q \in Reader : getting[q] # "idle" => permitted[q] \subseteq permitted'[q]
  <2>1. UNCHANGED <<masterVars, db>> /\ getting[r] = "idle"
    BY <1>8, Zenon DEF GetStart
  <2>2. \A q \in Reader \ {r} : permitted'[q] = permitted[q]
    BY <1>0, <1>8, Zenon DEF GetStart
  <2> QED
    BY <1>1, <2>1, <2>2, Zenon
<1>9. CASE Idle
  BY <1>1, <1>9, Zenon DEF Idle
<1> QED
  BY <1>2, <1>3, <1>4, <1>5, <1>6, <1>7, <1>8, <1>9, StepCases, Zenon
     DEF GetStep, Phase1Send, Phase2Send, Phase2Timeout

\* What a reader in handleGet has been told stays one of the values of its key, and
\* what it may be told is permitted.
LEMMA PermittedNext ==
    ASSUME TypeOK, Calm, Ballots, Agreed, Acked, Next, NEW r \in Reader,
           getting[r] # "idle", getKey'[r] = getKey[r], Current(getKey[r]) \subseteq permitted[r]
    PROVE  Current(getKey[r]) \subseteq Current(getKey[r])' /\ Current(getKey[r])' \subseteq permitted'[r]
<1>1. PICK k \in Key : k = getKey[r] /\ k = getKey'[r]
  BY ReaderFacts, Zenon
<1>2. Current(getKey[r])' = Current(k)'
  BY <1>1, Zenon DEF Current
<1>3. permitted \in [Reader -> SUBSET OptValue]
  BY Zenon DEF TypeOK
<1>4. CASE /\ \A j \in Key : Current(j)' = Current(j)
           /\ \A q \in Reader : getting[q] # "idle" => permitted[q] \subseteq permitted'[q]
  BY <1>1, <1>2, <1>4, Zenon
<1>5. CASE /\ \A j \in Key : Current(j) \subseteq Current(j)'
           /\ \A j \in Key : j # rqst.key => Current(j)' = Current(j)
           /\ \A j \in Key : Current(j)' \subseteq Current(j) \cup {rqst.val}
           /\ PermitNewValue
  <2>1. permitted'[r] = IF k = rqst.key THEN permitted[r] \cup {rqst.val} ELSE permitted[r]
    BY <1>1, <1>5, Zenon DEF PermitNewValue
  <2>2. Current(k)' \subseteq permitted'[r]
    BY <1>1, <1>5, <2>1, Zenon
  <2> QED
    BY <1>1, <1>2, <1>5, <2>2, Zenon
<1>6. CASE Flush /\ \A j \in Key : j # rqst.key => Current(j)' = Current(j)
  <2>1. k # rqst.key
    BY <1>1, <1>6, Zenon DEF Flush, Locked
  <2> QED
    BY <1>1, <1>2, <1>6, <2>1, Zenon DEF Flush
<1> QED
  BY <1>4, <1>5, <1>6, CurrentNext, Zenon

\* Steps that leave a reader, its jobs and its socket alone.
LEMMA StillReader ==
    ASSUME TypeOK, TypeOK', Calm, Ballots, Agreed, Acked, Next, NEW r \in Reader, ReaderOK(r),
           getting'[r] = getting[r], getKey'[r] = getKey[r], conn'[r] = conn[r],
           \A s \in Slave : \A i \in Jobs(s)' : queue'[s][i].from = r =>
              \E j \in Jobs(s) : queue[s][j].from = r /\ queue'[s][i].msg = queue[s][j].msg,
           \A s \in Slave : client'[s] = r =>
              client[s] = r /\ step'[s] = step[s] /\ resp'[s] = resp[s]
    PROVE  ReaderOK(r)'
<1>1. CASE getting[r] = "idle"
  BY <1>1, Zenon DEF ReaderOK
<1>2. CASE getting[r] # "idle"
  <2>1. Reading(r)
    BY <1>2, Zenon DEF ReaderOK
  <2>2. Current(getKey[r]) \subseteq Current(getKey[r])' /\ Current(getKey[r])' \subseteq permitted'[r]
    BY <1>2, <2>1, PermittedNext, Zenon DEF Reading
  <2>3. \A a : Told(r, a) => Told(r, a)'
    BY <2>2, Zenon DEF Told
  <2>4. Asked(r)' = Asked(r) /\ GetReq(getKey[r])' = GetReq(getKey[r])
    BY Zenon DEF Asked, GetReq
  <2>5. ASSUME NEW s \in Slave, NEW i \in Jobs(s)', queue'[s][i].from = r
        PROVE  Asking(r, s, i)'
    <3>1. PICK j \in Jobs(s) : queue[s][j].from = r /\ queue'[s][i].msg = queue[s][j].msg
      BY <2>5, Zenon
    <3>2. Asking(r, s, j)
      BY <2>1, <3>1, Zenon DEF Reading
    <3> QED
      BY <2>4, <3>1, <3>2, Zenon DEF Asking
  <2>6. ASSUME NEW s \in Slave, client'[s] = r
        PROVE  step'[s] = "reply" /\ (Told(r, resp[s]))'
    <3>1. step[s] = "reply" /\ Told(r, resp[s]) /\ step'[s] = step[s] /\ resp'[s] = resp[s]
      BY <2>1, <2>6, Zenon DEF Reading
    <3> QED
      BY <2>2, <3>1, Zenon DEF Told
  <2>7. ASSUME conn'[r].type \in Answers
        PROVE  (Told(r, conn[r]))'
    <3>1. Told(r, conn[r])
      BY <2>1, <2>7, Zenon DEF Reading
    <3> QED
      BY <2>2, <3>1, Zenon DEF Told
  <2>8. Reading(r)'
    BY <2>2, <2>5, <2>6, <2>7, Zenon DEF Reading
  <2> QED
    BY <1>2, <2>8, Zenon DEF ReaderOK
<1> QED
  BY <1>1, <1>2, Zenon

\* A reader that has closed its socket, to go on or to return.
LEMMA ClosedReader ==
    ASSUME TypeOK', Sockets', NEW r \in Reader, conn'[r] = Closed,
           getting'[r] # "idle" => Current(getKey[r])' \subseteq permitted'[r]
    PROVE  ReaderOK(r)'
<1>1. r \in Caller /\ SlaveTypeOK' /\ conn'[r] # Open /\ conn'[r].type \notin Answers
  BY Callers DEF TypeOK, Closed, Open, Answers
<1>2. \A s \in Slave : client'[s] # r /\ \A i \in Jobs(s)' : queue'[s][i].from # r
  BY <1>1, UnheardNext, Zenon
<1>3. getting'[r] # "idle" => Reading(r)'
  BY <1>1, <1>2, Zenon DEF Reading
<1> QED
  BY <1>3, Zenon DEF ReaderOK

\* What a replica of a key holds when it runs a job is a value of the key.
LEMMA ReplicaValue ==
    ASSUME TypeOK, RecoveryInv, Agreed, NEW k \in Key, NEW j \in 1..2,
           step[Replicas[k][j]] = "idle"
    PROVE  store[Replicas[k][j]][k] \in Current(k)
<1>1. PICK s \in Slave : s = Replicas[k][j]
  BY MasterAssumption, Zenon
<1>2. store[s] = Durable(s)
  BY <1>1, Zenon DEF RecoveryInv, SlaveRecovers, StoreIsDurable
<1>3. CASE Committing /\ rqst.key = k
  <2>1. s = Rep(j)
    BY <1>1, <1>3, Zenon DEF Rep
  <2>2. Durable(s)[k] \in {db[k], rqst.val}
    BY <1>3, <2>1, Zenon DEF Agreed, Carried
  <2> QED
    BY <1>1, <1>2, <1>3, <2>2, Zenon DEF Current
<1>4. CASE ~(Committing /\ rqst.key = k)
  BY <1>1, <1>2, <1>4, Zenon DEF Agreed, Current
<1> QED
  BY <1>3, <1>4, Zenon

\* A worker runs the job of a reader.
LEMMA RunReader ==
    ASSUME TypeOK, TypeOK', Calm, RecoveryInv, Sockets, Ballots, Agreed, Acked, Next,
           NEW r \in Reader, ReaderOK(r), NEW s \in Slave, Run(s), Idle,
           queue[s][1].from = r
    PROVE  ReaderOK(r)'
<1> USE TypeParts
<1>0. Connections = 1 /\ ~SlowNetwork /\ SlaveTypeOK /\ r \in Caller
  BY Callers, Zenon DEF Calm
<1>1. /\ 1 \in Jobs(s) /\ step[s] = "idle" /\ conn' = conn
      /\ \A t \in Slave \ {s} : step'[t] = step[t] /\ resp'[t] = resp[t]
  BY <1>0, RunSteps, Zenon
<1>2. UNCHANGED <<getting, getKey>>
  BY Zenon DEF Idle, getVars
<1>3. getting[r] # "idle"
  <2>1. conn[r] = Open
    BY <1>0, <1>1, Unheard, Zenon
  <2> QED
    BY <2>1 DEF ReaderOK, Open, Closed
<1>4. Reading(r)
  BY <1>3, Zenon DEF ReaderOK
<1>5. Current(getKey[r]) \subseteq Current(getKey[r])' /\ Current(getKey[r])' \subseteq permitted'[r]
  BY <1>2, <1>3, <1>4, PermittedNext, Zenon DEF Reading
<1>6. PICK m : m = queue[s][1].msg
  BY Zenon
<1>7. s = Asked(r) /\ m = GetReq(getKey[r])
  BY <1>1, <1>4, <1>6, Zenon DEF Reading, Asking
<1>8. getKey[r] \in Key /\ \E j \in 1..2 : s = Replicas[getKey[r]][j]
  BY <1>3, <1>7, ReaderFacts DEF Asked
<1>9. store[s][getKey[r]] \in Current(getKey[r])
  BY <1>1, <1>8, ReplicaValue
<1>10. Answered(s, [type |-> "resp", val |-> store[s][getKey[r]]])
  <2>1. m.type = "getreq" /\ m.key = getKey[r] /\ ~IsUpdate(m)
    BY <1>7, Zenon DEF GetReq, IsUpdate
  <2> QED
    BY <1>0, <1>6, <2>1, RunOutcome, Zenon
<1>11. step'[s] = "reply" /\ (Told(r, resp[s]))'
  <2>1. resp'[s].type = "resp" /\ resp'[s].val = store[s][getKey[r]]
    BY <1>10 DEF Answered
  <2> QED
    BY <1>5, <1>9, <1>10, <2>1, Zenon DEF Told, Answered
<1>12. PICK i \in 1..Len(queue[s]) : Take(s, i)
  BY <1>0, RunSteps, Zenon
<1>13. /\ client' = [client EXCEPT ![s] = queue[s][1].from]
       /\ \A t \in Slave \ {s} : queue'[t] = queue[t] /\ Jobs(t)' = Jobs(t)
       /\ \A j \in Jobs(s)' : j \in Nat /\ j + 1 \in Jobs(s) /\ queue'[s][j] = queue[s][j + 1]
  BY <1>0, <1>12, TakeJobs, Zenon
<1>14. ASSUME NEW t \in Slave, NEW j \in Jobs(t)', queue'[t][j].from = r
       PROVE  FALSE
  <2>1. Waits(r) /\ 1 \in Places(s) /\ From(s, 1) = r
    BY <1>0, <1>1, PlaceFacts, Zenon DEF Sockets, From
  <2>2. CASE t = s
    <3>1. j \in Nat /\ j + 1 \in Jobs(s) /\ queue[s][j + 1].from = r /\ j >= 1
      BY <1>13, <1>14, <2>2 DEF Jobs
    <3>2. j + 1 \in Places(s) /\ From(s, j + 1) = r
      BY <1>0, <3>1, PlaceFacts, Zenon DEF From
    <3>3. 1 = j + 1
      BY <2>1, <3>2, Zenon DEF Waits
    <3> QED
      BY <3>1, <3>3
  <2>3. CASE t # s
    <3>1. j \in Jobs(t) /\ queue[t][j].from = r
      BY <1>13, <1>14, <2>3, Zenon
    <3>2. j \in Places(t) /\ From(t, j) = r
      BY <1>0, <3>1, PlaceFacts, Zenon DEF From
    <3> QED
      BY <2>1, <2>3, <3>2, Zenon DEF Waits
  <2> QED
    BY <2>2, <2>3, Zenon
<1>15. ASSUME NEW t \in Slave, client'[t] = r
       PROVE  step'[t] = "reply" /\ (Told(r, resp[t]))'
  <2>1. CASE t = s
    BY <1>11, <2>1, Zenon
  <2>2. CASE t # s
    <3>1. client[t] = r
      BY <1>13, <1>15, <2>2, Zenon DEF SlaveTypeOK
    <3>2. step[t] = "reply" /\ Told(r, resp[t]) /\ step'[t] = step[t] /\ resp'[t] = resp[t]
      BY <1>1, <1>4, <2>2, <3>1, Zenon DEF Reading
    <3> QED
      BY <1>5, <3>2, Zenon DEF Told
  <2> QED
    BY <2>1, <2>2, Zenon
<1>16. ASSUME conn'[r].type \in Answers
       PROVE  (Told(r, conn[r]))'
  BY <1>1, <1>4, <1>5, <1>16, Zenon DEF Reading, Told
<1>17. Reading(r)'
  BY <1>5, <1>14, <1>15, <1>16, Zenon DEF Reading
<1> QED
  BY <1>2, <1>3, <1>17, Zenon DEF ReaderOK

\* The reader's own steps.
LEMMA OwnReader ==
    ASSUME TypeOK, TypeOK', Calm, Sockets, Sockets', Ballots, Agreed, Acked, Next,
           NEW r \in Reader, ReaderOK(r),
           GetStep(r) \/ \E k \in Key : GetStart(r, k)
    PROVE  ReaderOK(r)'
<1> USE TypeParts
<1>0. /\ SlaveTypeOK /\ conn \in [Caller -> Socket] /\ r \in Caller
      /\ getKey \in [Reader -> Key \cup {None}]
      /\ getting \in [Reader -> {"idle", "primary", "secondary"}]
      /\ permitted \in [Reader -> SUBSET OptValue]
  BY Callers, Zenon DEF SlaveTypeOK, TypeOK
<1>1. CASE GetSend(r)
  <2>1. getting[r] # "idle" /\ UNCHANGED <<getting, getKey, client, step, resp>>
    BY <1>1, Zenon DEF GetSend, getVars
  <2>2. Reading(r)
    BY <2>1, Zenon DEF ReaderOK
  <2>3. Current(getKey[r]) \subseteq Current(getKey[r])' /\ Current(getKey[r])' \subseteq permitted'[r]
    BY <2>1, <2>2, PermittedNext, Zenon DEF Reading
  <2>4. Asked(r) \in Slave /\ GetReq(getKey[r]) \in Msg /\ Send(r, Asked(r), GetReq(getKey[r]))
    BY <1>1, <2>1, ReaderFacts, Zenon DEF GetSend
  <2>5. /\ conn[r] = Closed /\ conn' = [conn EXCEPT ![r] = Open]
        /\ \A t \in Slave : \A i \in Jobs(t)' :
              \/ i \in Jobs(t) /\ queue'[t][i] = queue[t][i]
              \/ /\ t = Asked(r)
                 /\ queue'[t][i] = [msg |-> GetReq(getKey[r]), from |-> r]
    BY <1>0, <2>4, SendJobs
  <2>6. \A s \in Slave : client[s] # r /\ \A i \in Jobs(s) : queue[s][i].from # r
    BY <1>0, <2>5, Unheard DEF Open, Closed
  <2>7. conn'[r].type \notin Answers
    BY <1>0, <2>5, Zenon DEF Open, Answers
  <2>8. ASSUME NEW s \in Slave, NEW i \in Jobs(s)', queue'[s][i].from = r
        PROVE  Asking(r, s, i)'
    <3>1. s = Asked(r) /\ queue'[s][i].msg = GetReq(getKey[r])
      BY <2>5, <2>6, <2>8
    <3> QED
      BY <2>1, <3>1, Zenon DEF Asking, Asked, GetReq
  <2>9. Reading(r)'
    BY <2>1, <2>3, <2>6, <2>7, <2>8, Zenon DEF Reading
  <2> QED
    BY <2>1, <2>9, Zenon DEF ReaderOK
<1>2. CASE GetConnect(r) \/ GetTimeout(r) \/ GetReceive(r)
  <2>1. getting[r] # "idle" /\ getKey' = getKey
    BY <1>2, Zenon DEF GetConnect, GetTimeout, GetReceive, GotValue
  <2>2. conn'[r] = Closed
    BY <1>0, <1>2, Zenon DEF GetConnect, GetTimeout, GetReceive, CannotConnect, Timeout, Receive
  <2>3. Current(getKey[r])' \subseteq permitted'[r]
    BY <2>1, PermittedNext, Zenon DEF ReaderOK, Reading
  <2> QED
    BY <2>2, <2>3, ClosedReader, Zenon
<1>3. ASSUME NEW k \in Key, GetStart(r, k)
      PROVE  ReaderOK(r)'
  <2>1. conn'[r] = Closed
    BY <1>3, Zenon DEF GetStart, ReaderOK, slaveVars
  <2>2. getKey'[r] = k /\ permitted'[r] = Current(k)
    BY <1>0, <1>3, Zenon DEF GetStart, Current
  <2>3. Current(k)' = Current(k)
    BY <1>3, CurrentStill, Zenon DEF GetStart, masterVars, Committing
  <2>4. Current(getKey[r])' = Current(k)'
    BY <2>2, Zenon DEF Current
  <2> QED
    BY <2>1, <2>2, <2>3, <2>4, ClosedReader, Zenon
<1> QED
  BY <1>1, <1>2, <1>3, Zenon DEF GetStep

\* Steps of others.
LEMMA ReaderNext ==
    ASSUME TypeOK, TypeOK', Calm, RecoveryInv, Sockets, Sockets', Ballots, Agreed, Acked, Next,
           NEW r \in Reader, ReaderOK(r)
    PROVE  ReaderOK(r)'
<1> USE TypeParts
<1>0. /\ SlaveTypeOK /\ conn \in [Caller -> Socket] /\ r \in Caller
      /\ r # Coord /\ Coord \in Caller /\ Connections = 1
      /\ \A q \in Reader : q \in Caller
      /\ client \in [Slave -> Caller \cup {None}] /\ r # None
      /\ getKey \in [Reader -> Key \cup {None}]
      /\ getting \in [Reader -> {"idle", "primary", "secondary"}]
  BY Callers, Zenon DEF SlaveTypeOK, TypeOK, Calm
<1> DEFINE Kept == /\ getting'[r] = getting[r] /\ getKey'[r] = getKey[r] /\ conn'[r] = conn[r]
           Queued == \A s \in Slave : \A i \in Jobs(s)' : queue'[s][i].from = r =>
                        \E j \in Jobs(s) : queue[s][j].from = r /\ queue'[s][i].msg = queue[s][j].msg
           Serves == \A s \in Slave : client'[s] = r =>
                        client[s] = r /\ step'[s] = step[s] /\ resp'[s] = resp[s]
<1>1. Kept /\ Queued /\ Serves => ReaderOK(r)'
  BY StillReader, Zenon
<1>2. queue' = queue => Queued
  BY Zenon DEF Jobs
<1>3. UNCHANGED <<client, step, resp>> => Serves
  BY Zenon
<1>4. ASSUME NEW c \in Caller \ {r}, NEW s \in Slave, NEW m \in Msg, Send(c, s, m)
      PROVE  Queued /\ conn'[r] = conn[r]
  <2>1. \A t \in Slave : \A i \in Jobs(t)' :
            \/ i \in Jobs(t) /\ queue'[t][i] = queue[t][i]
            \/ queue'[t][i] = [msg |-> m, from |-> c]
    BY <1>0, <1>4, SendJobs
  <2>2. conn'[r] = conn[r]
    BY <1>0, <1>4, Zenon DEF Send
  <2>3. [msg |-> m, from |-> c].from # r
    BY Zenon
  <2> QED
    BY <2>1, <2>2, <2>3, Zenon
<1>5. ASSUME NEW c \in Caller \ {r}, Timeout(c)
      PROVE  Queued /\ conn'[r] = conn[r] /\ \A s \in Slave : client'[s] = r => client[s] = r
  <2>1. \A t \in Slave :
           /\ Jobs(t)' = Jobs(t)
           /\ client'[t] = IF client[t] = c THEN None ELSE client[t]
           /\ \A i \in Jobs(t) :
                 /\ queue'[t][i].msg = queue[t][i].msg
                 /\ queue'[t][i].from = IF queue[t][i].from = c THEN None ELSE queue[t][i].from
    BY <1>0, <1>5, TimeoutJobs, Zenon
  <2>2. conn'[r] = conn[r]
    BY <1>0, <1>5, Zenon DEF Timeout
  <2> QED
    BY <1>0, <2>1, <2>2
<1> HIDE DEF Queued, Serves
<1>6. ASSUME NEW m \in TPCRequest, Request(m)
      PROVE  ReaderOK(r)'
  BY <1>1, <1>2, <1>3, <1>6, Zenon DEF Request, slaveVars, getVars
<1>7. CASE Phase1Send
  <2>1. CurrSlave \in Slave /\ rqst \in Msg
    BY <1>7, MasterFacts, Zenon DEF Phase1Send
  <2>2. Queued /\ conn'[r] = conn[r]
    BY <1>0, <1>4, <1>7, <2>1, Zenon DEF Phase1Send
  <2> QED
    BY <1>1, <1>3, <1>7, <2>2, Zenon DEF Phase1Send, getVars
<1>8. CASE Phase2Send
  <2>1. CurrSlave \in Slave /\ Decision \in Msg
    BY <1>8, MasterFacts, Zenon DEF Phase2Send
  <2>2. Queued /\ conn'[r] = conn[r]
    BY <1>0, <1>4, <1>8, <2>1, Zenon DEF Phase2Send, Decision
  <2> QED
    BY <1>1, <1>3, <1>8, <2>2, Zenon DEF Phase2Send, getVars
<1>9. CASE Phase1Connect
  BY <1>1, <1>2, <1>3, <1>9, Zenon DEF Phase1Connect, NextVote, getVars
<1>10. CASE Phase1Timeout \/ Phase2Timeout
  <2>1. Timeout(Coord) /\ UNCHANGED <<step, resp, getVars>>
    BY <1>10, Zenon DEF Phase1Timeout, Phase2Timeout, NextVote
  <2>2. Queued /\ conn'[r] = conn[r] /\ Serves
    BY <1>0, <1>5, <2>1, Zenon DEF Serves
  <2> QED
    BY <1>1, <2>1, <2>2, Zenon DEF getVars
<1>11. CASE Phase1Receive \/ Phase2Receive
  <2>1. conn'[r] = conn[r] /\ UNCHANGED <<queue, client, step, resp, getVars>>
    BY <1>0, <1>11, Zenon DEF Phase1Receive, Phase2Receive, Receive, NextVote
  <2> QED
    BY <1>1, <1>2, <1>3, <2>1, Zenon DEF getVars
<1>12. CASE Flush
  BY <1>1, <1>2, <1>3, <1>12, Zenon DEF Flush, slaveVars, getVars
<1>13. ASSUME GetStep(r) \/ \E k \in Key : GetStart(r, k)
       PROVE  ReaderOK(r)'
  BY <1>13, OwnReader, Zenon
<1>14. ASSUME NEW q \in Reader \ {r}, GetSend(q)
       PROVE  ReaderOK(r)'
  <2>1. Asked(q) \in Slave /\ GetReq(getKey[q]) \in Msg
    BY <1>14, ReaderFacts, Zenon DEF GetSend
  <2>2. Queued /\ conn'[r] = conn[r]
    BY <1>0, <1>4, <1>14, <2>1, Zenon DEF GetSend
  <2> QED
    BY <1>1, <1>3, <1>14, <2>2, Zenon DEF GetSend, getVars
<1>15. ASSUME NEW q \in Reader \ {r}, GetConnect(q) \/ GetReceive(q)
       PROVE  ReaderOK(r)'
  <2>1. conn'[r] = conn[r] /\ UNCHANGED <<queue, client, step, resp>>
    BY <1>0, <1>15, Zenon DEF GetConnect, GetReceive, Receive
  <2>2. getting'[r] = getting[r] /\ getKey' = getKey
    BY <1>0, <1>15, Zenon DEF GetConnect, GetReceive, GotValue
  <2> QED
    BY <1>1, <1>2, <1>3, <2>1, <2>2, Zenon
<1>16. ASSUME NEW q \in Reader \ {r}, GetTimeout(q)
       PROVE  ReaderOK(r)'
  <2>1. Timeout(q) /\ UNCHANGED <<step, resp>>
    BY <1>16, Zenon DEF GetTimeout
  <2>2. Queued /\ conn'[r] = conn[r] /\ Serves
    BY <1>0, <1>5, <2>1, Zenon DEF Serves
  <2>3. getting'[r] = getting[r] /\ getKey' = getKey
    BY <1>0, <1>16, Zenon DEF GetTimeout, GotValue
  <2> QED
    BY <1>1, <2>2, <2>3, Zenon
<1>17. ASSUME NEW q \in Reader \ {r}, NEW k \in Key, GetStart(q, k)
       PROVE  ReaderOK(r)'
  <2>1. getting'[r] = getting[r] /\ getKey'[r] = getKey[r]
    BY <1>0, <1>17, Zenon DEF GetStart
  <2> QED
    BY <1>1, <1>2, <1>3, <1>17, <2>1, Zenon DEF GetStart, slaveVars
<1>18. ASSUME NEW s \in Slave, Run(s), Idle
       PROVE  ReaderOK(r)'
  <2>1. CASE queue[s][1].from = r
    BY <1>18, <2>1, RunReader, Zenon
  <2>2. CASE queue[s][1].from # r
    <3>1. PICK i \in 1..Len(queue[s]) : Take(s, i)
      BY <1>0, <1>18, RunSteps, Zenon
    <3>2. /\ client' = [client EXCEPT ![s] = queue[s][1].from]
          /\ \A t \in Slave \ {s} : queue'[t] = queue[t] /\ Jobs(t)' = Jobs(t)
          /\ \A j \in Jobs(s)' : j + 1 \in Jobs(s) /\ queue'[s][j] = queue[s][j + 1]
      BY <1>0, <3>1, TakeJobs, Zenon
    <3>3. conn' = conn /\ \A t \in Slave \ {s} : step'[t] = step[t] /\ resp'[t] = resp[t]
      BY <1>0, <1>18, RunSteps, Zenon
    <3>4. Queued
      BY <3>2 DEF Queued
    <3>5. Serves
      BY <1>0, <2>2, <3>2, <3>3, Zenon DEF Serves
    <3> QED
      BY <1>1, <1>18, <3>3, <3>4, <3>5, Zenon DEF Idle, getVars
  <2> QED
    BY <2>1, <2>2, Zenon
<1>19. ASSUME NEW s \in Slave, Inner(s), Idle
       PROVE  ReaderOK(r)'
  <2>1. /\ UNCHANGED <<queue, client, conn>>
        /\ \A t \in Slave \ {s} : step'[t] = step[t] /\ resp'[t] = resp[t]
        /\ step[s] \in {"apply", "down", "rebuild"}
    BY <1>0, <1>19, InnerSteps, Zenon
  <2>2. client[s] # r
    <3>1. ASSUME client[s] = r PROVE FALSE
      <4>1. conn[r] = Open
        BY <1>0, <3>1, Unheard, Zenon
      <4>2. Reading(r)
        BY <4>1 DEF ReaderOK, Open, Closed
      <4>3. step[s] = "reply"
        BY <3>1, <4>2, Zenon DEF Reading
      <4> QED
        BY <2>1, <4>3, Zenon
    <3> QED
      BY <3>1, Zenon
  <2>3. Serves
    BY <2>1, <2>2, Zenon DEF Serves
  <2> QED
    BY <1>1, <1>2, <1>19, <2>1, <2>3, Zenon DEF Idle, getVars
<1>20. ASSUME NEW s \in Slave, Reply(s), Idle
       PROVE  ReaderOK(r)'
  <2>1. /\ queue' = queue /\ UNCHANGED <<getting, getKey>>
        /\ step[s] = "reply" /\ client'[s] = None
        /\ \A t \in Slave \ {s} : step'[t] = step[t] /\ resp'[t] = resp[t] /\ client'[t] = client[t]
        /\ conn'[r] = IF client[s] = r THEN resp[s] ELSE conn[r]
    BY <1>0, <1>20, Zenon DEF Reply, Idle, getVars, SlaveTypeOK
  <2>2. Queued /\ Serves
    BY <1>0, <1>2, <2>1, Zenon DEF Serves
  <2>3. CASE client[s] # r
    BY <1>1, <2>1, <2>2, <2>3, Zenon
  <2>4. CASE client[s] = r
    <3>1. conn[r] = Open
      BY <1>0, <2>4, Unheard, Zenon
    <3>2. getting[r] # "idle" /\ Reading(r)
      BY <3>1 DEF ReaderOK, Open, Closed
    <3>3. Current(getKey[r]) \subseteq Current(getKey[r])' /\ Current(getKey[r])' \subseteq permitted'[r]
      BY <2>1, <3>2, PermittedNext, Zenon DEF Reading
    <3>4. (Told(r, conn[r]))'
      BY <2>1, <2>4, <3>2, <3>3, Zenon DEF Reading, Told
    <3>5. Asked(r)' = Asked(r) /\ GetReq(getKey[r])' = GetReq(getKey[r])
      BY <2>1, Zenon DEF Asked, GetReq
    <3>6. \A t \in Slave : \A i \in Jobs(t)' : queue'[t][i].from = r => Asking(r, t, i)'
      BY <2>1, <3>2, <3>5, Zenon DEF Reading, Asking, Jobs
    <3>7. ASSUME NEW t \in Slave, client'[t] = r
          PROVE  step'[t] = "reply" /\ (Told(r, resp[t]))'
      BY <1>0, <2>1, <3>2, <3>3, <3>7, Zenon DEF Reading, Told
    <3>8. Reading(r)'
      BY <3>3, <3>4, <3>6, <3>7, Zenon DEF Reading
    <3> QED
      BY <2>1, <3>2, <3>8, Zenon DEF ReaderOK
  <2> QED
    BY <2>3, <2>4, Zenon
<1>21. ASSUME NEW s \in Slave, Crash(s) \/ CrashInFlush(s), Idle
       PROVE  ReaderOK(r)'
  <2>1. /\ Jobs(s)' = {} /\ client'[s] = None /\ conn' = conn
        /\ \A t \in Slave \ {s} :
              /\ queue'[t] = queue[t] /\ Jobs(t)' = Jobs(t)
              /\ client'[t] = client[t] /\ step'[t] = step[t] /\ resp'[t] = resp[t]
    BY <1>0, <1>21, DieJobs, Zenon DEF Crash, CrashInFlush, Die
  <2>2. Queued /\ Serves
    BY <1>0, <2>1, Zenon DEF Queued, Serves
  <2> QED
    BY <1>1, <1>21, <2>1, <2>2, Zenon DEF Idle, getVars
<1> QED
  BY <1>6, <1>7, <1>8, <1>9, <1>10, <1>11, <1>12, <1>13, <1>14, <1>15, <1>16, <1>17, <1>18,
     <1>19, <1>20, <1>21, StepCases, Zenon DEF GetStep

\* What a reader receives is a value of its key.
LEMMA Received ==
    ASSUME Reads, NEW r \in Reader, GetReceive(r)
    PROVE  /\ conn[r].type = "resp" /\ conn[r].val \in Current(getKey[r])
           /\ Current(getKey[r]) \subseteq permitted[r]
<1>1. getting[r] # "idle" /\ conn[r].type \in Answers
  BY Zenon DEF GetReceive, Receive, Answers
<1>2. Reading(r)
  BY <1>1, Zenon DEF Reads, ReaderOK
<1> QED
  BY <1>1, <1>2, Zenon DEF Reading, Told

\* KVCache.put leaves at every key the new value, the old one or none.
LEMMA CachePutValue ==
    ASSUME NEW k \in Key, NEW v, CachePut(k, v)
    PROVE  masterCache'[k] = v /\ \A j \in Key \ {k} : masterCache'[j] \in {None, masterCache[j]}
BY Zenon DEF CachePut

\* Every step keeps the cache coherent.
LEMMA CacheNext ==
    ASSUME TypeOK, Calm, Ballots, Agreed, Acked, Reads, CacheCoherent, Next
    PROVE  CacheCoherent'
<1>1. \A k \in Key : masterCache[k] \in {None} \cup Current(k)
  BY Zenon DEF CacheCoherent, Current
<1>2. SUFFICES \A k \in Key : masterCache'[k] \in {None} \cup Current(k)'
  BY Zenon DEF CacheCoherent, Current
<1>3. CASE Flush
  <2>1. /\ \A j \in Key : j # rqst.key => Current(j)' = Current(j)
        /\ Current(rqst.key)' = {rqst.val} /\ rqst.key \in Key /\ rqst' = rqst
    BY <1>3, FlushCurrent, Zenon
  <2>2. /\ masterCache'[rqst.key] \in {None, rqst.val}
        /\ \A j \in Key \ {rqst.key} : masterCache'[j] \in {None, masterCache[j]}
    <3>1. CASE rqst.type = "putreq"
      BY <1>3, <2>1, <3>1, CachePutValue, Zenon DEF Flush
    <3>2. CASE rqst.type # "putreq"
      BY <1>3, <2>1, <3>2, Zenon DEF Flush, TypeOK
    <3> QED
      BY <3>1, <3>2, Zenon
  <2>3. Current(rqst.key)' = {rqst.val} /\ \A k \in Key : k = rqst.key => Current(k)' = Current(rqst.key)'
    BY <2>1, Zenon DEF Current
  <2> QED
    BY <1>1, <2>1, <2>2, <2>3, Zenon
<1>4. ASSUME ~Flush
      PROVE  \A k \in Key : Current(k) \subseteq Current(k)'
  BY <1>4, CurrentNext, Zenon
<1>5. ASSUME ~Flush, masterCache' = masterCache
      PROVE  \A k \in Key : masterCache'[k] \in {None} \cup Current(k)'
  BY <1>1, <1>4, <1>5, Zenon
<1>6. ASSUME NEW r \in Reader, GetReceive(r), ~Flush
      PROVE  \A k \in Key : masterCache'[k] \in {None} \cup Current(k)'
  <2>1. conn[r].type = "resp" /\ conn[r].val \in Current(getKey[r])
    BY <1>6, Received, Zenon
  <2>2. getKey[r] \in Key
    BY <1>6, ReaderFacts, Zenon DEF GetReceive
  <2>3. IF conn[r].val # None THEN CachePut(getKey[r], conn[r].val) ELSE masterCache' = masterCache
    BY <1>6, <2>1, Zenon DEF GetReceive, GotValue
  <2>4. CASE masterCache' = masterCache
    BY <1>5, <1>6, <2>4, Zenon
  <2>5. CASE CachePut(getKey[r], conn[r].val)
    <3>1. /\ masterCache'[getKey[r]] = conn[r].val
          /\ \A j \in Key \ {getKey[r]} : masterCache'[j] \in {None, masterCache[j]}
      BY <2>2, <2>5, CachePutValue, Zenon
    <3> QED
      BY <1>1, <1>4, <1>6, <2>1, <2>2, <3>1, Zenon
  <2> QED
    BY <2>3, <2>4, <2>5, Zenon
<1>7. ASSUME ~Flush
      PROVE  masterCache' = masterCache \/ \E r \in Reader : GetReceive(r)
  BY <1>7, StepCases, Zenon DEF Request, Phase1Send, Phase1Connect, Phase1Timeout, Phase1Receive,
       Phase2Send, Phase2Timeout, Phase2Receive, NextVote, GetSend, GetConnect, GetTimeout,
       GotValue, GetStart, Idle
<1> QED
  BY <1>3, <1>5, <1>6, <1>7, Zenon

\* Every step keeps it that a reader has returned what it was permitted to.
LEMMA ReturnsNext ==
    ASSUME TypeOK, Calm, Ballots, Agreed, Acked, Reads, CacheCoherent, ReadsCommitted, Next
    PROVE  ReadsCommitted'
<1> SUFFICES ASSUME NEW r \in Reader, getting'[r] = "idle" PROVE returned'[r] \in permitted'[r]
  BY Zenon DEF ReadsCommitted
<1>0. /\ getting \in [Reader -> {"idle", "primary", "secondary"}]
      /\ returned \in [Reader -> OptValue] /\ permitted \in [Reader -> SUBSET OptValue]
  BY Zenon DEF TypeOK
<1>1. ASSUME getting'[r] = getting[r], returned'[r] = returned[r], permitted[r] \subseteq permitted'[r]
      PROVE  returned'[r] \in permitted'[r]
  BY <1>1, Zenon DEF ReadsCommitted
<1>2. ASSUME UNCHANGED <<getVars, permitted>>
      PROVE  returned'[r] \in permitted'[r]
  BY <1>1, <1>2, Zenon DEF getVars
<1>3. CASE Phase1Connect \/ Phase1Timeout \/ Phase1Receive
  <2>1. PICK a \in BOOLEAN : NextVote(a)
    BY <1>3, Zenon DEF Phase1Connect, Phase1Timeout, Phase1Receive
  <2>2. UNCHANGED getVars /\ (permitted' = permitted \/ PermitNewValue)
    BY <2>1, Zenon DEF NextVote
  <2>3. permitted[r] \subseteq permitted'[r]
    BY <2>2, Zenon DEF PermitNewValue
  <2> QED
    BY <1>1, <2>2, <2>3, Zenon DEF getVars
<1>4. ASSUME NEW q \in Reader, NEW v \in OptValue, GotValue(q, v),
             permitted' = permitted \/ PermitNoSuchKey(q), v \in permitted'[q]
      PROVE  returned'[r] \in permitted'[r]
  <2>1. permitted[r] \subseteq permitted'[r]
    BY <1>0, <1>4, Zenon DEF PermitNoSuchKey
  <2>2. CASE q = r
    BY <1>0, <1>4, <2>2, Zenon DEF GotValue
  <2>3. CASE q # r
    <3>1. getting'[r] = getting[r] /\ returned'[r] = returned[r]
      BY <1>0, <1>4, <2>3, Zenon DEF GotValue
    <3> QED
      BY <1>1, <2>1, <3>1, Zenon
  <2> QED
    BY <2>2, <2>3, Zenon
<1>5. ASSUME NEW q \in Reader, GetConnect(q) \/ GetTimeout(q)
      PROVE  returned'[r] \in permitted'[r]
  <2>1. GotValue(q, None) /\ PermitNoSuchKey(q)
    BY <1>5, Zenon DEF GetConnect, GetTimeout
  <2>2. None \in permitted'[q] /\ None \in OptValue
    BY <1>0, <2>1, Zenon DEF PermitNoSuchKey, OptValue
  <2> QED
    BY <1>4, <2>1, <2>2, Zenon
<1>6. ASSUME NEW q \in Reader, GetReceive(q)
      PROVE  returned'[r] \in permitted'[r]
  <2>1. GotValue(q, conn[q].val) /\ permitted' = permitted /\ conn[q].val \in permitted[q]
    BY <1>6, Received, Zenon DEF GetReceive
  <2>2. conn[q].val \in OptValue
    BY <1>0, <2>1, Zenon
  <2> QED
    BY <1>4, <2>1, <2>2, Zenon
<1>7. ASSUME NEW q \in Reader, NEW k \in Key, GetStart(q, k)
      PROVE  returned'[r] \in permitted'[r]
  <2>1. CASE q # r
    BY <1>0, <1>1, <1>7, <2>1, Zenon DEF GetStart
  <2>2. CASE q = r
    <3>1. masterCache[k] # None /\ returned'[r] = masterCache[k]
      BY <1>0, <1>7, <2>2, Zenon DEF GetStart
    <3>2. permitted'[r] = Current(k)
      BY <1>0, <1>7, <2>2, Zenon DEF GetStart, Current
    <3>3. masterCache[k] \in {None} \cup Current(k)
      BY Zenon DEF CacheCoherent, Current
    <3> QED
      BY <3>1, <3>2, <3>3, Zenon
  <2> QED
    BY <2>1, <2>2, Zenon
<1> QED
  BY <1>2, <1>3, <1>5, <1>6, <1>7, StepCases, Zenon DEF Request, Phase1Send, Phase2Send, Phase2Timeout,
     Phase2Receive, Flush, GetSend, Idle

-----------------------------------------------------------------------------
(* The theorems.                                                           *)

\* At the start nobody reads and the cache is empty.
LEMMA ReadsInit == Init => ReadsInv
<1> SUFFICES ASSUME Init PROVE ReadsInv
  BY Zenon
<1>1. /\ \A k \in Key : masterCache[k] = None
      /\ \A r \in Reader : getting[r] = "idle" /\ conn[r] = Closed
      /\ \A r \in Reader : returned[r] = None /\ permitted[r] = {None}
  BY Callers, Zenon DEF Init, SlaveInit
<1> QED
  BY <1>1, Zenon DEF ReadsInv, Reads, ReaderOK, CacheCoherent, ReadsCommitted

\* Every step keeps the invariant.
LEMMA ReadsNext ==
    ASSUME Calm, CommitInv, CommitInv', ReadsInv, [Next]_vars
    PROVE  ReadsInv'
<1>1. CASE Next
  <2>1. Reads'
    <3>1. ASSUME NEW r \in Reader
          PROVE  ReaderOK(r)'
      <4>1. ReaderOK(r)
        BY Zenon DEF ReadsInv, Reads
      <4> QED
        BY <1>1, <4>1, ReaderNext, Zenon DEF CommitInv, PipelineInv, AgreementInv
    <3> QED
      BY <3>1, Zenon DEF Reads
  <2>2. CacheCoherent' /\ ReadsCommitted'
    BY <1>1, CacheNext, ReturnsNext, Zenon DEF CommitInv, PipelineInv, AgreementInv, ReadsInv
  <2> QED
    BY <2>1, <2>2, Zenon DEF ReadsInv
<1>2. CASE UNCHANGED vars
  <2>1. UNCHANGED <<slaveVars, masterVars, masterCache, getVars, db, permitted>>
    BY <1>2, Zenon DEF vars
  <2>2. ASSUME NEW r \in Reader
        PROVE  ReaderOK(r)'
    <3>1. ReaderOK(r)
      BY Zenon DEF ReadsInv, Reads
    <3> QED
      BY <2>1, <3>1, Zenon DEF ReaderOK, Reading, Asking, Asked, Told, Jobs, Current, Committing,
         slaveVars, masterVars, getVars
  <2>3. Reads'
    BY <2>2, Zenon DEF Reads
  <2>4. CacheCoherent' /\ ReadsCommitted'
    BY <2>1, Zenon DEF ReadsInv, CacheCoherent, ReadsCommitted, Committing, masterVars, getVars
  <2> QED
    BY <2>3, <2>4, Zenon DEF ReadsInv
<1> QED
  BY <1>1, <1>2, Zenon

\* The invariants hold together.
LEMMA ReadsInvariant ==
    ASSUME Calm
    PROVE  Spec => []ReadsInv
<1>1. Init => ReadsInv
  BY ReadsInit, Zenon
<1>2. CommitInv /\ CommitInv' /\ ReadsInv /\ [Next]_vars => ReadsInv'
  BY ReadsNext, Zenon
<1> QED
  BY <1>1, <1>2, CommitInvariant, PTL DEF Spec

\* Where slaves have one worker, requests reach them in time and no crash tears a
\* log, the master's cache holds no value that a key neither has nor is being given, although
\* handleGet fills it while requests run.
THEOREM CacheIsCoherent ==
    ASSUME Calm
    PROVE  Spec => []CacheCoherent
<1>1. ReadsInv => CacheCoherent
  BY Zenon DEF ReadsInv
<1> QED
  BY <1>1, ReadsInvariant, PTL

\* Under the same conditions handleGet returns a value its key had during the call,
\* or ERROR_NO_SUCH_KEY where the key was missing or a slave could not be asked.
THEOREM ReadsAreCommitted ==
    ASSUME Calm
    PROVE  Spec => []ReadsCommitted
<1>1. ReadsInv => ReadsCommitted
  BY Zenon DEF ReadsInv
<1> QED
  BY <1>1, ReadsInvariant, PTL
=============================================================================
