---------------------------- MODULE TPCAgreement ----------------------------
(***************************************************************************)
(* Atomic commitment: the logs of both replicas hold the effect of the     *)
(* requests that committed and nothing else, so each request takes effect  *)
(* wholly or not at all, as AtomicStore promises.                          *)
(***************************************************************************)
EXTENDS TPCPipeline

-----------------------------------------------------------------------------
(* The inductive invariant.                                                *)

\* Each slave has one worker, no request reaches a slave after the slave's own
\* timeout, and no crash falls into the rewriting of a log.
Calm == Connections = 1 /\ ~SlowNetwork /\ ~TornFlush

\* In a commit the j-th replica has voted, or has carried out the request.
Carried(j) ==
    /\ log[Rep(j)] # <<>>
    /\ \/ /\ LastEntry(Rep(j)) = rqst
          /\ Durable(Rep(j))[rqst.key] = db[rqst.key]
          /\ phase = "phase2" /\ j >= turn
       \/ /\ LastEntry(Rep(j)).type = "commit"
          /\ Durable(Rep(j))[rqst.key] = rqst.val

\* Outside a commit the logs of both replicas give the committed value.
Agreed ==
    /\ \A k \in Key : \A j \in 1..2 :
          ~(Committing /\ rqst.key = k) => Durable(Replicas[k][j])[k] = db[k]
    /\ Committing => \A j \in 1..2 : Carried(j)

\* The master is answered only after the commit has been carried out.
Acked ==
    /\ phase = "phase1" => ~invalidFormat
    /\ phase = "flush" => ~globalAbort
    /\ Committing =>
          /\ ~invalidFormat
          /\ \A s \in Slave : client[s] = Coord =>
                /\ LastEntry(s).type = "commit"
                /\ step[s] = "reply" => resp[s].type = "ack"
          /\ conn[Coord].type \in Answers =>
                LastEntry(CurrSlave).type = "commit" /\ conn[Coord].type = "ack"

AgreementInv == Agreed /\ Acked

-----------------------------------------------------------------------------
(* The logs.                                                               *)

\* Phase 1 ends in a commit only with the votes of both replicas.
LEMMA BothVoted ==
    ASSUME TypeOK, Ballots, phase = "phase1", NEW a \in BOOLEAN, NextVote(a),
           ~a => Voted(CurrSlave), Committing'
    PROVE  /\ Voted(Rep(1)) /\ Voted(Rep(2))
           /\ turn = 2 /\ turn' = 1 /\ phase' = "phase2" /\ ~globalAbort'
<1>1. (turn = 1 /\ CurrSlave = Rep(1)) \/ (turn = 2 /\ CurrSlave = Rep(2))
  BY MasterFacts, Zenon
<1>2. phase' \in {"phase2", "flush"} /\ ~globalAbort'
  BY Zenon DEF Committing
<1>3. turn = 2 /\ turn' = 1 /\ phase' = "phase2"
  BY <1>1, <1>2, Zenon DEF NextVote
<1>4. ~globalAbort /\ ~a
  BY <1>2, Zenon DEF NextVote, TypeOK
<1> QED
  BY <1>1, <1>2, <1>3, <1>4, Zenon DEF Ballots

\* Steps that neither log anything nor move the request.
LEMMA StillAgreed ==
    ASSUME Agreed, UNCHANGED <<log, hist, phase, rqst, turn, globalAbort, db>>
    PROVE  Agreed'
BY Zenon DEF Agreed, Carried, Committing, Durable, LastEntry, Rep

\* Starting a request, and counting its votes.
LEMMA BeginAgreed ==
    ASSUME TypeOK, Agreed, phase \in {"idle", "phase1"}, UNCHANGED <<log, hist, db>>,
           \/ phase' \in {"idle", "phase1"}
           \/ /\ Voted(Rep(1)) /\ Voted(Rep(2)) /\ rqst' = rqst
              /\ phase = "phase1" /\ phase' = "phase2" /\ turn' = 1
    PROVE  Agreed'
<1>1. ~Committing /\ \A s \in Slave : Durable(s)' = Durable(s)
  BY Zenon DEF Committing, Durable
<1>2. \A k \in Key : \A j \in 1..2 : (Durable(Replicas[k][j])[k] = db[k])'
  BY <1>1, Zenon DEF Agreed, Durable
<1>3. ASSUME Committing', NEW j \in 1..2
      PROVE  Carried(j)'
  <2>1. /\ Voted(Rep(1)) /\ Voted(Rep(2)) /\ rqst' = rqst
        /\ phase = "phase1" /\ phase' = "phase2" /\ turn' = 1
    BY <1>3, Zenon DEF Committing
  <2>2. rqst.key \in Key
    BY <2>1, MasterFacts, Zenon
  <2>3. j >= turn' /\ Rep(j)' = Rep(j)
    BY <2>1 DEF Rep
  <2>4. Durable(Rep(j))[rqst.key] = db[rqst.key]
    BY <1>1, <2>2, Zenon DEF Agreed, Rep
  <2>5. Voted(Rep(j))
    BY <2>1
  <2> QED
    BY <2>1, <2>3, <2>4, <2>5, Zenon DEF Carried, Voted, LastEntry, Durable
<1> QED
  BY <1>2, <1>3, Zenon DEF Agreed, Carried

\* An answer in phase 2 moves the request on, past a replica that has carried it
\* out, or ends an aborted one.
LEMMA AnswerAgreed ==
    ASSUME TypeOK, Agreed, Acked, Phase2Receive
    PROVE  /\ Agreed'
           /\ db' = db /\ rqst' = rqst /\ globalAbort' = globalAbort
           /\ (Committing' <=> Committing)
           /\ IF globalAbort THEN phase' \in {"phase2", "idle"}
              ELSE phase' \in {"phase2", "flush"} /\ ~invalidFormat'
<1>1. /\ phase = "phase2" /\ UNCHANGED <<log, hist, rqst, globalAbort>>
      /\ globalAbort \in BOOLEAN
      /\ conn[Coord].type \in Answers
      /\ invalidFormat' = (invalidFormat \/ conn[Coord].type # "ack")
  BY Zenon DEF Phase2Receive, Receive, Answers, TypeOK
<1>2. (turn = 1 /\ CurrSlave = Rep(1)) \/ (turn = 2 /\ CurrSlave = Rep(2))
  BY <1>1, MasterFacts, Zenon
<1>3. CASE globalAbort
  <2>1. db' = db /\ phase' \in {"phase2", "idle"}
    BY <1>1, <1>3, Zenon DEF Phase2Receive, Done
  <2>2. ~Committing /\ ~Committing'
    BY <1>1, <1>3, Zenon DEF Committing
  <2>3. \A k \in Key : \A j \in 1..2 : (Durable(Replicas[k][j])[k] = db[k])'
    BY <1>1, <2>1, <2>2, Zenon DEF Agreed, Durable
  <2>4. Agreed'
    BY <2>2, <2>3, Zenon DEF Agreed
  <2> QED
    BY <1>1, <1>3, <2>1, <2>2, <2>4, Zenon
<1>4. CASE ~globalAbort
  <2>1. Committing
    BY <1>1, <1>4, Zenon DEF Committing
  <2>2. ~invalidFormat' /\ LastEntry(CurrSlave).type = "commit"
    BY <1>1, <2>1, Zenon DEF Acked
  <2>3. db' = db /\ phase' = (IF turn = 1 THEN "phase2" ELSE "flush") /\ (turn = 1 => turn' = 2)
    BY <1>1, <1>2, <1>4, <2>2 DEF Phase2Receive
  <2>4. Committing'
    BY <1>1, <1>4, <2>3, Zenon DEF Committing
  <2>5. ASSUME NEW j \in 1..2
        PROVE  Carried(j)'
    <3>1. Carried(j) /\ Rep(j)' = Rep(j)
      BY <1>1, <2>1, Zenon DEF Agreed, Carried, Rep
    <3>2. IsUpdate(rqst) /\ rqst.type # "commit"
      BY <1>1, MasterFacts, Zenon DEF IsUpdate
    <3>3. LastEntry(Rep(j)).type = "commit" \/ (turn = 1 /\ j = 2)
      BY <1>2, <2>2, <2>5, <3>1 DEF Carried
    <3>4. UNCHANGED <<LastEntry(Rep(j)), log[Rep(j)], Durable(Rep(j)), rqst, db>>
      BY <1>1, <2>3, <3>1, Zenon DEF LastEntry, Durable
    <3>5. CASE LastEntry(Rep(j)).type = "commit"
      <4>1. Durable(Rep(j))[rqst.key] = rqst.val
        BY <3>1, <3>2, <3>5, Zenon DEF Carried
      <4> QED
        BY <3>1, <3>4, <3>5, <4>1, Zenon DEF Carried
    <3>6. CASE turn = 1 /\ j = 2
      <4>1. phase' = "phase2" /\ j >= turn'
        BY <2>3, <3>6
      <4> QED
        BY <3>1, <3>4, <4>1, Zenon DEF Carried
    <3> QED
      BY <3>3, <3>5, <3>6, Zenon
  <2>6. Agreed'
    BY <1>1, <2>1, <2>3, <2>4, <2>5, Zenon DEF Agreed, Carried, Durable
  <2> QED
    BY <1>1, <1>4, <2>1, <2>2, <2>3, <2>4, <2>6, Zenon
<1> QED
  BY <1>1, <1>3, <1>4, Zenon

\* Flushing ends a commit that both replicas have carried out.
LEMMA FlushAgreed ==
    ASSUME TypeOK, Agreed, Acked, Flush
    PROVE  /\ Agreed'
           /\ db' = [db EXCEPT ![rqst.key] = rqst.val]
           /\ Committing /\ ~Committing'
<1>1. /\ phase = "flush" /\ phase' = "idle" /\ UNCHANGED <<log, hist, rqst>>
      /\ ~globalAbort
  BY Zenon DEF Flush, slaveVars, Done, Acked
<1>2. db' = [db EXCEPT ![rqst.key] = rqst.val] /\ db \in [Key -> OptValue]
  BY <1>1, Zenon DEF Flush, Done, TypeOK
<1>3. Committing /\ ~Committing' /\ rqst.key \in Key
  BY <1>1, MasterFacts, Zenon DEF Committing
<1>4. ASSUME NEW k \in Key, NEW j \in 1..2
      PROVE  (Durable(Replicas[k][j])[k] = db[k])'
  <2>1. Durable(Replicas[k][j])' = Durable(Replicas[k][j])
    BY <1>1, Zenon DEF Durable
  <2>2. CASE k = rqst.key
    <3>1. Rep(j) = Replicas[k][j]
      BY <2>2, Zenon DEF Rep
    <3>2. Durable(Rep(j))[k] = rqst.val
      BY <1>1, <1>3, <2>2, Zenon DEF Agreed, Carried
    <3> QED
      BY <1>2, <2>1, <2>2, <3>1, <3>2, Zenon
  <2>3. CASE k # rqst.key
    BY <1>2, <2>1, <2>3, Zenon DEF Agreed
  <2> QED
    BY <2>2, <2>3, Zenon
<1>5. Agreed'
  BY <1>3, <1>4, Zenon DEF Agreed
<1> QED
  BY <1>2, <1>3, <1>5, Zenon

\* In a commit the worker of a replica gets no job of a request but the commit, and
\* finds the request at the end of its log or has carried it out already.
LEMMA CommitJob ==
    ASSUME TypeOK, Connections = 1, Pipeline, Agreed, NEW s \in Slave, Run(s), Committing,
           NEW m, m = queue[s][1].msg, m.type # "getreq"
    PROVE  /\ phase = "phase2" /\ m = Commit /\ s = CurrSlave
           /\ log[s] # <<>>
           /\ IF IsUpdate(LastEntry(s)) THEN LastEntry(s) = rqst
              ELSE LastEntry(s).type = "commit"
<1> USE TypeParts
<1>1. 1 \in Jobs(s) /\ TPCJob(s, 1)
  BY RunSteps, Zenon DEF TPCJob
<1>2. Belongs(s, m)
  BY <1>1, Zenon DEF Pipeline, Placed
<1>3. phase = "phase2" /\ m = Commit /\ s = CurrSlave
  BY <1>2, Zenon DEF Belongs, Committing, Decision
<1>4. IsUpdate(rqst) /\ ((turn = 1 /\ CurrSlave = Rep(1)) \/ (turn = 2 /\ CurrSlave = Rep(2)))
  BY <1>3, MasterFacts, Zenon
<1>5. \E j \in 1..2 : s = Rep(j)
  BY <1>3, <1>4
<1>6. log[s] # <<>> /\ (LastEntry(s) = rqst \/ LastEntry(s).type = "commit")
  BY <1>5, Zenon DEF Agreed, Carried
<1> QED
  BY <1>3, <1>4, <1>6, Zenon DEF IsUpdate

\* Running a job: only a commit changes what a log gives, only at the replica it
\* is sent to and only for the key of the request.
LEMMA RunAgreed ==
    ASSUME TypeOK, Calm, RecoveryInv, Pipeline, Agreed, NEW s \in Slave, Run(s), Idle
    PROVE  Agreed'
<1> USE TypeParts
<1>0. Connections = 1 /\ ~SlowNetwork
  BY Zenon DEF Calm
<1>1. UNCHANGED <<phase, rqst, turn, globalAbort, db>>
  BY Zenon DEF Idle, masterVars
<1>2. (Committing' <=> Committing) /\ Rep(1)' = Rep(1) /\ Rep(2)' = Rep(2)
  BY <1>1, Zenon DEF Committing, Rep
<1>3. PICK m : m = queue[s][1].msg
  BY Zenon
<1>4. \A t \in Slave \ {s} : SameLog(t)
  BY <1>0, <1>3, RunOutcome, Zenon
<1>5. \A t \in Slave : SameLog(t) => Durable(t)' = Durable(t) /\ LastEntry(t)' = LastEntry(t)
  BY Zenon DEF SameLog, Durable, LastEntry
<1>6. \A k \in Key, j \in 1..2 : Replicas[k][j] \in Slave
  BY MasterAssumption, Zenon
<1>7. CASE SameLog(s)
  <2>1. \A t \in Slave : Durable(t)' = Durable(t) /\ LastEntry(t)' = LastEntry(t) /\ log'[t] = log[t]
    BY <1>4, <1>5, <1>7, Zenon DEF SameLog
  <2>2. ASSUME NEW k \in Key, NEW j \in 1..2, ~(Committing' /\ rqst'.key = k)
        PROVE  (Durable(Replicas[k][j])[k] = db[k])'
    BY <1>1, <1>2, <1>6, <2>1, <2>2, Zenon DEF Agreed
  <2>3. ASSUME Committing', NEW j \in 1..2
        PROVE  Carried(j)'
    <3>1. Carried(j) /\ Rep(j) \in Slave /\ Rep(j)' = Rep(j)
      BY <1>1, <1>2, <2>3, MasterFacts DEF Agreed, Carried, Committing, Rep
    <3> QED
      BY <1>1, <2>1, <3>1, Zenon DEF Carried
  <2> QED
    BY <2>2, <2>3, Zenon DEF Agreed, Carried
<1>8. CASE ~Committing /\ Durable(s)' = Durable(s)
  <2>1. \A t \in Slave : Durable(t)' = Durable(t)
    BY <1>4, <1>5, <1>8, Zenon
  <2>2. ASSUME NEW k \in Key, NEW j \in 1..2
        PROVE  (Durable(Replicas[k][j])[k] = db[k])'
    BY <1>1, <1>6, <1>8, <2>1, Zenon DEF Agreed
  <2> QED
    BY <1>2, <1>8, <2>2, Zenon DEF Agreed
<1>9. CASE /\ Committing /\ m = Commit /\ s = CurrSlave
           /\ Logged(s, m, Perform(Durable(s), LastEntry(s))) /\ LastEntry(s) = rqst
  <2>1. rqst.key \in Key
    BY <1>9, MasterFacts, Zenon DEF Committing
  <2>2. Durable(s) \in [Key -> OptValue]
    BY LastType, Zenon
  <2>3. Durable(s)' = [Durable(s) EXCEPT ![rqst.key] = rqst.val]
    BY <1>9, Zenon DEF Logged, Perform
  <2>4. ASSUME NEW k \in Key, NEW j \in 1..2, ~(Committing' /\ rqst'.key = k)
        PROVE  (Durable(Replicas[k][j])[k] = db[k])'
    <3>1. k # rqst.key /\ Durable(Replicas[k][j])[k] = db[k]
      BY <1>1, <1>2, <1>9, <2>4, Zenon DEF Agreed
    <3>2. Durable(Replicas[k][j])'[k] = Durable(Replicas[k][j])[k]
      BY <1>4, <1>5, <1>6, <2>2, <2>3, <3>1, Zenon
    <3> QED
      BY <1>1, <3>1, <3>2, Zenon
  <2>5. ASSUME NEW j \in 1..2
        PROVE  Carried(j)'
    <3>1. Carried(j) /\ Rep(j) \in Slave /\ Rep(j)' = Rep(j)
      BY <1>1, <1>2, <1>9, MasterFacts DEF Agreed, Carried, Committing, Rep
    <3>2. CASE Rep(j) = s
      <4>1. log'[s] # <<>> /\ LastEntry(s)'.type = "commit" /\ Durable(s)'[rqst.key] = rqst.val
        BY <1>9, <2>1, <2>2, <2>3 DEF Logged, Commit
      <4> QED
        BY <1>1, <3>1, <3>2, <4>1, Zenon DEF Carried
    <3>3. CASE Rep(j) # s
      BY <1>1, <1>4, <1>5, <3>1, <3>3, Zenon DEF Carried, SameLog
    <3> QED
      BY <3>2, <3>3, Zenon
  <2> QED
    BY <2>4, <2>5, Zenon DEF Agreed, Carried
<1>10. CASE m.type = "getreq"
  BY <1>0, <1>3, <1>7, <1>10, RunOutcome, Zenon DEF IsUpdate
<1>11. CASE m.type # "getreq" /\ ~Committing /\ ~SameLog(s)
  <2>1. m.type # "commit"
    <3>1. ASSUME m.type = "commit" PROVE FALSE
      <4>1. Belongs(s, m)
        BY <1>0, <1>3, <1>11, RunSteps, Zenon DEF Pipeline, Placed, TPCJob
      <4>2. phase # "idle"
        BY <4>1, Zenon DEF Belongs
      <4>3. IsUpdate(rqst)
        BY <4>2, MasterFacts, Zenon
      <4> QED
        BY <1>11, <3>1, <4>1, <4>3 DEF Belongs, IsUpdate, Decision, Abort, Committing
    <3> QED
      BY <3>1, Zenon
  <2> QED
    BY <1>0, <1>3, <1>8, <1>11, <2>1, RunOutcome, Zenon DEF Logged
<1>12. CASE m.type # "getreq" /\ Committing /\ ~SameLog(s)
  <2>1. /\ m = Commit /\ s = CurrSlave /\ log[s] # <<>>
        /\ IF IsUpdate(LastEntry(s)) THEN LastEntry(s) = rqst ELSE LastEntry(s).type = "commit"
    BY <1>0, <1>3, <1>12, CommitJob
  <2>2. m.type = "commit" /\ ~IsUpdate(m)
    BY <2>1, Zenon DEF Commit, IsUpdate
  <2>3. Logged(s, m, Perform(Durable(s), LastEntry(s))) /\ IsUpdate(LastEntry(s))
    BY <1>0, <1>3, <1>12, <2>2, RunOutcome, Zenon
  <2> QED
    BY <1>9, <1>12, <2>1, <2>3, Zenon
<1> QED
  BY <1>7, <1>10, <1>11, <1>12, Zenon

\* What counting a vote needs to know of it.
LEMMA CountedVote ==
    ASSUME TypeOK, Ballots, Phase1Connect \/ Phase1Timeout \/ Phase1Receive
    PROVE  /\ phase = "phase1"
           /\ UNCHANGED <<log, hist, step, resp>>
           /\ conn'[Coord] = Closed
           /\ \E a \in BOOLEAN : NextVote(a) /\ (~a => Voted(CurrSlave))
<1> USE TypeParts
<1>0. conn \in [Caller -> Socket] /\ Coord \in Caller
  BY Callers, Zenon DEF SlaveTypeOK
<1>1. CASE Phase1Connect
  BY <1>0, <1>1, Zenon DEF Phase1Connect, CannotConnect
<1>2. CASE Phase1Timeout
  BY <1>0, <1>2, Zenon DEF Phase1Timeout, Timeout
<1>3. CASE Phase1Receive
  <2>1. conn[Coord].type = "ready" => Voted(CurrSlave)
    BY <1>3, Zenon DEF Phase1Receive, Ballots
  <2> QED
    BY <1>0, <1>3, <2>1, Zenon DEF Phase1Receive, Receive
<1> QED
  BY <1>1, <1>2, <1>3, Zenon

\* Every step keeps the replicas in agreement.
LEMMA AgreedNext ==
    ASSUME TypeOK, Calm, RecoveryInv, Pipeline, Ballots, Agreed, Acked, Next
    PROVE  Agreed'
<1> USE TypeParts
<1>1. ASSUME UNCHANGED <<log, hist, masterVars, db>>
      PROVE  Agreed'
  BY <1>1, StillAgreed, Zenon DEF masterVars
<1>2. ASSUME NEW m \in TPCRequest, Request(m)
      PROVE  Agreed'
  BY <1>2, BeginAgreed, Zenon DEF Request, slaveVars
<1>3. CASE Phase1Connect \/ Phase1Timeout \/ Phase1Receive
  <2>1. /\ phase = "phase1" /\ UNCHANGED <<log, hist>>
        /\ \E a \in BOOLEAN : NextVote(a) /\ (~a => Voted(CurrSlave))
    BY <1>3, CountedVote, Zenon
  <2>2. PICK a \in BOOLEAN : NextVote(a) /\ (~a => Voted(CurrSlave))
    BY <2>1, Zenon
  <2>3. db' = db /\ rqst' = rqst /\ phase' \in {"phase1", "phase2"}
    BY <2>2, Zenon DEF NextVote
  <2>4. CASE Committing'
    <3>1. Voted(Rep(1)) /\ Voted(Rep(2)) /\ turn' = 1 /\ phase' = "phase2"
      BY <2>1, <2>2, <2>4, BothVoted, Zenon
    <3> QED
      BY <2>1, <2>3, <3>1, BeginAgreed, Zenon
  <2>5. CASE ~Committing'
    <3>1. ~Committing
      BY <2>1, Zenon DEF Committing
    <3>2. \A k \in Key : \A j \in 1..2 : (Durable(Replicas[k][j])[k] = db[k])'
      BY <2>1, <2>3, <3>1, Zenon DEF Agreed, Durable
    <3> QED
      BY <2>5, <3>2, Zenon DEF Agreed
  <2> QED
    BY <2>4, <2>5, Zenon
<1>4. CASE Phase2Receive
  BY <1>4, AnswerAgreed, Zenon
<1>5. CASE Flush
  BY <1>5, FlushAgreed, Zenon
<1>6. CASE Phase1Send \/ Phase2Send \/ Phase2Timeout
  BY <1>1, <1>6, Zenon DEF Phase1Send, Phase2Send, Phase2Timeout
<1>7. ASSUME NEW r \in Reader, GetStep(r) \/ \E k \in Key : GetStart(r, k)
      PROVE  Agreed'
  BY <1>1, <1>7, Zenon DEF GetStep, GetSend, GetConnect, GetTimeout, GetReceive, GetStart, GotValue, slaveVars
<1>8. ASSUME NEW s \in Slave, Run(s), Idle
      PROVE  Agreed'
  BY <1>8, RunAgreed, Zenon
<1>9. ASSUME NEW s \in Slave, Inner(s) \/ Reply(s) \/ Crash(s) \/ CrashInFlush(s), Idle
      PROVE  Agreed'
  <2>1. ~CrashInFlush(s)
    BY Zenon DEF CrashInFlush, Calm
  <2>2. UNCHANGED <<log, hist>>
    BY <1>9, <2>1, InnerSteps, Zenon DEF Reply, Crash
  <2> QED
    BY <1>1, <1>9, <2>2, Zenon DEF Idle
<1> QED
  BY <1>2, <1>3, <1>4, <1>5, <1>6, <1>7, <1>8, <1>9, StepCases, Zenon DEF GetStep

-----------------------------------------------------------------------------
(* The answers in phase 2.                                                 *)

\* A commit is under way, and the master has not been told that it failed.
Answering ==
    /\ \A s \in Slave : client[s] = Coord =>
          /\ LastEntry(s).type = "commit"
          /\ step[s] = "reply" => resp[s].type = "ack"
    /\ conn[Coord].type \in Answers =>
          LastEntry(CurrSlave).type = "commit" /\ conn[Coord].type = "ack"

\* Nothing is under way where the master has closed its socket.
LEMMA NotAnswering ==
    ASSUME TypeOK', Sockets', conn'[Coord] = Closed
    PROVE  Answering'
<1>1. SlaveTypeOK' /\ conn'[Coord] # Open /\ conn'[Coord].type \notin Answers
  BY DEF TypeOK, Closed, Open, Answers
<1>2. \A s \in Slave : client'[s] # Coord
  BY <1>1, Callers, UnheardNext, Zenon
<1> QED
  BY <1>1, <1>2, Zenon DEF Answering

\* Steps that keep the request, and what its slaves do for it.
LEMMA StillAcked ==
    ASSUME Acked, UNCHANGED <<masterVars, log>>,
           Committing => \A s \in Slave : client'[s] = Coord =>
              client[s] = Coord /\ (step'[s] = "reply" => step[s] = "reply" /\ resp'[s] = resp[s]),
           conn'[Coord] = conn[Coord] \/ conn'[Coord].type \notin Answers
    PROVE  Acked'
<1>1. /\ UNCHANGED <<phase, rqst, turn, globalAbort, invalidFormat>>
      /\ (Committing' <=> Committing) /\ CurrSlave' = CurrSlave
      /\ \A s : LastEntry(s)' = LastEntry(s)
      /\ LastEntry(CurrSlave)' = LastEntry(CurrSlave)
  BY Zenon DEF masterVars, Committing, CurrSlave, LastEntry
<1>2. ASSUME Committing
      PROVE  Answering'
  <2>1. Answering
    BY <1>2, Zenon DEF Acked, Answering
  <2> QED
    BY <1>1, <1>2, <2>1, Zenon DEF Answering
<1> QED
  BY <1>1, <1>2, Zenon DEF Acked, Answering

\* Running a job of the request in a commit.
LEMMA RunAcked ==
    ASSUME TypeOK, TypeOK', Calm, Sockets, Pipeline, Agreed, Acked, NEW s \in Slave, Run(s), Idle
    PROVE  Acked'
<1> USE TypeParts
<1>0. Connections = 1 /\ ~SlowNetwork
  BY Zenon DEF Calm
<1>1. /\ UNCHANGED <<phase, rqst, turn, globalAbort, invalidFormat>>
      /\ (Committing' <=> Committing) /\ CurrSlave' = CurrSlave
  BY Zenon DEF Idle, masterVars, Committing, CurrSlave
<1>2. PICK m : m = queue[s][1].msg
  BY Zenon
<1>3. /\ \A t \in Slave \ {s} : SameLog(t) /\ step'[t] = step[t] /\ resp'[t] = resp[t]
      /\ conn' = conn /\ 1 \in Jobs(s)
  BY <1>0, <1>2, RunOutcome, RunSteps, Zenon
<1>4. \A t \in Slave : SameLog(t) => LastEntry(t)' = LastEntry(t)
  BY Zenon DEF SameLog, LastEntry
<1>5. client' = [client EXCEPT ![s] = queue[s][1].from]
  <2>1. PICK i \in 1..Len(queue[s]) : Take(s, i)
    BY <1>0, RunSteps, Zenon
  <2> QED
    BY <1>0, <2>1, TakeJobs, Zenon
<1>6. client \in [Slave -> Caller \cup {None}]
  BY Zenon DEF SlaveTypeOK
<1>7. ASSUME Committing
      PROVE  Answering'
  <2>0. CurrSlave \in Slave
    BY <1>7, MasterFacts, Zenon DEF Committing
  <2>1. m.type # "getreq" =>
            /\ m.type = "commit" /\ ~IsUpdate(m) /\ log[s] # <<>>
            /\ IsUpdate(LastEntry(s)) \/ LastEntry(s).type = "commit"
    BY <1>0, <1>2, <1>7, CommitJob DEF Commit, IsUpdate
  <2>2. ASSUME m.type # "getreq"
        PROVE  LastEntry(s)'.type = "commit" /\ (step'[s] = "reply" => resp'[s].type = "ack")
    <3>1. \/ Logged(s, m, Perform(Durable(s), LastEntry(s))) /\ step'[s] = "apply"
          \/ /\ ~IsUpdate(LastEntry(s)) /\ SameLog(s)
             /\ Answered(s, Respond("ack"))
      BY <1>0, <1>2, <2>1, <2>2, RunOutcome, Zenon
    <3> QED
      BY <1>4, <2>1, <2>2, <3>1 DEF Logged, Answered, Respond
  <2>3. ASSUME NEW t \in Slave, client'[t] = Coord
        PROVE  LastEntry(t)'.type = "commit" /\ (step'[t] = "reply" => resp'[t].type = "ack")
    <3>1. CASE t = s
      <4>1. queue[s][1].from = Coord
        BY <1>5, <1>6, <2>3, <3>1, Zenon
      <4>2. TPCJob(s, 1)
        BY <1>3, <4>1, Zenon DEF Pipeline, Awaited
      <4> QED
        BY <1>2, <2>2, <3>1, <4>2, Zenon DEF TPCJob
    <3>2. CASE t # s
      BY <1>3, <1>4, <1>5, <1>6, <1>7, <2>3, <3>2, Zenon DEF Acked
    <3> QED
      BY <3>1, <3>2, Zenon
  <2>4. ASSUME conn'[Coord].type \in Answers
        PROVE  LastEntry(CurrSlave)'.type = "commit" /\ conn'[Coord].type = "ack"
    <3>1. LastEntry(CurrSlave).type = "commit" /\ conn[Coord].type = "ack" /\ NoTPCJob(CurrSlave)
      BY <1>3, <1>7, <2>4, Zenon DEF Acked, Pipeline
    <3>2. SameLog(CurrSlave)
      BY <1>0, <1>3, <2>0, <3>1, OnlyTPCJobs, Zenon DEF NoTPCJob
    <3>3. log'[CurrSlave'] = log[CurrSlave]
      BY <1>1, <3>2, Zenon DEF SameLog
    <3> QED
      BY <1>3, <3>1, <3>3, Zenon DEF LastEntry
  <2> QED
    BY <2>3, <2>4, Zenon DEF Answering
<1> QED
  BY <1>1, <1>7, Zenon DEF Acked, Answering

\* Every step keeps it that the master is answered after the commit.
LEMMA AckedNext ==
    ASSUME TypeOK, TypeOK', Calm, RecoveryInv, Sockets, Sockets', Pipeline, Ballots,
           Agreed, Acked, Next
    PROVE  Acked'
<1> USE TypeParts
<1>0. /\ SlaveTypeOK /\ conn \in [Caller -> Socket]
      /\ Coord \in Caller /\ \A r \in Reader : r \in Caller /\ r # Coord
  BY Callers, Zenon DEF SlaveTypeOK
<1>1. ASSUME UNCHANGED <<log, step, resp, masterVars>>,
             \A s \in Slave : client'[s] = Coord => client[s] = Coord,
             conn'[Coord] = conn[Coord] \/ conn'[Coord].type \notin Answers
      PROVE  Acked'
  BY <1>1, StillAcked, Zenon
<1>2. ASSUME NEW c \in Caller, Timeout(c)
      PROVE  /\ \A s \in Slave : client'[s] = Coord => client[s] = Coord
             /\ conn'[Coord] = conn[Coord] \/ conn'[Coord].type \notin Answers
  BY <1>0, <1>2, Callers, Zenon DEF Timeout, Closed, Answers
<1>3. ASSUME NEW c \in Caller, NEW s \in Slave, NEW m, Send(c, s, m)
      PROVE  conn'[Coord] = conn[Coord] \/ conn'[Coord].type \notin Answers
  BY <1>0, <1>3, Zenon DEF Send, Open, Answers
<1>4. ASSUME NEW m \in TPCRequest, Request(m)
      PROVE  Acked'
  BY <1>4, Zenon DEF Request, Acked, Committing
<1>5. CASE Phase1Connect \/ Phase1Timeout \/ Phase1Receive
  <2>1. PICK a \in BOOLEAN : phase = "phase1" /\ conn'[Coord] = Closed /\ NextVote(a)
    BY <1>5, CountedVote, Zenon
  <2>2. Answering'
    BY <2>1, NotAnswering, Zenon
  <2>3. phase' \in {"phase1", "phase2"} /\ ~invalidFormat'
    BY <2>1, Zenon DEF NextVote, Acked
  <2> QED
    BY <2>2, <2>3, Zenon DEF Acked, Answering
<1>6. CASE Phase1Send \/ Phase2Send
  <2>1. CurrSlave \in Slave
    BY <1>6, MasterFacts, Zenon DEF Phase1Send, Phase2Send
  <2> QED
    BY <1>0, <1>1, <1>3, <1>6, <2>1, Zenon DEF Phase1Send, Phase2Send
<1>7. CASE Phase2Timeout
  BY <1>0, <1>1, <1>2, <1>7, Zenon DEF Phase2Timeout
<1>8. CASE Phase2Receive
  <2>1. conn'[Coord] = Closed
    BY <1>0, <1>8, Zenon DEF Phase2Receive, Receive
  <2>2. Answering'
    BY <2>1, NotAnswering, Zenon
  <2>3. /\ globalAbort' = globalAbort
        /\ IF globalAbort THEN phase' \in {"phase2", "idle"}
           ELSE phase' \in {"phase2", "flush"} /\ ~invalidFormat'
    BY <1>8, AnswerAgreed, Zenon
  <2> QED
    BY <2>2, <2>3, Zenon DEF Acked, Answering, Committing
<1>9. CASE Flush
  BY <1>9, Zenon DEF Flush, Done, Acked, Committing
<1>10. ASSUME NEW r \in Reader, GetSend(r)
       PROVE  Acked'
  BY <1>0, <1>1, <1>3, <1>10, ReaderFacts, Zenon DEF GetSend
<1>11. ASSUME NEW r \in Reader, GetConnect(r)
       PROVE  Acked'
  BY <1>1, <1>11, Zenon DEF GetConnect, GotValue
<1>12. ASSUME NEW r \in Reader, GetTimeout(r)
       PROVE  Acked'
  BY <1>0, <1>1, <1>2, <1>12, Zenon DEF GetTimeout, GotValue
<1>13. ASSUME NEW r \in Reader, GetReceive(r)
       PROVE  Acked'
  BY <1>0, <1>1, <1>13, Zenon DEF GetReceive, GotValue, Receive
<1>14. ASSUME NEW r \in Reader, NEW k \in Key, GetStart(r, k)
       PROVE  Acked'
  BY <1>1, <1>14, Zenon DEF GetStart, slaveVars
<1>15. ASSUME NEW s \in Slave, Run(s), Idle
       PROVE  Acked'
  BY <1>15, RunAcked, Zenon
<1>16. ASSUME NEW s \in Slave, Inner(s), Idle
       PROVE  Acked'
  <2>1. /\ UNCHANGED <<client, conn, log, masterVars>>
        /\ \A t \in Slave \ {s} : step'[t] = step[t] /\ resp'[t] = resp[t]
        /\ step[s] \in {"apply", "down", "rebuild"}
        /\ step[s] = "apply" => Apply(s)
        /\ step[s] # "apply" => client[s] = None
    BY <1>0, <1>16, InnerSteps, Zenon DEF Idle, Sockets
  <2>2. CASE step[s] # "apply"
    BY <2>1, <2>2, StillAcked, Callers, Zenon
  <2>3. CASE step[s] = "apply"
    <3>1. resp'[s].type = "ack"
      <4>1. Answer(s, Respond("ack"))
        BY <1>0, <2>1, <2>3, ApplyRecovers, Zenon DEF Apply
      <4> QED
        BY <4>1, Zenon DEF Answer, Respond, SlaveTypeOK
    <3>2. /\ UNCHANGED <<phase, rqst, turn, globalAbort, invalidFormat>>
          /\ (Committing' <=> Committing) /\ CurrSlave' = CurrSlave
          /\ \A t : LastEntry(t)' = LastEntry(t)
          /\ LastEntry(CurrSlave)' = LastEntry(CurrSlave)
      BY <2>1, Zenon DEF masterVars, Committing, CurrSlave, LastEntry
    <3>3. ASSUME Committing
          PROVE  Answering'
      <4>1. Answering
        BY <3>3, Zenon DEF Acked, Answering
      <4> QED
        BY <2>1, <3>1, <3>2, <4>1, Zenon DEF Answering
    <3> QED
      BY <3>2, <3>3, Zenon DEF Acked, Answering
  <2> QED
    BY <2>2, <2>3, Zenon
<1>17. ASSUME NEW s \in Slave, Reply(s), Idle
       PROVE  Acked'
  <2>1. /\ UNCHANGED <<log, masterVars>>
        /\ step[s] = "reply" /\ client'[s] = None
        /\ \A t \in Slave \ {s} : step'[t] = step[t] /\ resp'[t] = resp[t] /\ client'[t] = client[t]
        /\ conn'[Coord] = IF client[s] = Coord THEN resp[s] ELSE conn[Coord]
    BY <1>0, <1>17, Zenon DEF Reply, Idle, SlaveTypeOK
  <2>2. CASE client[s] # Coord
    BY <2>1, <2>2, StillAcked, Callers, Zenon
  <2>3. CASE client[s] = Coord
    <3>1. s = CurrSlave
      BY <2>3, Zenon DEF Pipeline
    <3>2. /\ UNCHANGED <<phase, rqst, turn, globalAbort, invalidFormat>>
          /\ (Committing' <=> Committing) /\ CurrSlave' = CurrSlave
          /\ \A t : LastEntry(t)' = LastEntry(t)
          /\ LastEntry(CurrSlave)' = LastEntry(CurrSlave)
      BY <2>1, Zenon DEF masterVars, Committing, CurrSlave, LastEntry
    <3>3. ASSUME Committing
          PROVE  Answering'
      <4>1. Answering
        BY <3>3, Zenon DEF Acked, Answering
      <4> QED
        BY <2>1, <2>3, <3>1, <3>2, <4>1, Callers DEF Answering
    <3> QED
      BY <3>2, <3>3, Zenon DEF Acked, Answering
  <2> QED
    BY <2>2, <2>3, Zenon
<1>18. ASSUME NEW s \in Slave, Crash(s) \/ CrashInFlush(s), Idle
       PROVE  Acked'
  <2>1. ~CrashInFlush(s)
    BY Zenon DEF CrashInFlush, Calm
  <2>2. /\ UNCHANGED <<log, conn, masterVars>>
        /\ client'[s] = None
        /\ \A t \in Slave \ {s} : step'[t] = step[t] /\ resp'[t] = resp[t] /\ client'[t] = client[t]
    BY <1>0, <1>18, <2>1, DieJobs, Zenon DEF Crash, Idle, Die
  <2> QED
    BY <2>2, StillAcked, Callers, Zenon
<1> QED
  BY <1>4, <1>5, <1>6, <1>7, <1>8, <1>9, <1>10, <1>11, <1>12, <1>13, <1>14, <1>15, <1>16,
     <1>17, <1>18, StepCases, Zenon

-----------------------------------------------------------------------------
(* The theorems.                                                           *)

\* At the start the logs are empty.
LEMMA AgreementInit == Init => AgreementInv
<1> SUFFICES ASSUME Init PROVE AgreementInv
  BY Zenon
<1>1. /\ phase = "idle" /\ ~Committing
      /\ \A k \in Key : db[k] = None
  BY Zenon DEF Init, SlaveInit, Committing
<1>2. \A s \in Slave : Durable(s) = EmptyStore
  BY Zenon DEF Init, SlaveInit, Durable
<1>3. \A k \in Key : \A j \in 1..2 : Durable(Replicas[k][j])[k] = db[k]
  BY <1>1, <1>2, MasterAssumption DEF EmptyStore
<1>4. Agreed
  BY <1>1, <1>3, Zenon DEF Agreed
<1>5. Acked
  BY <1>1, Zenon DEF Acked
<1> QED
  BY <1>4, <1>5, Zenon DEF AgreementInv

\* Every step keeps the invariant.
LEMMA AgreementNext ==
    ASSUME Calm, TypeOK, RecoveryInv, PipelineInv, AgreementInv, [Next]_vars
    PROVE  AgreementInv'
<1>0. Connections = 1
  BY Zenon DEF Calm
<1>1. TypeOK' /\ PipelineInv'
  BY <1>0, TypeNext, PipelineInvNext, Zenon
<1>2. CASE Next
  BY <1>1, <1>2, AgreedNext, AckedNext, Zenon DEF PipelineInv, AgreementInv
<1>3. CASE UNCHANGED vars
  <2>1. UNCHANGED <<slaveVars, masterVars, db>>
    BY <1>3, Zenon DEF vars
  <2>2. Agreed'
    BY <2>1, StillAgreed, Zenon DEF AgreementInv, slaveVars, masterVars
  <2>3. Acked'
    BY <2>1, StillAcked, Zenon DEF AgreementInv, slaveVars
  <2> QED
    BY <2>2, <2>3, Zenon DEF AgreementInv
<1> QED
  BY <1>2, <1>3, Zenon

CommitInv == TypeOK /\ RecoveryInv /\ PipelineInv /\ AgreementInv

\* The invariants hold together.
LEMMA CommitInvariant ==
    ASSUME Calm
    PROVE  Spec => []CommitInv
<1>1. Init => CommitInv
  BY TypeInit, RecoveryInit, PipelineInit, AgreementInit, Zenon DEF CommitInv
<1>2. CommitInv /\ [Next]_vars => CommitInv'
  <2>1. Connections = 1
    BY Zenon DEF Calm
  <2> QED
    BY <2>1, TypeNext, RecoveryNext, PipelineInvNext, AgreementNext, Zenon DEF CommitInv
<1> QED
  BY <1>1, <1>2, PTL DEF Spec

\* Where slaves have one worker, requests reach them in time and no crash tears a
\* log, the logs of both replicas of a key, and their stores when no job is half done, hold exactly
\* the effect of the requests for which handleTPCRequest committed and returned.
THEOREM AtomicCommitment ==
    ASSUME Calm
    PROVE  Spec => []ReplicasAgree
<1>1. CommitInv => ReplicasAgree
  <2> SUFFICES ASSUME CommitInv, NEW k \in Key, NEW i \in 1..2, ~(Committing /\ rqst.key = k),
                      NEW s \in Slave, s = Replicas[k][i]
               PROVE  /\ Durable(s)[k] = db[k]
                      /\ step[s] \in {"idle", "reply"} => store[s][k] = db[k]
    BY MasterAssumption DEF ReplicasAgree
  <2>1. Durable(s)[k] = db[k]
    BY Zenon DEF CommitInv, AgreementInv, Agreed
  <2>2. step[s] \in {"idle", "reply"} => store[s] = Durable(s)
    BY Zenon DEF CommitInv, RecoveryInv, SlaveRecovers, StoreIsDurable
  <2> QED
    BY <2>1, <2>2, Zenon
<1> QED
  BY <1>1, CommitInvariant, PTL

-----------------------------------------------------------------------------
(* Refinement.                                                             *)

\* The abstract store, from the history of the committed requests.
Data == [k \in Key |-> IF Committing /\ rqst.key = k THEN rqst.val ELSE db[k]]
Pending == IF phase = "idle" THEN None ELSE rqst

\* The logs of either replica give the abstract store.
LEMMA ViewIsData == CommitInv => View(1) = Data /\ View(2) = Data
<1> SUFFICES ASSUME CommitInv, NEW i \in 1..2 PROVE View(i) = Data
  OBVIOUS
<1>1. \A k \in Key : ~(Committing /\ rqst.key = k) => Durable(Replicas[k][i])[k] = db[k]
  BY Zenon DEF CommitInv, AgreementInv, Agreed
<1> QED
  BY <1>1, Zenon DEF View, Data

\* Also after a step.
LEMMA ViewIsDataNext == CommitInv' => (View(1) = Data /\ View(2) = Data)'
BY ViewIsData, PTL

\* Steps that keep the request and its outcome.
LEMMA StillData ==
    ASSUME UNCHANGED <<phase, rqst, globalAbort, db>>
    PROVE  UNCHANGED <<Data, Pending, Outcome>>
BY Zenon DEF Data, Pending, Outcome, Committing

\* What the abstract store may do.
AtomicStep ==
    \/ UNCHANGED <<Data, Pending, Outcome>>
    \/ /\ Pending = None
       /\ Pending' \in TPCRequest
       /\ UNCHANGED <<Data, Outcome>>
    \/ /\ Pending # None /\ Outcome = "undecided"
       /\ IF Pending.type = "putreq" THEN {Pending.key, Pending.val} \cap Oversized = {}
                                     ELSE Data[Pending.key] # None
       /\ Data' = [Data EXCEPT ![Pending.key] = Pending.val]
       /\ Outcome' = "committed" /\ UNCHANGED Pending
    \/ /\ Pending # None /\ Outcome = "undecided"
       /\ Outcome' = "aborted" /\ UNCHANGED <<Data, Pending>>
    \/ /\ Outcome # "undecided" /\ Outcome' = "undecided"
       /\ Pending' = None /\ UNCHANGED Data

\* Counting the second vote decides the request.
LEMMA DecideStep ==
    ASSUME CommitInv, Phase1Connect \/ Phase1Timeout \/ Phase1Receive
    PROVE  AtomicStep
<1>0. TypeOK /\ Ballots /\ Agreed
  BY Zenon DEF CommitInv, PipelineInv, AgreementInv
<1>1. PICK a \in BOOLEAN : phase = "phase1" /\ UNCHANGED <<log, hist>> /\ NextVote(a) /\ (~a => Voted(CurrSlave))
  BY <1>0, CountedVote, Zenon
<1>2. UNCHANGED <<rqst, db>> /\ phase' \in {"phase1", "phase2"} /\ ~Committing
  BY <1>1, Zenon DEF NextVote, Committing
<1>3. rqst \in Msg /\ rqst.key \in Key /\ rqst # None
  BY <1>0, <1>1, MasterFacts, NullAssumption, Zenon
<1>4. Pending = rqst /\ Pending' = rqst /\ Outcome = "undecided" /\ Data = [k \in Key |-> db[k]]
  BY <1>1, <1>2, Zenon DEF Pending, Outcome, Data
<1>5. CASE phase' = "phase1"
  BY <1>2, <1>4, <1>5, Zenon DEF AtomicStep, Outcome, Data, Committing
<1>6. CASE phase' = "phase2" /\ globalAbort'
  BY <1>2, <1>3, <1>4, <1>6, Zenon DEF AtomicStep, Outcome, Data, Committing
<1>7. CASE phase' = "phase2" /\ ~globalAbort'
  <2>1. Committing'
    BY <1>7, Zenon DEF Committing
  <2>2. Voted(Rep(1))
    BY <1>0, <1>1, <2>1, BothVoted, Zenon
  <2>3. Data[rqst.key] = Durable(Rep(1))[rqst.key]
    BY <1>0, <1>2, <1>3, <1>4 DEF Agreed, Rep
  <2>4. Data' = [Data EXCEPT ![rqst.key] = rqst.val]
    BY <1>2, <1>3, <1>4, <2>1, Zenon DEF Data
  <2>5. Outcome' = "committed"
    BY <1>7, Zenon DEF Outcome
  <2> QED
    BY <1>3, <1>4, <2>2, <2>3, <2>4, <2>5, Zenon DEF AtomicStep, Voted
<1> QED
  BY <1>2, <1>5, <1>6, <1>7, Zenon

\* Every step is one of the abstract store, or none.
LEMMA StepIsAtomic ==
    ASSUME Calm, CommitInv, [Next]_vars
    PROVE  AtomicStep
<1>0. TypeOK /\ Ballots /\ Agreed /\ Acked
  BY Zenon DEF CommitInv, PipelineInv, AgreementInv
<1>1. ASSUME UNCHANGED <<masterVars, db>>
      PROVE  AtomicStep
  BY <1>1, StillData, Zenon DEF AtomicStep, masterVars
<1>2. ASSUME NEW m \in TPCRequest, Request(m)
      PROVE  AtomicStep
  <2>1. phase = "idle" /\ phase' = "phase1" /\ rqst' = m /\ db' = db
    BY <1>2, Zenon DEF Request
  <2>2. Pending = None /\ Pending' \in TPCRequest /\ UNCHANGED <<Data, Outcome>>
    BY <2>1, Zenon DEF Pending, Data, Outcome, Committing
  <2> QED
    BY <2>2, Zenon DEF AtomicStep
<1>3. CASE Phase1Connect \/ Phase1Timeout \/ Phase1Receive
  BY <1>3, DecideStep, Zenon
<1>4. CASE Phase2Receive
  <2>1. /\ phase = "phase2" /\ db' = db /\ rqst' = rqst /\ globalAbort' = globalAbort
        /\ (Committing' <=> Committing)
        /\ IF globalAbort THEN phase' \in {"phase2", "idle"} ELSE phase' \in {"phase2", "flush"}
    BY <1>0, <1>4, AnswerAgreed, Zenon DEF Phase2Receive
  <2>2. Data' = Data
    BY <2>1, Zenon DEF Data
  <2>3. CASE phase' \in {"phase2", "flush"}
    BY <2>1, <2>2, <2>3, Zenon DEF AtomicStep, Pending, Outcome
  <2>4. CASE phase' = "idle"
    BY <2>1, <2>2, <2>4, Zenon DEF AtomicStep, Pending, Outcome
  <2> QED
    BY <2>1, <2>3, <2>4, Zenon
<1>5. CASE Flush
  <2>1. /\ db' = [db EXCEPT ![rqst.key] = rqst.val] /\ db \in [Key -> OptValue]
        /\ Committing /\ ~Committing' /\ phase = "flush" /\ phase' = "idle"
    BY <1>0, <1>5, FlushAgreed, Zenon DEF Flush, Done, TypeOK
  <2>2. Data' = Data
    BY <2>1, Zenon DEF Data
  <2>3. Outcome # "undecided" /\ Outcome' = "undecided" /\ Pending' = None
    BY <2>1, Zenon DEF Outcome, Pending
  <2> QED
    BY <2>2, <2>3, Zenon DEF AtomicStep
<1>6. CASE Phase1Send \/ Phase2Send \/ Phase2Timeout
  BY <1>1, <1>6, Zenon DEF Phase1Send, Phase2Send, Phase2Timeout
<1>7. ASSUME NEW r \in Reader, GetStep(r) \/ \E k \in Key : GetStart(r, k)
      PROVE  AtomicStep
  BY <1>1, <1>7, Zenon DEF GetStep, GetSend, GetConnect, GetTimeout, GetReceive, GetStart, GotValue
<1>8. CASE Idle
  BY <1>1, <1>8, Zenon DEF Idle
<1>9. CASE UNCHANGED vars
  BY <1>1, <1>9, Zenon DEF vars
<1> QED
  BY <1>2, <1>3, <1>4, <1>5, <1>6, <1>7, <1>8, <1>9, StepCases, Zenon DEF GetStep

\* Under the same conditions the key-value service, seen through the logs of the
\* primary replicas and through those of the secondary ones, is a single store on
\* which requests take effect one at a time, wholly or not at all, at the moment
\* phase 1 of handleTPCRequest ends.
THEOREM Atomicity ==
    ASSUME Calm
    PROVE  Spec => ImplementsAtomicStore
<1>1. Init => Primary!Init /\ Secondary!Init
  <2> SUFFICES ASSUME Init PROVE Primary!Init /\ Secondary!Init
    BY Zenon
  <2>1. CommitInv
    BY TypeInit, RecoveryInit, PipelineInit, AgreementInit, Zenon DEF CommitInv
  <2>2. View(1) = Data /\ View(2) = Data
    BY <2>1, ViewIsData, Zenon
  <2>3. Data = [k \in Key |-> None] /\ Outcome = "undecided" /\ phase = "idle"
    BY Zenon DEF Data, Outcome, Init, Committing
  <2> QED
    BY <2>2, <2>3, Zenon DEF Primary!Init, Secondary!Init
<1>2. CommitInv /\ CommitInv' /\ [Next]_vars => [Primary!Next]_(Primary!vars)
  <2> SUFFICES ASSUME CommitInv, CommitInv', [Next]_vars PROVE [Primary!Next]_(Primary!vars)
    BY Zenon
  <2>1. View(1) = Data /\ View(1)' = Data'
    BY ViewIsData, ViewIsDataNext, Zenon
  <2>2. AtomicStep
    BY StepIsAtomic, Zenon
  <2> QED
    BY <2>1, <2>2, Zenon DEF AtomicStep, Pending, Primary!Next, Primary!vars, Primary!Begin,
       Primary!CommitRequest, Primary!AbortRequest, Primary!End, Primary!Acceptable
<1>3. CommitInv /\ CommitInv' /\ [Next]_vars => [Secondary!Next]_(Secondary!vars)
  <2> SUFFICES ASSUME CommitInv, CommitInv', [Next]_vars PROVE [Secondary!Next]_(Secondary!vars)
    BY Zenon
  <2>1. View(2) = Data /\ View(2)' = Data'
    BY ViewIsData, ViewIsDataNext, Zenon
  <2>2. AtomicStep
    BY StepIsAtomic, Zenon
  <2> QED
    BY <2>1, <2>2, Zenon DEF AtomicStep, Pending, Secondary!Next, Secondary!vars, Secondary!Begin,
       Secondary!CommitRequest, Secondary!AbortRequest, Secondary!End, Secondary!Acceptable
<1> QED
  BY <1>1, <1>2, <1>3, CommitInvariant, PTL DEF Spec, ImplementsAtomicStore, Primary!Spec, Secondary!Spec
=============================================================================
