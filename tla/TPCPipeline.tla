---------------------------- MODULE TPCPipeline ----------------------------
(***************************************************************************)
(* With one worker per slave a slave runs the jobs of a request in the     *)
(* order in which the master sent them.  So once the master has the answer *)
(* to the last one, none is left, and a COMMIT finds the request that it   *)
(* is meant for at the end of the log: on any network, also when a crash   *)
(* tears the log.                                                          *)
(***************************************************************************)
EXTENDS TPCRecovery

Jobs(s) == 1..Len(queue[s])

Answers == {"resp", "ready", "abort", "ack"}

InPhase == phase \in {"phase1", "phase2"}

\* The j-th slave of the current request.
Rep(j) == Replicas[rqst.key][j]

Decision == IF globalAbort THEN Abort ELSE Commit

\* Job i of slave s belongs to handleTPCRequest.
TPCJob(s, i) == queue[s][i].msg.type # "getreq"

NoTPCJob(s) == \A i \in Jobs(s) : ~TPCJob(s, i)

LastEntry(s) == log[s][Len(log[s])]

-----------------------------------------------------------------------------
(* The inductive invariant.                                                *)

\* The caller of a job in a slave's hands: place 0 is the worker, the others are
\* those of the queue.
Places(s) == 0..Len(queue[s])
From(s, i) == IF i = 0 THEN client[s] ELSE queue[s][i].from

\* A caller waits for one job: while its socket is open, at most one slave has a
\* job with this socket, once; otherwise none has.
Waits(c) ==
    \A s \in Slave : \A i \in Places(s) : From(s, i) = c =>
        /\ conn[c] = Open
        /\ \A t \in Slave : \A j \in Places(t) : From(t, j) = c => s = t /\ i = j

Sockets ==
    /\ \A c \in Caller : Waits(c)
    /\ \A s \in Slave : step[s] \in {"idle", "down", "rebuild"} => client[s] = None

\* Where the jobs of the current request may be: those of phase 1 that timed out
\* stay behind, so the request was aborted; those of phase 2 are where it is.
Belongs(s, m) ==
    \/ phase = "phase1" /\ m = rqst /\ (s = CurrSlave \/ (globalAbort /\ s = Rep(1)))
    \/ phase = "phase2" /\ m = rqst /\ globalAbort /\ (s = CurrSlave \/ s = Rep(2))
    \/ phase = "phase2" /\ m = Decision /\ s = CurrSlave

Placed(s, i) == TPCJob(s, i) => Belongs(s, queue[s][i].msg)

\* The job that the master waits for is the last one of its request.
Awaited(s, i) ==
    /\ TPCJob(s, i)
    /\ s = CurrSlave
    /\ phase = "phase2" => queue[s][i].msg = Decision
    /\ \A j \in Jobs(s) : j > i => ~TPCJob(s, j)

Pipeline ==
    /\ \A s \in Slave : \A i \in Jobs(s) : Placed(s, i)
    /\ \A s \in Slave : \A i \in Jobs(s) : queue[s][i].from = Coord => Awaited(s, i)
    /\ \A s \in Slave : client[s] = Coord => s = CurrSlave /\ NoTPCJob(s)
    /\ conn[Coord].type \in Answers => NoTPCJob(CurrSlave)
    /\ conn[Coord] # Closed => InPhase

\* Slave s has logged the current request, after checking it, and nothing since.
Voted(s) ==
    /\ log[s] # <<>>
    /\ LastEntry(s) = rqst
    /\ IF rqst.type = "putreq" THEN {rqst.key, rqst.val} \cap Oversized = {}
                               ELSE Durable(s)[rqst.key] # None

\* The votes that are under way or counted are those of slaves that have logged
\* the current request last.
Ballots ==
    /\ phase = "phase1" =>
          /\ \A s \in Slave :
                client[s] = Coord /\ step[s] = "reply" /\ resp[s].type = "ready" => Voted(s)
          /\ conn[Coord].type = "ready" => Voted(CurrSlave)
          /\ turn = 2 /\ ~globalAbort /\ Rep(1) # CurrSlave => Voted(Rep(1))
    /\ Committing => \A j \in 1..2 :
          log[Rep(j)] = <<>> \/ LastEntry(Rep(j)) = rqst \/ ~IsUpdate(LastEntry(Rep(j)))

PipelineInv == Sockets /\ Pipeline /\ Ballots

-----------------------------------------------------------------------------
(* What the operations on sockets do to the jobs.                          *)

\* A queue holds jobs.
LEMMA JobType ==
    ASSUME SlaveTypeOK, NEW s \in Slave
    PROVE  /\ queue[s] \in Seq(Job)
           /\ Len(queue[s]) \in Nat
           /\ \A i \in Jobs(s) : queue[s][i] \in Job /\ i \in Nat /\ 1 <= i /\ i <= Len(queue[s])
<1>1. queue[s] \in Seq(Job)
  BY Zenon DEF SlaveTypeOK
<1>2. Len(queue[s]) \in Nat /\ \A i \in 1..Len(queue[s]) : queue[s][i] \in Job
  BY <1>1, SequenceFunction, Zenon
<1> QED
  BY <1>1, <1>2 DEF Jobs

\* Send adds one job, at the end of one queue.
LEMMA SendJobs ==
    ASSUME SlaveTypeOK, NEW c \in Caller, NEW s \in Slave, NEW m \in Msg, Send(c, s, m)
    PROVE  /\ conn[c] = Closed
           /\ conn' = [conn EXCEPT ![c] = Open]
           /\ \A t \in Slave : \A i \in Jobs(t)' :
                 \/ i \in Jobs(t) /\ queue'[t][i] = queue[t][i]
                 \/ /\ t = s
                    /\ i = Len(queue[s]) + 1
                    /\ queue'[t][i] = [msg |-> m, from |-> c]
<1> DEFINE job == [msg |-> m, from |-> c]
<1>1. job \in Job
  BY Zenon DEF Job
<1>2. queue \in [Slave -> Seq(Job)]
  BY Zenon DEF SlaveTypeOK
<1>3. \A t \in Slave : \/ queue'[t] = queue[t]
                       \/ t = s /\ queue'[t] = Append(queue[t], job)
  BY <1>2, Zenon DEF Send
<1>4. ASSUME NEW t \in Slave, NEW i \in Jobs(t)'
      PROVE  \/ i \in Jobs(t) /\ queue'[t][i] = queue[t][i]
             \/ t = s /\ i = Len(queue[s]) + 1 /\ queue'[t][i] = job
  <2>0. i \in 1..Len(queue'[t])
    BY Zenon DEF Jobs
  <2>1. CASE queue'[t] = queue[t]
    BY <2>0, <2>1, Zenon DEF Jobs
  <2>2. CASE t = s /\ queue'[t] = Append(queue[t], job)
    <3>1. /\ Len(queue[t]) \in Nat
          /\ Len(queue'[t]) = Len(queue[t]) + 1
          /\ \A j \in 1..Len(queue[t]) : queue'[t][j] = queue[t][j]
          /\ queue'[t][Len(queue[t]) + 1] = job
      BY <1>1, <1>2, <2>2, JobType, AppendElement
    <3>2. i \in 1..Len(queue[t]) \/ i = Len(queue[t]) + 1
      BY <2>0, <3>1
    <3> QED
      BY <2>2, <3>1, <3>2, Zenon DEF Jobs
  <2> QED
    BY <1>3, <2>1, <2>2, Zenon
<1> QED
  BY <1>4, Zenon DEF Send

\* Timeout takes the caller off its job.
LEMMA TimeoutJobs ==
    ASSUME SlaveTypeOK, NEW c \in Caller, Timeout(c)
    PROVE  /\ conn[c] = Open
           /\ conn' = [conn EXCEPT ![c] = Closed]
           /\ \A t \in Slave :
                 /\ Jobs(t)' = Jobs(t)
                 /\ client'[t] = IF client[t] = c THEN None ELSE client[t]
                 /\ \A i \in Jobs(t) :
                       /\ queue'[t][i].msg = queue[t][i].msg
                       /\ queue'[t][i].from = IF queue[t][i].from = c THEN None
                                              ELSE queue[t][i].from
<1>1. /\ \A s \in Slave : Len(queue'[s]) = Len(queue[s])
      /\ \A s \in Slave : \A i \in 1..Len(queue[s]) : queue'[s][i] = HangUp(c, queue[s][i])
  BY HangUpType, Zenon DEF Timeout
<1>2. \A job \in Job : /\ HangUp(c, job).msg = job.msg
                       /\ HangUp(c, job).from = IF job.from = c THEN None ELSE job.from
  BY Zenon DEF HangUp, Job
<1>3. ASSUME NEW t \in Slave
      PROVE  /\ Jobs(t)' = Jobs(t)
             /\ client'[t] = IF client[t] = c THEN None ELSE client[t]
  BY <1>1, Zenon DEF Timeout, Jobs
<1>4. ASSUME NEW t \in Slave, NEW i \in Jobs(t)
      PROVE  /\ queue'[t][i].msg = queue[t][i].msg
             /\ queue'[t][i].from = IF queue[t][i].from = c THEN None ELSE queue[t][i].from
  <2>1. queue[t][i] \in Job /\ queue'[t][i] = HangUp(c, queue[t][i])
    BY <1>1, JobType, Zenon DEF Jobs
  <2> QED
    BY <1>2, <2>1, Zenon
<1> QED
  BY <1>3, <1>4, Zenon DEF Timeout

\* The only worker takes the first job; the others move up.
LEMMA TakeJobs ==
    ASSUME SlaveTypeOK, Connections = 1, NEW s \in Slave, NEW i \in 1..Len(queue[s]), Take(s, i)
    PROVE  /\ i = 1 /\ 1 \in Jobs(s)
           /\ step[s] = "idle"
           /\ client' = [client EXCEPT ![s] = queue[s][1].from]
           /\ \A t \in Slave \ {s} : queue'[t] = queue[t] /\ Jobs(t)' = Jobs(t)
           /\ \A j \in Jobs(s)' : j \in Nat /\ j + 1 \in Jobs(s) /\ queue'[s][j] = queue[s][j + 1]
<1>1. queue[s] \in Seq(Job) /\ Len(queue[s]) \in Nat
  BY JobType, Zenon
<1>2. i = 1
  BY <1>1 DEF Take
<1>3. queue' = [queue EXCEPT ![s] = Without(queue[s], 1)]
  BY <1>2, Zenon DEF Take
<1>4. queue \in [Slave -> Seq(Job)]
  BY Zenon DEF SlaveTypeOK
<1>5. \A t \in Slave \ {s} : queue'[t] = queue[t] /\ Jobs(t)' = Jobs(t)
  BY <1>3, <1>4, Zenon DEF Jobs
<1>6. queue'[s] = Without(queue[s], 1)
  BY <1>3, <1>4, Zenon
<1>7. /\ Len(queue'[s]) = Len(queue[s]) - 1
      /\ \A j \in 1..Len(queue[s]) - 1 : queue'[s][j] = IF j < 1 THEN queue[s][j] ELSE queue[s][j + 1]
  BY <1>1, <1>2, <1>6, WithoutType, Zenon
<1>8. \A j \in Jobs(s)' : j \in Nat /\ j + 1 \in Jobs(s) /\ queue'[s][j] = queue[s][j + 1]
  BY <1>1, <1>7 DEF Jobs
<1> QED
  BY <1>2, <1>5, <1>8, Zenon DEF Take, Jobs

\* A crash empties the queue.
LEMMA DieJobs ==
    ASSUME SlaveTypeOK, NEW s \in Slave, Die(s)
    PROVE  /\ Jobs(s)' = {}
           /\ client'[s] = None /\ step'[s] = "down"
           /\ \A t \in Slave \ {s} :
                 /\ queue'[t] = queue[t] /\ Jobs(t)' = Jobs(t)
                 /\ client'[t] = client[t] /\ step'[t] = step[t] /\ resp'[t] = resp[t]
<1>0. /\ queue \in [Slave -> Seq(Job)] /\ client \in [Slave -> Caller \cup {None}]
      /\ step \in [Slave -> Steps] /\ resp \in [Slave -> Resp \cup {Closed}]
  BY Zenon DEF SlaveTypeOK
<1>1. queue'[s] = <<>> /\ \A t \in Slave \ {s} : queue'[t] = queue[t]
  BY <1>0, Zenon DEF Die
<1>2. Jobs(s)' = {} /\ \A t \in Slave \ {s} : Jobs(t)' = Jobs(t)
  BY <1>1 DEF Jobs
<1> QED
  BY <1>0, <1>1, <1>2, Zenon DEF Die

-----------------------------------------------------------------------------
(* The steps, seen from the sockets.                                       *)

\* A worker takes its first job and turns to the answer, to the store or dies.
Run(s) ==
    \E i \in 1..Len(queue[s]) :
        RunGet(s, i) \/ RunVote(s, i) \/ RunCommit(s, i) \/ RunAbort(s, i) \/ ReadFails(s, i)

\* Steps of a slave that concern no job.
Inner(s) == Apply(s) \/ Restart(s) \/ RebuildServer(s) \/ Register(s)

Idle == UNCHANGED <<masterVars, masterCache, getVars, db, permitted>>

\* The disjuncts of Next, for proofs by cases.
LEMMA StepCases ==
    ASSUME Next
    PROVE  \/ \E m \in TPCRequest : Request(m)
           \/ Phase1Send
           \/ Phase1Connect
           \/ Phase1Timeout
           \/ Phase1Receive
           \/ Phase2Send
           \/ Phase2Timeout
           \/ Phase2Receive
           \/ Flush
           \/ \E r \in Reader : GetSend(r)
           \/ \E r \in Reader : GetConnect(r)
           \/ \E r \in Reader : GetTimeout(r)
           \/ \E r \in Reader : GetReceive(r)
           \/ \E r \in Reader, k \in Key : GetStart(r, k)
           \/ \E s \in Slave : Run(s) /\ Idle
           \/ \E s \in Slave : Inner(s) /\ Idle
           \/ \E s \in Slave : Reply(s) /\ Idle
           \/ \E s \in Slave : (Crash(s) \/ CrashInFlush(s)) /\ Idle
  BY Zenon DEF Next, TPCStep, GetStep, SlaveStep, SlaveFault, Run, Inner, Idle

\* Threads of the master.
LEMMA Callers ==
    /\ Coord \in Caller
    /\ Coord # None
    /\ \A r \in Reader : r \in Caller /\ r # Coord /\ r # None
BY MasterAssumption, SlaveAssumption, Zenon

\* In a request there is a request, and its slaves.
LEMMA MasterFacts ==
    ASSUME TypeOK, phase # "idle"
    PROVE  /\ rqst \in TPCRequest /\ rqst \in Msg
           /\ IsUpdate(rqst)
           /\ rqst.key \in Key
           /\ Rep(1) \in Slave /\ Rep(2) \in Slave
           /\ CurrSlave \in Slave
           /\ (turn = 1 /\ CurrSlave = Rep(1)) \/ (turn = 2 /\ CurrSlave = Rep(2))
           /\ Decision \in Msg /\ Decision # rqst /\ Decision.type \in {"commit", "abort"}
<1>1. rqst \in TPCRequest
  BY Zenon DEF TypeOK
<1>2. rqst \in Msg /\ rqst.key \in Key
  BY <1>1, RequestFacts, Zenon
<1>3. rqst.type \in {"putreq", "delreq"}
  BY <1>1, Zenon DEF TPCRequest
<1>4. turn = 1 \/ turn = 2
  BY DEF TypeOK
<1>5. Rep(1) \in Slave /\ Rep(2) \in Slave
  BY <1>2, MasterAssumption DEF Rep
<1>6. Decision \in Msg /\ Decision.type \in {"commit", "abort"}
  BY Zenon DEF Decision, Commit, Abort, Msg
<1>7. Decision # rqst
  BY <1>3, <1>6, Zenon
<1>8. (turn = 1 /\ CurrSlave = Rep(1)) \/ (turn = 2 /\ CurrSlave = Rep(2))
  BY <1>4, Zenon DEF CurrSlave, Rep
<1> QED
  BY <1>1, <1>2, <1>3, <1>5, <1>6, <1>7, <1>8, Zenon DEF IsUpdate

\* The reader's slave and its request.
LEMMA ReaderFacts ==
    ASSUME TypeOK, NEW r \in Reader, getting[r] # "idle"
    PROVE  /\ getKey[r] \in Key
           /\ GetReq(getKey[r]) \in Msg
           /\ Asked(r) \in Slave
           /\ Asked(r) \in {Replicas[getKey[r]][1], Replicas[getKey[r]][2]}
<1>1. getKey[r] \in Key
  BY Zenon DEF TypeOK
<1>2. GetReq(getKey[r]) \in Msg
  BY <1>1, Zenon DEF GetReq, Msg, OptValue
<1> QED
  BY <1>1, <1>2, MasterAssumption DEF Asked

\* What a worker does with its job, as far as sockets go.
LEMMA RunSteps ==
    ASSUME SlaveTypeOK, Connections = 1, NEW s \in Slave, Run(s)
    PROVE  /\ 1 \in Jobs(s) /\ queue[s][1] \in Job
           /\ \E i \in 1..Len(queue[s]) : Take(s, i)
           /\ step[s] = "idle"
           /\ conn' = conn
           /\ step'[s] \in {"reply", "apply", "dead"}
           /\ \A t \in Slave \ {s} : step'[t] = step[t] /\ resp'[t] = resp[t]
<1>1. PICK i \in 1..Len(queue[s]) :
          RunGet(s, i) \/ RunVote(s, i) \/ RunCommit(s, i) \/ RunAbort(s, i) \/ ReadFails(s, i)
  BY Zenon DEF Run
<1>2. Take(s, i) /\ conn' = conn
  BY <1>1, Zenon DEF RunGet, RunVote, RunCommit, RunAbort, ReadFails
<1>3. step[s] = "idle" /\ 1 \in Jobs(s) /\ queue[s][1] \in Job
  BY <1>2, TakeJobs, JobType, Zenon
<1>4. \E l \in {"reply", "apply", "dead"} : step' = [step EXCEPT ![s] = l]
  BY <1>1, Zenon DEF RunGet, RunVote, RunCommit, RunAbort, ReadFails, Answer
<1>5. step \in [Slave -> Steps] /\ resp \in [Slave -> Resp \cup {Closed}]
  BY Zenon DEF SlaveTypeOK
<1>6. resp' = resp \/ \E x : resp' = [resp EXCEPT ![s] = x]
  BY <1>1, Zenon DEF RunGet, RunVote, RunCommit, RunAbort, ReadFails, Answer
<1> QED
  BY <1>2, <1>3, <1>4, <1>5, <1>6, Zenon

-----------------------------------------------------------------------------
(* Sockets.                                                                *)

\* The places of jobs: the queue and the worker.
LEMMA PlaceFacts ==
    ASSUME SlaveTypeOK, NEW s \in Slave
    PROVE  /\ 0 \in Places(s) /\ From(s, 0) = client[s]
           /\ \A i \in Jobs(s) : i \in Places(s) /\ i # 0 /\ From(s, i) = queue[s][i].from
           /\ \A i \in Places(s) : i = 0 \/ i \in Jobs(s)
           /\ \A i \in Places(s) : i \in Nat
           /\ From(s, 0)' = client'[s]
           /\ \A i \in Nat \ {0} : From(s, i)' = queue'[s][i].from
<1>1. Len(queue[s]) \in Nat
  BY JobType, Zenon
<1> QED
  BY <1>1 DEF Places, Jobs, From

\* A caller with a closed or answered socket has no job.
LEMMA Unheard ==
    ASSUME SlaveTypeOK, Sockets, NEW c \in Caller, conn[c] # Open, NEW s \in Slave
    PROVE  client[s] # c /\ \A i \in Jobs(s) : queue[s][i].from # c
  BY PlaceFacts DEF Sockets, Waits

\* No caller but the sender gets a job, and it had none.
LEMMA CarriedWaits ==
    ASSUME SlaveTypeOK, SlaveTypeOK', NEW c \in Caller, Waits(c), NEW d \in [Slave -> 0..1],
           \A s \in Slave : \A i \in Places(s)' : From(s, i)' = c =>
              i + d[s] \in Places(s) /\ From(s, i + d[s]) = c,
           conn'[c] = conn[c] \/ \A s \in Slave : \A i \in Places(s)' : From(s, i)' # c
    PROVE  Waits(c)'
<1>1. ASSUME NEW s \in Slave, NEW i \in Places(s)', From(s, i)' = c,
             NEW t \in Slave, NEW j \in Places(t)', From(t, j)' = c
      PROVE  conn'[c] = Open /\ s = t /\ i = j
  <2>1. i + d[s] \in Places(s) /\ From(s, i + d[s]) = c
    BY <1>1, Zenon
  <2>2. j + d[t] \in Places(t) /\ From(t, j + d[t]) = c
    BY <1>1, Zenon
  <2>3. conn[c] = Open /\ s = t /\ i + d[s] = j + d[t]
    BY <2>1, <2>2, Zenon DEF Waits
  <2>4. conn'[c] = conn[c]
    BY <1>1, Zenon
  <2>5. i \in Int /\ j \in Int
    BY DEF Places
  <2>6. d[s] \in Int
    OBVIOUS
  <2> QED
    BY <2>3, <2>4, <2>5, <2>6
<1> QED
  BY <1>1, Zenon DEF Waits

\* The same when all jobs stay where they are.
LEMMA KeptWaits ==
    ASSUME SlaveTypeOK, SlaveTypeOK', NEW c \in Caller, Waits(c),
           \A s \in Slave : \A i \in Places(s)' : From(s, i)' = c =>
              i \in Places(s) /\ From(s, i) = c,
           conn'[c] = conn[c] \/ \A s \in Slave : \A i \in Places(s)' : From(s, i)' # c
    PROVE  Waits(c)'
  BY Zenon DEF Waits

\* Send gives the caller, whose socket was closed, its only job.
LEMMA SendSockets ==
    ASSUME SlaveTypeOK, SlaveTypeOK', Sockets, NEW c \in Caller, NEW s \in Slave, NEW m \in Msg,
           Send(c, s, m), UNCHANGED <<step, client>>
    PROVE  Sockets'
<1>1. /\ conn[c] = Closed
      /\ conn' = [conn EXCEPT ![c] = Open]
      /\ \A t \in Slave : \A i \in Jobs(t)' :
            \/ i \in Jobs(t) /\ queue'[t][i] = queue[t][i]
            \/ t = s /\ i = Len(queue[s]) + 1 /\ queue'[t][i] = [msg |-> m, from |-> c]
  BY SendJobs
<1>2. conn \in [Caller -> Socket]
  BY Zenon DEF SlaveTypeOK
<1>3. ASSUME NEW t \in Slave, NEW i \in Places(t)'
      PROVE  \/ i \in Places(t) /\ From(t, i)' = From(t, i)
             \/ t = s /\ i = Len(queue[s]) + 1 /\ From(t, i)' = c
  <2>0. Len(queue'[t]) \in Nat
    BY SequenceFunction, Zenon DEF SlaveTypeOK
  <2>1. CASE i = 0
    BY <2>1, PlaceFacts, Zenon
  <2>2. CASE i # 0
    <3>1. i \in Jobs(t)' /\ i \in Nat \ {0}
      BY <2>0, <2>2 DEF Jobs, Places
    <3>2. From(t, i)' = queue'[t][i].from
      BY <3>1, PlaceFacts, Zenon
    <3>3. [msg |-> m, from |-> c].from = c
      BY Zenon
    <3> QED
      BY <1>1, <3>1, <3>2, <3>3, PlaceFacts
  <2> QED
    BY <2>1, <2>2, Zenon
<1>4. ASSUME NEW e \in Caller, e # c
      PROVE  Waits(e)'
  <2>1. conn'[e] = conn[e]
    BY <1>1, <1>2, <1>4, Zenon
  <2> QED
    BY <1>3, <1>4, <2>1, KeptWaits, Zenon DEF Sockets
<1>5. \A t \in Slave : \A i \in Places(t) : From(t, i) # c
  <2>1. Closed # Open
    BY Zenon DEF Closed, Open
  <2> QED
    BY <1>1, <2>1, Zenon DEF Sockets, Waits
<1>6. Waits(c)'
  <2>1. conn'[c] = Open
    BY <1>1, <1>2, Zenon
  <2> QED
    BY <1>3, <1>5, <2>1, Zenon DEF Waits
<1> QED
  BY <1>4, <1>6, Zenon DEF Sockets

\* Timeout takes the caller off its job.
LEMMA TimeoutSockets ==
    ASSUME SlaveTypeOK, SlaveTypeOK', Sockets, NEW c \in Caller, Timeout(c), UNCHANGED step
    PROVE  Sockets'
<1>1. /\ conn' = [conn EXCEPT ![c] = Closed]
      /\ \A t \in Slave :
            /\ Jobs(t)' = Jobs(t)
            /\ client'[t] = IF client[t] = c THEN None ELSE client[t]
            /\ \A i \in Jobs(t) :
                  queue'[t][i].from = IF queue[t][i].from = c THEN None ELSE queue[t][i].from
  BY TimeoutJobs
<1>2. conn \in [Caller -> Socket]
  BY Zenon DEF SlaveTypeOK
<1>3. ASSUME NEW t \in Slave, NEW i \in Places(t)'
      PROVE  i \in Places(t) /\ From(t, i)' = IF From(t, i) = c THEN None ELSE From(t, i)
  <2>1. CASE i = 0
    BY <1>1, <2>1, PlaceFacts
  <2>2. CASE i # 0
    <3>1. i \in Jobs(t)' /\ i \in Nat \ {0}
      BY <2>2 DEF Jobs, Places
    <3> QED
      BY <1>1, <3>1, PlaceFacts
  <2> QED
    BY <2>1, <2>2, Zenon
<1>4. ASSUME NEW e \in Caller
      PROVE  Waits(e)'
  <2>1. e # c => conn'[e] = conn[e]
    BY <1>1, <1>2, Zenon
  <2>2. e # None /\ Waits(e)
    BY SlaveAssumption, Zenon DEF Sockets
  <2> QED
    BY <1>3, <2>1, <2>2, KeptWaits, Zenon
<1>5. \A s \in Slave : step'[s] \in {"idle", "down", "rebuild"} => client'[s] = None
  BY <1>1, Zenon DEF Sockets
<1> QED
  BY <1>4, <1>5, Zenon DEF Sockets

\* A caller that has read its answer has no job.
LEMMA ReceiveSockets ==
    ASSUME SlaveTypeOK, SlaveTypeOK', Sockets, NEW c \in Caller, Receive(c),
           UNCHANGED <<step, queue, client>>
    PROVE  Sockets'
<1>1. conn[c] # Open /\ conn' = [conn EXCEPT ![c] = Closed] /\ conn \in [Caller -> Socket]
  BY DEF Receive, SlaveTypeOK, Open
<1>2. \A t \in Slave : Places(t)' = Places(t) /\ \A i \in Places(t) : From(t, i)' = From(t, i)
  BY Zenon DEF Places, From
<1>3. ASSUME NEW e \in Caller
      PROVE  Waits(e)'
  <2>1. e # c => conn'[e] = conn[e]
    BY <1>1, Zenon
  <2>2. Waits(e) /\ Waits(c)
    BY Zenon DEF Sockets
  <2>3. \A s \in Slave : \A i \in Places(s) : From(s, i) # c
    BY <1>1, <2>2, Zenon DEF Waits
  <2> QED
    BY <1>2, <2>1, <2>2, <2>3, KeptWaits
<1> QED
  BY <1>3, Zenon DEF Sockets

\* Taking a job moves its caller from the first place of the queue to the worker.
LEMMA RunSockets ==
    ASSUME SlaveTypeOK, SlaveTypeOK', Connections = 1, Sockets, NEW s \in Slave, Run(s)
    PROVE  Sockets'
<1>1. /\ 1 \in Jobs(s)
      /\ step[s] = "idle"
      /\ conn' = conn
      /\ step'[s] \in {"reply", "apply", "dead"}
      /\ \A t \in Slave \ {s} : step'[t] = step[t]
  BY RunSteps, Zenon
<1>2. /\ client' = [client EXCEPT ![s] = queue[s][1].from]
      /\ \A t \in Slave \ {s} : queue'[t] = queue[t] /\ Jobs(t)' = Jobs(t)
      /\ \A j \in Jobs(s)' : j \in Nat /\ j + 1 \in Jobs(s) /\ queue'[s][j] = queue[s][j + 1]
  BY RunSteps, TakeJobs, Zenon
<1>3. client'[s] = queue[s][1].from /\ \A t \in Slave \ {s} : client'[t] = client[t]
  BY <1>2, Zenon DEF SlaveTypeOK
<1>4. ASSUME NEW t \in Slave \ {s}, NEW i \in Places(t)'
      PROVE  i \in Places(t) /\ From(t, i)' = From(t, i)
  BY <1>2, <1>3, Zenon DEF Places, From
<1>5. ASSUME NEW i \in Places(s)'
      PROVE  i + 1 \in Places(s) /\ From(s, i)' = From(s, i + 1)
  <2>1. CASE i = 0
    BY <1>1, <1>3, <2>1, PlaceFacts
  <2>2. CASE i # 0
    <3>1. i \in Jobs(s)' /\ i \in Nat \ {0}
      BY <2>2 DEF Jobs, Places
    <3>2. i + 1 \in Jobs(s) /\ queue'[s][i] = queue[s][i + 1]
      BY <1>2, <3>1, Zenon
    <3>3. From(s, i)' = queue'[s][i].from
      BY <3>1, PlaceFacts, Zenon
    <3>4. i + 1 \in Places(s) /\ From(s, i + 1) = queue[s][i + 1].from
      BY <3>2, PlaceFacts, Zenon
    <3> QED
      BY <3>2, <3>3, <3>4, Zenon
  <2> QED
    BY <2>1, <2>2, Zenon
<1>6. ASSUME NEW c \in Caller
      PROVE  Waits(c)'
  <2> DEFINE d == [t \in Slave |-> IF t = s THEN 1 ELSE 0]
  <2>1. d \in [Slave -> 0..1]
    OBVIOUS
  <2>2. ASSUME NEW t \in Slave, NEW i \in Places(t)', From(t, i)' = c
        PROVE  i + d[t] \in Places(t) /\ From(t, i + d[t]) = c
    <3>1. CASE t = s
      BY <1>5, <2>2, <3>1, Zenon
    <3>2. CASE t # s
      <4>1. i \in Places(t) /\ From(t, i) = c
        BY <1>4, <2>2, <3>2, Zenon
      <4>2. i \in Nat
        BY <4>1, PlaceFacts, Zenon
      <4>3. i + d[t] = i
        BY <3>2, <4>2
      <4> QED
        BY <4>1, <4>3, Zenon
    <3> QED
      BY <3>1, <3>2, Zenon
  <2>3. Waits(c) /\ conn'[c] = conn[c]
    BY <1>1, Zenon DEF Sockets
  <2> HIDE DEF d
  <2> QED
    BY <2>1, <2>2, <2>3, CarriedWaits, Zenon
<1>7. \A t \in Slave : step'[t] \in {"idle", "down", "rebuild"} => client'[t] = None
  BY <1>1, <1>3, Zenon DEF Sockets
<1> QED
  BY <1>6, <1>7, Zenon DEF Sockets

\* An answer fills the socket of the caller of the job that is done.
LEMMA ReplySockets ==
    ASSUME SlaveTypeOK, SlaveTypeOK', Sockets, NEW s \in Slave, Reply(s)
    PROVE  Sockets'
<1>1. /\ client'[s] = None /\ \A t \in Slave \ {s} : client'[t] = client[t]
      /\ step'[s] = "idle" /\ \A t \in Slave \ {s} : step'[t] = step[t]
      /\ queue' = queue
      /\ \A c \in Caller : conn'[c] = IF client[s] = c THEN resp[s] ELSE conn[c]
  BY Zenon DEF Reply, SlaveTypeOK
<1>2. ASSUME NEW t \in Slave, NEW i \in Places(t)'
      PROVE  /\ i \in Places(t)
             /\ From(t, i)' = IF t = s /\ i = 0 THEN None ELSE From(t, i)
  BY <1>1, Zenon DEF Places, From
<1>3. ASSUME NEW c \in Caller
      PROVE  Waits(c)'
  <2>1. c # None /\ Waits(c)
    BY SlaveAssumption, Zenon DEF Sockets
  <2>2. client[s] = c => \A t \in Slave : \A i \in Places(t) : From(t, i) = c => t = s /\ i = 0
    BY <2>1, PlaceFacts DEF Waits
  <2> QED
    BY <1>1, <1>2, <2>1, <2>2, KeptWaits
<1> QED
  BY <1>1, <1>3, Zenon DEF Sockets

\* A slave that dies has no jobs.
LEMMA DieSockets ==
    ASSUME SlaveTypeOK, SlaveTypeOK', Sockets, NEW s \in Slave, Die(s)
    PROVE  Sockets'
<1>1. /\ Jobs(s)' = {}
      /\ client'[s] = None /\ step'[s] = "down"
      /\ \A t \in Slave \ {s} :
            /\ queue'[t] = queue[t] /\ Jobs(t)' = Jobs(t)
            /\ client'[t] = client[t] /\ step'[t] = step[t]
  BY DieJobs, Zenon
<1>2. ASSUME NEW t \in Slave \ {s}, NEW i \in Places(t)'
      PROVE  i \in Places(t) /\ From(t, i)' = From(t, i)
  BY <1>1, Zenon DEF Places, From
<1>3. ASSUME NEW i \in Places(s)'
      PROVE  From(s, i)' = None
  <2>1. i = 0
    BY <1>1 DEF Jobs, Places
  <2> QED
    BY <1>1, <2>1, PlaceFacts, Zenon
<1>4. ASSUME NEW c \in Caller
      PROVE  Waits(c)'
  <2>1. c # None /\ Waits(c) /\ conn'[c] = conn[c]
    BY SlaveAssumption, Zenon DEF Sockets, Die
  <2>2. \A t \in Slave : \A i \in Places(t)' : From(t, i)' = c => i \in Places(t) /\ From(t, i) = c
    BY <1>2, <1>3, <2>1, Zenon
  <2> QED
    BY <2>1, <2>2, KeptWaits, Zenon
<1> QED
  BY <1>1, <1>4, Zenon DEF Sockets

\* The other steps.
LEMMA StillSockets ==
    ASSUME SlaveTypeOK, SlaveTypeOK', Sockets, UNCHANGED <<queue, client, conn>>,
           \A s \in Slave : step'[s] \in {"idle", "down", "rebuild"} =>
              step[s] \in {"idle", "down", "rebuild"}
    PROVE  Sockets'
<1>1. \A c \in Caller : Waits(c)'
  BY DEF Sockets, Waits, Places, From
<1> QED
  BY <1>1, Zenon DEF Sockets

\* Steps of a slave that concern no job.
LEMMA InnerSteps ==
    ASSUME SlaveTypeOK, NEW s \in Slave, Inner(s)
    PROVE  /\ UNCHANGED <<queue, client, conn, log, hist>>
           /\ \A t \in Slave : step'[t] \in {"idle", "down", "rebuild"} =>
                 step[t] \in {"idle", "down", "rebuild"}
           /\ \A t \in Slave \ {s} : step'[t] = step[t] /\ resp'[t] = resp[t]
           /\ step[s] \in {"apply", "down", "rebuild"}
           /\ step[s] = "apply" => step'[s] = "reply" /\ Apply(s)
<1>1. step \in [Slave -> Steps] /\ resp \in [Slave -> Resp \cup {Closed}]
  BY Zenon DEF SlaveTypeOK
<1>2. CASE Apply(s)
  BY <1>1, <1>2, Zenon DEF Apply, Answer
<1>3. CASE Restart(s)
  BY <1>1, <1>3, Zenon DEF Restart
<1>4. CASE RebuildServer(s)
  BY <1>1, <1>4, Zenon DEF RebuildServer
<1>5. CASE Register(s)
  BY <1>1, <1>5, Zenon DEF Register
<1> QED
  BY <1>2, <1>3, <1>4, <1>5, Zenon DEF Inner

\* Every step keeps each caller waiting for at most one job.
LEMMA SocketsNext ==
    ASSUME TypeOK, TypeOK', Connections = 1, Sockets, Next
    PROVE  Sockets'
<1> USE TypeParts
<1>0. SlaveTypeOK /\ SlaveTypeOK' /\ Coord \in Caller /\ \A r \in Reader : r \in Caller
  BY Callers, Zenon
<1>1. ASSUME UNCHANGED <<queue, client, conn, step>>
      PROVE  Sockets'
  BY <1>0, <1>1, StillSockets, Zenon
<1>2. ASSUME NEW m \in TPCRequest, Request(m)
      PROVE  Sockets'
  BY <1>1, <1>2, Zenon DEF Request, slaveVars
<1>3. CASE Phase1Send
  <2>1. CurrSlave \in Slave /\ rqst \in Msg
    BY <1>3, MasterFacts, Zenon DEF Phase1Send
  <2> QED
    BY <1>0, <1>3, <2>1, SendSockets, Zenon DEF Phase1Send
<1>4. CASE Phase1Connect
  BY <1>1, <1>4, Zenon DEF Phase1Connect
<1>5. CASE Phase1Timeout
  BY <1>0, <1>5, TimeoutSockets, Zenon DEF Phase1Timeout
<1>6. CASE Phase1Receive
  BY <1>0, <1>6, ReceiveSockets, Zenon DEF Phase1Receive
<1>7. CASE Phase2Send
  <2>1. CurrSlave \in Slave /\ Decision \in Msg
    BY <1>7, MasterFacts, Zenon DEF Phase2Send
  <2>2. Send(Coord, CurrSlave, Decision)
    BY <1>7, Zenon DEF Phase2Send, Decision
  <2> QED
    BY <1>0, <1>7, <2>1, <2>2, SendSockets, Zenon DEF Phase2Send
<1>8. CASE Phase2Timeout
  BY <1>0, <1>8, TimeoutSockets, Zenon DEF Phase2Timeout
<1>9. CASE Phase2Receive
  BY <1>0, <1>9, ReceiveSockets, Zenon DEF Phase2Receive
<1>10. CASE Flush
  BY <1>1, <1>10, Zenon DEF Flush, slaveVars
<1>11. ASSUME NEW r \in Reader, GetSend(r)
       PROVE  Sockets'
  <2>1. Asked(r) \in Slave /\ GetReq(getKey[r]) \in Msg
    BY <1>11, ReaderFacts, Zenon DEF GetSend
  <2> QED
    BY <1>0, <1>11, <2>1, SendSockets, Zenon DEF GetSend
<1>12. ASSUME NEW r \in Reader, GetConnect(r)
       PROVE  Sockets'
  BY <1>1, <1>12, Zenon DEF GetConnect
<1>13. ASSUME NEW r \in Reader, GetTimeout(r)
       PROVE  Sockets'
  BY <1>0, <1>13, TimeoutSockets, Zenon DEF GetTimeout
<1>14. ASSUME NEW r \in Reader, GetReceive(r)
       PROVE  Sockets'
  BY <1>0, <1>14, ReceiveSockets, Zenon DEF GetReceive
<1>15. ASSUME NEW r \in Reader, NEW k \in Key, GetStart(r, k)
       PROVE  Sockets'
  BY <1>1, <1>15, Zenon DEF GetStart, slaveVars
<1>16. ASSUME NEW s \in Slave, Run(s)
       PROVE  Sockets'
  BY <1>0, <1>16, RunSockets, Zenon
<1>17. ASSUME NEW s \in Slave, Inner(s)
       PROVE  Sockets'
  BY <1>0, <1>17, InnerSteps, StillSockets, Zenon
<1>18. ASSUME NEW s \in Slave, Reply(s)
       PROVE  Sockets'
  BY <1>0, <1>18, ReplySockets, Zenon
<1>19. ASSUME NEW s \in Slave, Crash(s) \/ CrashInFlush(s)
       PROVE  Sockets'
  BY <1>0, <1>19, DieSockets, Zenon DEF Crash, CrashInFlush
<1> QED
  BY <1>2, <1>3, <1>4, <1>5, <1>6, <1>7, <1>8, <1>9, <1>10, <1>11, <1>12, <1>13, <1>14,
     <1>15, <1>16, <1>17, <1>18, <1>19, StepCases, Zenon

-----------------------------------------------------------------------------
(* The jobs of a request.                                                  *)

\* In the next state, too, a caller with a closed socket has no job.
LEMMA UnheardNext ==
    ASSUME SlaveTypeOK', Sockets', NEW c \in Caller, conn'[c] # Open, NEW s \in Slave
    PROVE  client'[s] # c /\ \A i \in Jobs(s)' : queue'[s][i].from # c
<1>1. Waits(c)'
  BY Zenon DEF Sockets
<1>2. Len(queue'[s]) \in Nat
  BY SequenceFunction, Zenon DEF SlaveTypeOK
<1>3. 0 \in Places(s)' /\ From(s, 0)' = client'[s]
  BY <1>2 DEF Places, From
<1>4. \A i \in Jobs(s)' : i \in Places(s)' /\ From(s, i)' = queue'[s][i].from
  BY <1>2 DEF Places, From, Jobs
<1> QED
  BY <1>1, <1>3, <1>4, Zenon DEF Waits

\* What the operators on the master's state depend on.
LEMMA MasterStill ==
    ASSUME UNCHANGED masterVars
    PROVE  /\ CurrSlave' = CurrSlave /\ Decision' = Decision
           /\ phase' = phase /\ rqst' = rqst /\ turn' = turn
           /\ InPhase' <=> InPhase
           /\ Committing' <=> Committing
           /\ \A j \in 1..2 : Rep(j)' = Rep(j)
           /\ \A s, m : Belongs(s, m)' <=> Belongs(s, m)
<1>1. /\ phase' = phase /\ rqst' = rqst /\ turn' = turn
      /\ globalAbort' = globalAbort
  BY Zenon DEF masterVars
<1>2. CurrSlave' = CurrSlave /\ Decision' = Decision /\ \A j \in 1..2 : Rep(j)' = Rep(j)
  BY <1>1, Zenon DEF CurrSlave, Decision, Rep
<1>3. (InPhase' <=> InPhase) /\ (Committing' <=> Committing)
  BY <1>1, Zenon DEF InPhase, Committing
<1>4. \A s, m : Belongs(s, m)' <=> Belongs(s, m)
  BY <1>1, <1>2, Zenon DEF Belongs, Rep
<1> QED
  BY <1>1, <1>2, <1>3, <1>4, Zenon

\* Where a job may be, by its message.
LEMMA PlacedBy ==
    ASSUME NEW s, NEW i
    PROVE  /\ \A m : m = queue[s][i].msg => (Placed(s, i) <=> (m.type # "getreq" => Belongs(s, m)))
           /\ \A m : m = queue'[s][i].msg =>
                 (Placed(s, i)' <=> (m.type # "getreq" => Belongs(s, m)'))
<1>1. ASSUME NEW m, m = queue'[s][i].msg
      PROVE  Placed(s, i)' <=> (m.type # "getreq" => Belongs(s, m)')
  BY <1>1, Zenon DEF Placed, TPCJob, Belongs
<1> QED
  BY <1>1, Zenon DEF Placed, TPCJob

\* A job that stays, while the master does not move.
LEMMA PlacedStill ==
    ASSUME UNCHANGED masterVars, NEW s, NEW i, NEW j, Placed(s, i),
           queue'[s][j].msg = queue[s][i].msg
    PROVE  Placed(s, j)' /\ (TPCJob(s, j)' <=> TPCJob(s, i))
<1> DEFINE m == queue[s][i].msg
<1>1. Placed(s, i) <=> (m.type # "getreq" => Belongs(s, m))
  BY Zenon DEF Placed, TPCJob
<1>2. PICK n : n = m
  BY Zenon
<1>3. Placed(s, j)' <=> (n.type # "getreq" => Belongs(s, n)')
  BY <1>2, PlacedBy, Zenon
<1> QED
  BY <1>1, <1>2, <1>3, MasterStill, Zenon DEF TPCJob

\* When the master goes on, its socket is closed: what is left to show is where
\* the remaining jobs are.
LEMMA MovedPipeline ==
    ASSUME SlaveTypeOK', Sockets', conn'[Coord] = Closed,
           \A s \in Slave : \A i \in Jobs(s)' : Placed(s, i)'
    PROVE  Pipeline'
<1>1. Closed # Open /\ Closed.type \notin Answers
  BY Zenon DEF Closed, Open, Answers
<1>2. \A s \in Slave : client'[s] # Coord /\ \A i \in Jobs(s)' : queue'[s][i].from # Coord
  BY <1>1, Callers, UnheardNext, Zenon
<1> QED
  BY <1>1, <1>2, Zenon DEF Pipeline

\* The master sends the next job of its request.
LEMMA SendPipeline ==
    ASSUME TypeOK, TypeOK', Sockets, Pipeline, UNCHANGED <<masterVars, client>>,
           NEW m \in Msg, Send(Coord, CurrSlave, m), CurrSlave \in Slave, InPhase,
           m.type # "getreq", Belongs(CurrSlave, m), phase = "phase2" => m = Decision
    PROVE  Pipeline'
<1> USE TypeParts
<1> DEFINE n == Len(queue[CurrSlave]) + 1
<1>1. /\ conn[Coord] = Closed
      /\ conn' = [conn EXCEPT ![Coord] = Open]
      /\ \A t \in Slave : \A i \in Jobs(t)' :
            \/ i \in Jobs(t) /\ queue'[t][i] = queue[t][i]
            \/ t = CurrSlave /\ i = n /\ queue'[t][i] = [msg |-> m, from |-> Coord]
  BY Callers, SendJobs
<1>2. Closed # Open /\ Open.type \notin Answers
  BY Zenon DEF Closed, Open, Answers
<1>3. conn'[Coord] = Open
  BY <1>1, Callers, Zenon DEF SlaveTypeOK
<1>4. \A t \in Slave : client[t] # Coord /\ \A i \in Jobs(t) : queue[t][i].from # Coord
  BY <1>1, <1>2, Callers, Unheard, Zenon
<1>5. /\ [msg |-> m, from |-> Coord].msg = m /\ [msg |-> m, from |-> Coord].from = Coord
  BY Zenon
<1>6. ASSUME NEW t \in Slave, NEW i \in Jobs(t)'
      PROVE  Placed(t, i)'
  <2>1. CASE i \in Jobs(t) /\ queue'[t][i] = queue[t][i]
    BY <2>1, PlacedStill, Zenon DEF Pipeline
  <2>2. CASE t = CurrSlave /\ queue'[t][i] = [msg |-> m, from |-> Coord]
    BY <1>5, <2>2, MasterStill, PlacedBy, Zenon
  <2> QED
    BY <1>1, <2>1, <2>2, Zenon
<1>7. ASSUME NEW t \in Slave, NEW i \in Jobs(t)', queue'[t][i].from = Coord
      PROVE  Awaited(t, i)'
  <2>1. t = CurrSlave /\ i = n /\ queue'[t][i] = [msg |-> m, from |-> Coord]
    BY <1>1, <1>4, <1>7, Zenon
  <2>2. TPCJob(t, i)' /\ (phase' = "phase2" => queue'[t][i].msg = Decision') /\ t = CurrSlave'
    BY <1>5, <2>1, MasterStill, Zenon DEF TPCJob
  <2>3. ASSUME NEW j \in Jobs(t)'
        PROVE  ~(j > i)
    <3>1. Len(queue[t]) \in Nat
      BY <2>1, JobType, Zenon
    <3>2. j \in Jobs(t) \/ j = n
      BY <1>1, Zenon
    <3> QED
      BY <2>1, <3>1, <3>2 DEF Jobs
  <2> QED
    BY <2>2, <2>3, Zenon DEF Awaited
<1>8. InPhase' /\ \A t \in Slave : client'[t] # Coord
  BY <1>4, MasterStill, Zenon
<1> QED
  BY <1>2, <1>3, <1>6, <1>7, <1>8, Zenon DEF Pipeline

\* A reader sends a job, which is none of handleTPCRequest.
LEMMA GetSendPipeline ==
    ASSUME TypeOK, TypeOK', Pipeline, UNCHANGED <<masterVars, client>>,
           NEW r \in Reader, NEW s \in Slave, NEW m \in Msg, Send(r, s, m), m.type = "getreq"
    PROVE  Pipeline'
<1> USE TypeParts
<1> DEFINE job == [msg |-> m, from |-> r]
<1>1. /\ conn' = [conn EXCEPT ![r] = Open]
      /\ \A t \in Slave : \A i \in Jobs(t)' :
            \/ i \in Jobs(t) /\ queue'[t][i] = queue[t][i]
            \/ t = s /\ i = Len(queue[s]) + 1 /\ queue'[t][i] = job
  BY Callers, SendJobs
<1>2. conn'[Coord] = conn[Coord]
  BY <1>1, Callers, Zenon DEF SlaveTypeOK
<1>3. job.msg = m /\ job.from = r /\ r # Coord
  BY Callers, Zenon
<1> HIDE DEF job
<1>4. ASSUME NEW t \in Slave, NEW i \in Jobs(t)'
      PROVE  /\ Placed(t, i)'
             /\ \/ i \in Jobs(t) /\ queue'[t][i] = queue[t][i] /\ (TPCJob(t, i)' <=> TPCJob(t, i))
                \/ queue'[t][i].from # Coord /\ ~TPCJob(t, i)'
  <2>1. CASE i \in Jobs(t) /\ queue'[t][i] = queue[t][i]
    BY <2>1, PlacedStill, Zenon DEF Pipeline
  <2>2. CASE queue'[t][i] = job
    BY <1>3, <2>2, PlacedBy, Zenon DEF TPCJob
  <2> QED
    BY <1>1, <2>1, <2>2, Zenon
<1>5. ASSUME NEW t \in Slave, NEW i \in Jobs(t)', queue'[t][i].from = Coord
      PROVE  Awaited(t, i)'
  <2>1. i \in Jobs(t) /\ queue'[t][i] = queue[t][i] /\ Awaited(t, i) /\ TPCJob(t, i)'
    BY <1>4, <1>5, Zenon DEF Pipeline, Awaited
  <2> QED
    BY <1>4, <2>1, MasterStill, Zenon DEF Awaited
<1>6. \A t \in Slave : NoTPCJob(t) => NoTPCJob(t)'
  BY <1>4, Zenon DEF NoTPCJob
<1>7. CurrSlave \in Slave \/ conn[Coord] = Closed
  BY MasterFacts, Zenon DEF Pipeline, InPhase
<1>8. Closed.type \notin Answers
  BY Zenon DEF Closed, Answers
<1>9. conn'[Coord].type \in Answers => NoTPCJob(CurrSlave)'
  BY <1>2, <1>6, <1>7, <1>8, MasterStill, Zenon DEF Pipeline, NoTPCJob
<1>10. conn'[Coord] # Closed => InPhase'
  BY <1>2, MasterStill, Zenon DEF Pipeline
<1>11. \A t \in Slave : client'[t] = Coord => t = CurrSlave' /\ NoTPCJob(t)'
  BY <1>6, MasterStill, Zenon DEF Pipeline
<1> QED
  BY <1>4, <1>5, <1>9, <1>10, <1>11, Zenon DEF Pipeline

\* A caller gives up: the jobs stay.
LEMMA TimeoutPipeline ==
    ASSUME TypeOK, TypeOK', Pipeline, UNCHANGED masterVars, NEW c \in Caller, Timeout(c)
    PROVE  Pipeline'
<1> USE TypeParts
<1>1. /\ conn[c] = Open /\ conn' = [conn EXCEPT ![c] = Closed]
      /\ \A t \in Slave :
            /\ Jobs(t)' = Jobs(t)
            /\ client'[t] = IF client[t] = c THEN None ELSE client[t]
            /\ \A i \in Jobs(t) :
                  /\ queue'[t][i].msg = queue[t][i].msg
                  /\ queue'[t][i].from = IF queue[t][i].from = c THEN None ELSE queue[t][i].from
  BY TimeoutJobs, Zenon
<1>2. conn'[Coord] = conn[Coord] \/ conn'[Coord] = Closed
  BY <1>1, Callers, Zenon DEF SlaveTypeOK
<1>3. ASSUME NEW t \in Slave, NEW i \in Jobs(t)
      PROVE  Placed(t, i)' /\ (TPCJob(t, i)' <=> TPCJob(t, i))
  BY <1>1, PlacedStill, Zenon DEF Pipeline
<1>4. ASSUME NEW t \in Slave, NEW i \in Jobs(t)', queue'[t][i].from = Coord
      PROVE  Awaited(t, i)'
  <2>1. i \in Jobs(t) /\ queue[t][i].from = Coord
    BY <1>1, <1>4, Callers, Zenon
  <2>2. Awaited(t, i)
    BY <2>1, Zenon DEF Pipeline
  <2> QED
    BY <1>1, <1>3, <2>1, <2>2, MasterStill, Zenon DEF Awaited
<1>5. \A t \in Slave : NoTPCJob(t) => NoTPCJob(t)'
  BY <1>1, <1>3, Zenon DEF NoTPCJob
<1>6. \A t \in Slave : client'[t] = Coord => client[t] = Coord
  BY <1>1, Callers, Zenon
<1>7. Closed.type \notin Answers
  BY Zenon DEF Closed, Answers
<1>8. CurrSlave \in Slave \/ conn[Coord] = Closed
  BY MasterFacts, Zenon DEF Pipeline, InPhase
<1>9. conn'[Coord].type \in Answers => NoTPCJob(CurrSlave)'
  BY <1>2, <1>5, <1>7, <1>8, MasterStill, Zenon DEF Pipeline, NoTPCJob
<1>10. conn'[Coord] # Closed => InPhase'
  BY <1>2, MasterStill, Zenon DEF Pipeline
<1>11. \A t \in Slave : client'[t] = Coord => t = CurrSlave' /\ NoTPCJob(t)'
  BY <1>5, <1>6, MasterStill, Zenon DEF Pipeline
<1> QED
  BY <1>1, <1>3, <1>4, <1>9, <1>10, <1>11, Zenon DEF Pipeline

\* Steps that concern no job and do not move the master.
LEMMA StillPipeline ==
    ASSUME TypeOK, Pipeline, UNCHANGED <<masterVars, queue, client>>, conn'[Coord] = conn[Coord]
    PROVE  Pipeline'
<1>1. \A t : Jobs(t)' = Jobs(t)
  BY Zenon DEF Jobs
<1>2. ASSUME NEW t \in Slave, NEW i \in Jobs(t)
      PROVE  Placed(t, i)' /\ (TPCJob(t, i)' <=> TPCJob(t, i))
  BY PlacedStill, Zenon DEF Pipeline
<1>3. ASSUME NEW t \in Slave, NEW i \in Jobs(t), queue[t][i].from = Coord
      PROVE  Awaited(t, i)'
  <2>1. Awaited(t, i)
    BY <1>3, Zenon DEF Pipeline
  <2> QED
    BY <1>1, <1>2, <2>1, MasterStill, Zenon DEF Awaited
<1>4. \A t \in Slave : NoTPCJob(t) => NoTPCJob(t)'
  BY <1>1, <1>2, Zenon DEF NoTPCJob
<1>5. CurrSlave \in Slave \/ conn[Coord] = Closed
  BY MasterFacts, Zenon DEF Pipeline, InPhase
<1>6. Closed.type \notin Answers
  BY Zenon DEF Closed, Answers
<1>7. conn'[Coord].type \in Answers => NoTPCJob(CurrSlave)'
  BY <1>4, <1>5, <1>6, MasterStill, Zenon DEF Pipeline, NoTPCJob
<1>8. conn'[Coord] # Closed => InPhase'
  BY MasterStill, Zenon DEF Pipeline
<1>9. \A t \in Slave : client'[t] = Coord => t = CurrSlave' /\ NoTPCJob(t)'
  BY <1>4, MasterStill, Zenon DEF Pipeline
<1> QED
  BY <1>1, <1>2, <1>3, <1>7, <1>8, <1>9, Zenon DEF Pipeline

\* The worker takes the first job: when it is the one the master waits for, it
\* was the last of the request.
LEMMA RunPipeline ==
    ASSUME TypeOK, TypeOK', Connections = 1, Pipeline, UNCHANGED masterVars,
           NEW s \in Slave, Run(s)
    PROVE  Pipeline'
<1> USE TypeParts
<1>1. /\ 1 \in Jobs(s) /\ conn' = conn
      /\ client' = [client EXCEPT ![s] = queue[s][1].from]
      /\ \A t \in Slave \ {s} : queue'[t] = queue[t] /\ Jobs(t)' = Jobs(t)
      /\ \A j \in Jobs(s)' : j \in Nat /\ j + 1 \in Jobs(s) /\ queue'[s][j] = queue[s][j + 1]
  BY RunSteps, TakeJobs, Zenon
<1>2. client'[s] = queue[s][1].from /\ \A t \in Slave \ {s} : client'[t] = client[t]
  BY <1>1, Zenon DEF SlaveTypeOK
<1>3. ASSUME NEW t \in Slave \ {s}, NEW i \in Jobs(t)'
      PROVE  i \in Jobs(t) /\ Placed(t, i)' /\ (TPCJob(t, i)' <=> TPCJob(t, i))
  BY <1>1, PlacedStill, Zenon DEF Pipeline
<1>4. ASSUME NEW i \in Jobs(s)'
      PROVE  i + 1 \in Jobs(s) /\ Placed(s, i)' /\ (TPCJob(s, i)' <=> TPCJob(s, i + 1))
  <2>1. i + 1 \in Jobs(s) /\ queue'[s][i].msg = queue[s][i + 1].msg
    BY <1>1, Zenon
  <2>2. Placed(s, i + 1)
    BY <2>1, Zenon DEF Pipeline
  <2> QED
    BY <2>1, <2>2, PlacedStill, Zenon
<1>5. \A t \in Slave : NoTPCJob(t) => NoTPCJob(t)'
  BY <1>1, <1>3, <1>4, Zenon DEF NoTPCJob
<1>6. ASSUME NEW t \in Slave \ {s}, NEW i \in Jobs(t)', queue'[t][i].from = Coord
      PROVE  Awaited(t, i)'
  <2>1. Awaited(t, i)
    BY <1>1, <1>3, <1>6, Zenon DEF Pipeline
  <2> QED
    BY <1>1, <1>3, <2>1, MasterStill, Zenon DEF Awaited
<1>7. ASSUME NEW i \in Jobs(s)', queue'[s][i].from = Coord
      PROVE  Awaited(s, i)'
  <2>1. i \in Nat /\ i + 1 \in Jobs(s) /\ queue'[s][i] = queue[s][i + 1]
    BY <1>1, Zenon
  <2>2. Awaited(s, i + 1)
    BY <1>7, <2>1, Zenon DEF Pipeline
  <2>3. ASSUME NEW j \in Jobs(s)', j > i
        PROVE  ~TPCJob(s, j)'
    <3>1. j \in Nat /\ j + 1 \in Jobs(s) /\ j + 1 > i + 1
      BY <1>1, <2>1, <2>3
    <3> QED
      BY <1>4, <2>2, <3>1, Zenon DEF Awaited
  <2> QED
    BY <1>4, <2>1, <2>2, <2>3, MasterStill, Zenon DEF Awaited
<1>8. ASSUME queue[s][1].from = Coord
      PROVE  s = CurrSlave' /\ NoTPCJob(s)'
  <2>1. Awaited(s, 1)
    BY <1>1, <1>8, Zenon DEF Pipeline
  <2>2. ASSUME NEW j \in Jobs(s)'
        PROVE  ~TPCJob(s, j)'
    <3>1. j + 1 \in Jobs(s) /\ j + 1 > 1
      BY <1>1 DEF Jobs
    <3> QED
      BY <1>4, <2>1, <3>1, Zenon DEF Awaited
  <2> QED
    BY <2>1, <2>2, MasterStill, Zenon DEF Awaited, NoTPCJob
<1>9. \A t \in Slave : client'[t] = Coord => t = CurrSlave' /\ NoTPCJob(t)'
  BY <1>2, <1>5, <1>8, MasterStill, Zenon DEF Pipeline
<1>10. CurrSlave \in Slave \/ conn[Coord] = Closed
  BY MasterFacts, Zenon DEF Pipeline, InPhase
<1>11. Closed.type \notin Answers
  BY Zenon DEF Closed, Answers
<1>12. conn'[Coord].type \in Answers => NoTPCJob(CurrSlave)'
  BY <1>1, <1>5, <1>10, <1>11, MasterStill, Zenon DEF Pipeline, NoTPCJob
<1>13. conn'[Coord] # Closed => InPhase'
  BY <1>1, MasterStill, Zenon DEF Pipeline
<1> QED
  BY <1>3, <1>4, <1>6, <1>7, <1>9, <1>12, <1>13, Zenon DEF Pipeline

\* The answer to the last job of a request leaves none.
LEMMA ReplyPipeline ==
    ASSUME TypeOK, TypeOK', Sockets, Pipeline, UNCHANGED masterVars, NEW s \in Slave, Reply(s)
    PROVE  Pipeline'
<1> USE TypeParts
<1>1. /\ client'[s] = None /\ \A t \in Slave \ {s} : client'[t] = client[t]
      /\ queue' = queue
      /\ \A c \in Caller : conn'[c] = IF client[s] = c THEN resp[s] ELSE conn[c]
  BY Zenon DEF Reply, SlaveTypeOK
<1>2. \A t : Jobs(t)' = Jobs(t)
  BY <1>1, Zenon DEF Jobs
<1>3. ASSUME NEW t \in Slave, NEW i \in Jobs(t)
      PROVE  Placed(t, i)' /\ (TPCJob(t, i)' <=> TPCJob(t, i))
  BY <1>1, PlacedStill, Zenon DEF Pipeline
<1>4. ASSUME NEW t \in Slave, NEW i \in Jobs(t), queue[t][i].from = Coord
      PROVE  Awaited(t, i)'
  <2>1. Awaited(t, i)
    BY <1>4, Zenon DEF Pipeline
  <2> QED
    BY <1>1, <1>2, <1>3, <2>1, MasterStill, Zenon DEF Awaited
<1>5. \A t \in Slave : NoTPCJob(t) => NoTPCJob(t)'
  BY <1>2, <1>3, Zenon DEF NoTPCJob
<1>6. \A t \in Slave : client'[t] = Coord => t = CurrSlave' /\ NoTPCJob(t)'
  BY <1>1, <1>5, Callers, MasterStill, Zenon DEF Pipeline
<1>7. client[s] = Coord => conn[Coord] = Open
  BY PlaceFacts, Callers, Zenon DEF Sockets, Waits
<1>8. Open # Closed /\ Closed.type \notin Answers
  BY Zenon DEF Open, Closed, Answers
<1>9. conn'[Coord] # Closed => InPhase'
  BY <1>1, <1>7, <1>8, Callers, MasterStill, Zenon DEF Pipeline
<1>10. CurrSlave \in Slave \/ conn[Coord] = Closed
  BY MasterFacts, Zenon DEF Pipeline, InPhase
<1>11. conn'[Coord].type \in Answers => CurrSlave \in Slave /\ NoTPCJob(CurrSlave)
  BY <1>1, <1>7, <1>8, <1>10, Callers, Zenon DEF Pipeline
<1>12. conn'[Coord].type \in Answers => NoTPCJob(CurrSlave)'
  BY <1>5, <1>11, MasterStill, Zenon DEF NoTPCJob
<1> QED
  BY <1>1, <1>2, <1>3, <1>4, <1>6, <1>9, <1>12, Zenon DEF Pipeline

\* A slave that dies loses its jobs.
LEMMA DiePipeline ==
    ASSUME TypeOK, TypeOK', Pipeline, UNCHANGED masterVars, NEW s \in Slave, Die(s)
    PROVE  Pipeline'
<1> USE TypeParts
<1>1. /\ Jobs(s)' = {} /\ client'[s] = None
      /\ \A t \in Slave \ {s} : queue'[t] = queue[t] /\ Jobs(t)' = Jobs(t) /\ client'[t] = client[t]
      /\ conn' = conn
  BY DieJobs, Zenon DEF Die
<1>2. ASSUME NEW t \in Slave \ {s}, NEW i \in Jobs(t)
      PROVE  Placed(t, i)' /\ (TPCJob(t, i)' <=> TPCJob(t, i))
  BY <1>1, PlacedStill, Zenon DEF Pipeline
<1>3. ASSUME NEW t \in Slave \ {s}, NEW i \in Jobs(t), queue[t][i].from = Coord
      PROVE  Awaited(t, i)'
  <2>1. Awaited(t, i)
    BY <1>3, Zenon DEF Pipeline
  <2> QED
    BY <1>1, <1>2, <2>1, MasterStill, Zenon DEF Awaited
<1>4. NoTPCJob(s)' /\ \A t \in Slave : NoTPCJob(t) => NoTPCJob(t)'
  BY <1>1, <1>2, Zenon DEF NoTPCJob
<1>5. CurrSlave \in Slave \/ conn[Coord] = Closed
  BY MasterFacts, Zenon DEF Pipeline, InPhase
<1>6. Closed.type \notin Answers
  BY Zenon DEF Closed, Answers
<1>7. conn'[Coord].type \in Answers => NoTPCJob(CurrSlave)'
  BY <1>1, <1>4, <1>5, <1>6, MasterStill, Zenon DEF Pipeline, NoTPCJob
<1>8. conn'[Coord] # Closed => InPhase'
  BY <1>1, MasterStill, Zenon DEF Pipeline
<1>9. \A t \in Slave : client'[t] = Coord => t = CurrSlave' /\ NoTPCJob(t)'
  BY <1>1, <1>4, Callers, MasterStill, Zenon DEF Pipeline
<1> QED
  BY <1>1, <1>2, <1>3, <1>7, <1>8, <1>9 DEF Pipeline

\* The end of an iteration of phase 1: the jobs it leaves behind belong to a
\* request that will be aborted.
LEMMA VotePlaced ==
    ASSUME TypeOK, phase = "phase1", NEW a \in BOOLEAN, NextVote(a),
           NEW s \in Slave, NEW m, Belongs(s, m), s = CurrSlave => a
    PROVE  Belongs(s, m)'
<1>1. /\ rqst' = rqst /\ globalAbort' = (globalAbort \/ a)
      /\ turn' = (IF turn = 1 THEN 2 ELSE 1)
      /\ phase' = (IF turn = 1 THEN "phase1" ELSE "phase2")
  BY Zenon DEF NextVote
<1>2. \A j \in 1..2 : Rep(j)' = Rep(j)
  BY <1>1, Zenon DEF Rep
<1>3. m = rqst /\ (s = CurrSlave \/ (globalAbort /\ s = Rep(1))) /\ globalAbort'
  BY <1>1, Zenon DEF Belongs
<1>4. CASE turn = 1
  <2>1. CurrSlave = Rep(1) /\ phase' = "phase1"
    BY <1>1, <1>4, Zenon DEF CurrSlave, Rep
  <2>2. s = Rep(1)'
    BY <1>2, <1>3, <2>1
  <2> QED
    BY <1>1, <1>3, <2>1, <2>2, Zenon DEF Belongs
<1>5. CASE turn = 2
  <2>1. CurrSlave = Rep(2) /\ CurrSlave' = Rep(1)' /\ phase' = "phase2"
    BY <1>1, <1>5 DEF CurrSlave, Rep
  <2>2. s = CurrSlave' \/ s = Rep(2)'
    BY <1>2, <1>3, <2>1
  <2> QED
    BY <1>1, <1>3, <2>1, <2>2, Zenon DEF Belongs
<1> QED
  BY <1>4, <1>5, MasterFacts, Zenon

LEMMA VotePipeline ==
    ASSUME TypeOK, TypeOK', Sockets', Pipeline, phase = "phase1",
           NEW a \in BOOLEAN, NextVote(a), conn'[Coord] = Closed,
           \A s \in Slave : Jobs(s)' = Jobs(s) /\ \A i \in Jobs(s) : queue'[s][i].msg = queue[s][i].msg,
           ~a => NoTPCJob(CurrSlave)
    PROVE  Pipeline'
<1> USE TypeParts
<1>1. ASSUME NEW s \in Slave, NEW i \in Jobs(s)
      PROVE  Placed(s, i)'
  <2>1. PICK m : m = queue[s][i].msg
    BY Zenon
  <2>2. m = queue'[s][i].msg /\ (m.type # "getreq" => Belongs(s, m))
    BY <2>1, PlacedBy, Zenon DEF Pipeline
  <2>3. m.type # "getreq" => (s = CurrSlave => a)
    BY <2>1, Zenon DEF NoTPCJob, TPCJob
  <2>4. m.type # "getreq" => Belongs(s, m)'
    BY <2>2, <2>3, VotePlaced, Zenon
  <2> QED
    BY <2>2, <2>4, PlacedBy, Zenon
<1> QED
  BY <1>1, MovedPipeline, Zenon

\* The end of an iteration of phase 2: nothing is left at the slave it was about.
LEMMA AckPipeline ==
    ASSUME TypeOK, TypeOK', Sockets', Pipeline, Phase2Receive
    PROVE  Pipeline'
<1> USE TypeParts
<1>1. /\ conn'[Coord] = Closed /\ NoTPCJob(CurrSlave) /\ UNCHANGED queue
      /\ UNCHANGED <<rqst, globalAbort>>
      /\ turn = 1 => turn' = 2 /\ phase' = phase
  BY Callers DEF Phase2Receive, Receive, SlaveTypeOK, Pipeline, Answers
<1>2. ASSUME NEW s \in Slave, NEW i \in Jobs(s)'
      PROVE  Placed(s, i)'
  <2>1. i \in Jobs(s) /\ Placed(s, i)
    BY <1>1, Zenon DEF Jobs, Pipeline
  <2>2. PICK m : m = queue[s][i].msg
    BY Zenon
  <2>3. m = queue'[s][i].msg /\ (m.type # "getreq" => Belongs(s, m))
    BY <1>1, <2>1, <2>2, PlacedBy, Zenon
  <2>4. ASSUME m.type # "getreq"
        PROVE  Belongs(s, m)'
    <3>1. s # CurrSlave
      BY <1>1, <2>1, <2>2, <2>4, Zenon DEF NoTPCJob, TPCJob
    <3>2. phase = "phase2" /\ m = rqst /\ globalAbort /\ s = Rep(2)
      BY <2>3, <2>4, <3>1, Zenon DEF Belongs, Phase2Receive
    <3>3. turn = 1
      BY <3>1, <3>2, MasterFacts, Zenon
    <3>4. Rep(2)' = Rep(2)
      BY <1>1, Zenon DEF Rep
    <3> QED
      BY <1>1, <3>2, <3>3, <3>4, Zenon DEF Belongs
  <2> QED
    BY <2>3, <2>4, PlacedBy, Zenon
<1> QED
  BY <1>1, <1>2, MovedPipeline, Zenon

\* Between requests there are no jobs of handleTPCRequest.
LEMMA OutsidePipeline ==
    ASSUME TypeOK, TypeOK', Sockets', Pipeline, ~InPhase, UNCHANGED <<queue, conn>>
    PROVE  Pipeline'
<1> USE TypeParts
<1>1. conn'[Coord] = Closed
  BY Zenon DEF Pipeline
<1>2. ASSUME NEW s \in Slave, NEW i \in Jobs(s)'
      PROVE  Placed(s, i)'
  <2>1. i \in Jobs(s) /\ Placed(s, i)
    BY Zenon DEF Jobs, Pipeline
  <2>2. ~TPCJob(s, i)
    BY <2>1, Zenon DEF Placed, Belongs, InPhase
  <2> QED
    BY <2>2, Zenon DEF Placed, TPCJob
<1> QED
  BY <1>1, <1>2, MovedPipeline, Zenon

\* Every step keeps the jobs of a request in order.
LEMMA PipelineNext ==
    ASSUME TypeOK, TypeOK', Connections = 1, Sockets, Sockets', Pipeline, Next
    PROVE  Pipeline'
<1> USE TypeParts
<1>0. /\ SlaveTypeOK /\ SlaveTypeOK' /\ conn \in [Caller -> Socket]
      /\ Coord \in Caller /\ \A r \in Reader : r \in Caller /\ r # Coord
  BY Callers, Zenon DEF SlaveTypeOK
<1>1. ASSUME UNCHANGED <<queue, client, masterVars>>, conn'[Coord] = conn[Coord]
      PROVE  Pipeline'
  BY <1>1, StillPipeline, Zenon
<1>2. ASSUME NEW m \in TPCRequest, Request(m)
      PROVE  Pipeline'
  BY <1>2, OutsidePipeline, Zenon DEF Request, slaveVars, InPhase
<1>3. CASE Phase1Send
  <2>1. CurrSlave \in Slave /\ rqst \in Msg /\ rqst.type # "getreq"
    BY <1>3, MasterFacts, Zenon DEF Phase1Send, IsUpdate
  <2>2. Belongs(CurrSlave, rqst) /\ InPhase /\ phase # "phase2"
    BY <1>3, Zenon DEF Phase1Send, Belongs, InPhase
  <2> QED
    BY <1>0, <1>3, <2>1, <2>2, SendPipeline, Zenon DEF Phase1Send
<1>4. CASE Phase1Connect
  <2>1. conn'[Coord] = Closed /\ queue' = queue /\ NextVote(TRUE) /\ phase = "phase1"
    BY <1>4, Zenon DEF Phase1Connect, CannotConnect
  <2>2. \A s \in Slave : Jobs(s)' = Jobs(s) /\ \A i \in Jobs(s) : queue'[s][i].msg = queue[s][i].msg
    BY <2>1, Zenon DEF Jobs
  <2> QED
    BY <2>1, <2>2, VotePipeline, Zenon
<1>5. CASE Phase1Timeout
  <2>1. conn'[Coord] = Closed /\ NextVote(TRUE) /\ phase = "phase1" /\ Timeout(Coord)
    BY <1>0, <1>5, Zenon DEF Phase1Timeout, Timeout
  <2>2. \A s \in Slave : Jobs(s)' = Jobs(s) /\ \A i \in Jobs(s) : queue'[s][i].msg = queue[s][i].msg
    BY <1>0, <2>1, TimeoutJobs
  <2> QED
    BY <2>1, <2>2, VotePipeline, Zenon
<1>6. CASE Phase1Receive
  <2> DEFINE a == conn[Coord].type # "ready"
  <2>1. conn'[Coord] = Closed /\ queue' = queue /\ NextVote(a) /\ phase = "phase1"
    BY <1>0, <1>6, Zenon DEF Phase1Receive, Receive
  <2>2. NoTPCJob(CurrSlave)
    BY <1>6, Zenon DEF Phase1Receive, Receive, Pipeline, Answers
  <2>3. \A s \in Slave : Jobs(s)' = Jobs(s) /\ \A i \in Jobs(s) : queue'[s][i].msg = queue[s][i].msg
    BY <2>1, Zenon DEF Jobs
  <2>4. a \in BOOLEAN
    BY Zenon
  <2> HIDE DEF a
  <2> QED
    BY <2>1, <2>2, <2>3, <2>4, VotePipeline, Zenon
<1>7. CASE Phase2Send
  <2>1. CurrSlave \in Slave /\ Decision \in Msg /\ Decision.type # "getreq"
    BY <1>7, MasterFacts, Zenon DEF Phase2Send
  <2>2. Belongs(CurrSlave, Decision) /\ InPhase
    BY <1>7, Zenon DEF Phase2Send, Belongs, InPhase
  <2>3. Send(Coord, CurrSlave, Decision) /\ UNCHANGED <<masterVars, client>>
    BY <1>7, Zenon DEF Phase2Send, Decision
  <2> QED
    BY <2>1, <2>2, <2>3, SendPipeline, Zenon
<1>8. CASE Phase2Timeout
  BY <1>0, <1>8, TimeoutPipeline, Zenon DEF Phase2Timeout
<1>9. CASE Phase2Receive
  BY <1>9, AckPipeline, Zenon
<1>10. CASE Flush
  BY <1>10, OutsidePipeline, Zenon DEF Flush, slaveVars, InPhase
<1>11. ASSUME NEW r \in Reader, GetSend(r)
       PROVE  Pipeline'
  <2>1. Asked(r) \in Slave /\ GetReq(getKey[r]) \in Msg /\ GetReq(getKey[r]).type = "getreq"
    BY <1>11, ReaderFacts, Zenon DEF GetSend, GetReq
  <2> QED
    BY <1>11, <2>1, GetSendPipeline, Zenon DEF GetSend
<1>12. ASSUME NEW r \in Reader, GetConnect(r)
       PROVE  Pipeline'
  BY <1>1, <1>12, Zenon DEF GetConnect, GotValue
<1>13. ASSUME NEW r \in Reader, GetTimeout(r)
       PROVE  Pipeline'
  BY <1>0, <1>13, TimeoutPipeline, Zenon DEF GetTimeout, GotValue
<1>14. ASSUME NEW r \in Reader, GetReceive(r)
       PROVE  Pipeline'
  BY <1>0, <1>1, <1>14, Zenon DEF GetReceive, GotValue, Receive
<1>15. ASSUME NEW r \in Reader, NEW k \in Key, GetStart(r, k)
       PROVE  Pipeline'
  BY <1>1, <1>15, Zenon DEF GetStart, slaveVars
<1>16. ASSUME NEW s \in Slave, Run(s), Idle
       PROVE  Pipeline'
  BY <1>16, RunPipeline, Zenon DEF Idle
<1>17. ASSUME NEW s \in Slave, Inner(s), Idle
       PROVE  Pipeline'
  BY <1>0, <1>1, <1>17, InnerSteps, Zenon DEF Idle
<1>18. ASSUME NEW s \in Slave, Reply(s), Idle
       PROVE  Pipeline'
  BY <1>18, ReplyPipeline, Zenon DEF Idle
<1>19. ASSUME NEW s \in Slave, Crash(s) \/ CrashInFlush(s), Idle
       PROVE  Pipeline'
  BY <1>19, DiePipeline, Zenon DEF Crash, CrashInFlush, Idle
<1> QED
  BY <1>2, <1>3, <1>4, <1>5, <1>6, <1>7, <1>8, <1>9, <1>10, <1>11, <1>12, <1>13, <1>14,
     <1>15, <1>16, <1>17, <1>18, <1>19, StepCases, Zenon

-----------------------------------------------------------------------------
(* Votes.                                                                  *)

\* Slave s has logged nothing.
SameLog(s) == log'[s] = log[s] /\ hist'[s] = hist[s]

\* Slave s has logged m, and a replay now gives st.
Logged(s, m, st) == log'[s] # <<>> /\ LastEntry(s)' = m /\ Durable(s)' = st

Answered(s, r) == step'[s] = "reply" /\ resp'[s] = r

\* What the worker does with job 1: the branches of TPCMasterHandler.
LEMMA RunOutcome ==
    ASSUME SlaveTypeOK, Connections = 1, NEW s \in Slave, Run(s),
           NEW m, m = queue[s][1].msg
    PROVE  /\ m \in Msg
           /\ store' = store
           /\ \A t \in Slave \ {s} : SameLog(t)
           /\ \/ /\ m.type = "getreq"
                 /\ SameLog(s)
                 /\ Answered(s, [type |-> "resp", val |-> store[s][m.key]])
              \/ /\ IsUpdate(m) /\ ~Votes(s, m)
                 /\ SameLog(s)
                 /\ Answered(s, Respond("abort"))
              \/ /\ IsUpdate(m) /\ Votes(s, m)
                 /\ Logged(s, m, Durable(s))
                 /\ Answered(s, Respond("ready"))
              \/ /\ m.type = "commit" /\ log[s] = <<>>
                 /\ SameLog(s)
                 /\ step'[s] = "dead"
              \/ /\ m.type = "commit" /\ log[s] # <<>> /\ IsUpdate(LastEntry(s))
                 /\ Logged(s, m, Perform(Durable(s), LastEntry(s)))
                 /\ step'[s] = "apply" /\ exec'[s] = LastEntry(s)
              \/ /\ m.type = "commit" /\ log[s] # <<>> /\ ~IsUpdate(LastEntry(s))
                 /\ SameLog(s)
                 /\ Answered(s, Respond("ack"))
              \/ /\ m.type = "abort"
                 /\ Logged(s, m, Durable(s))
                 /\ Answered(s, Respond("ack"))
              \/ /\ SlowNetwork
                 /\ SameLog(s)
                 /\ Answered(s, Respond("resp"))
<1>1. PICK i \in 1..Len(queue[s]) :
          RunGet(s, i) \/ RunVote(s, i) \/ RunCommit(s, i) \/ RunAbort(s, i) \/ ReadFails(s, i)
  BY Zenon DEF Run
<1>2. Take(s, i)
  BY <1>1, Zenon DEF RunGet, RunVote, RunCommit, RunAbort, ReadFails
<1>3. i = 1 /\ m = queue[s][i].msg
  BY <1>2, TakeJobs, Zenon
<1>4. m \in Msg
  BY <1>2, <1>3, TakeType, Zenon
<1>5. Durable(s) \in [Key -> OptValue] /\ (log[s] # <<>> => LastEntry(s) \in Msg)
  BY LastType, Zenon DEF LastEntry
<1>6. /\ step \in [Slave -> Steps] /\ resp \in [Slave -> Resp \cup {Closed}]
      /\ exec \in [Slave -> Msg \cup {None}]
  BY Zenon DEF SlaveTypeOK
<1>7. ASSUME NEW r, Answer(s, r)
      PROVE  Answered(s, r)
  BY <1>6, <1>7, Zenon DEF Answer, Answered
<1>8. ASSUME NEW st \in [Key -> OptValue], AppendAndFlush(s, m, st)
      PROVE  Logged(s, m, st) /\ \A t \in Slave \ {s} : SameLog(t)
  <2>1. /\ Len(log[s]) \in Nat
        /\ Len(log'[s]) = Len(log[s]) + 1
        /\ Len(hist'[s]) = Len(log[s]) + 2
        /\ log'[s][Len(log[s]) + 1] = m
        /\ hist'[s][Len(log[s]) + 2] = st
        /\ \A t \in Slave \ {s} : log'[t] = log[t] /\ hist'[t] = hist[t]
    BY <1>4, <1>8, AppendFacts, LastType
  <2>2. log'[s] # <<>>
    BY <2>1, EmptySequence
  <2> QED
    BY <2>1, <2>2, Zenon DEF Logged, LastEntry, Durable, SameLog
<1>9. ASSUME UNCHANGED <<log, hist>>
      PROVE  \A t \in Slave : SameLog(t)
  BY <1>9, Zenon DEF SameLog
<1>10. CASE RunGet(s, i)
  BY <1>3, <1>4, <1>7, <1>9, <1>10, Zenon DEF RunGet
<1>11. CASE RunVote(s, i)
  BY <1>3, <1>4, <1>5, <1>7, <1>8, <1>9, <1>11, Zenon DEF RunVote
<1>12. CASE RunCommit(s, i)
  <2> DEFINE last == log[s][Len(log[s])]
  <2>1. last = LastEntry(s)
    BY Zenon DEF LastEntry
  <2>2. ASSUME log[s] # <<>>, IsUpdate(last)
        PROVE  Perform(Durable(s), last) \in [Key -> OptValue]
    BY <1>5, <2>1, <2>2, Zenon DEF Perform, IsUpdate, Msg, OptValue
  <2>3. CASE log[s] = <<>> /\ step' = [step EXCEPT ![s] = "dead"] /\ UNCHANGED <<log, exec, resp, hist>>
    BY <1>3, <1>4, <1>6, <1>9, <1>12, <2>3, Zenon DEF RunCommit
  <2>4. CASE /\ log[s] # <<>> /\ IsUpdate(last)
             /\ AppendAndFlush(s, m, Perform(Durable(s), last))
             /\ exec' = [exec EXCEPT ![s] = last]
             /\ step' = [step EXCEPT ![s] = "apply"]
    <3>1. step'[s] = "apply" /\ exec'[s] = last
      BY <1>6, <2>4, Zenon
    <3>2. Logged(s, m, Perform(Durable(s), last)) /\ \A t \in Slave \ {s} : SameLog(t)
      BY <1>8, <2>2, <2>4, Zenon
    <3> QED
      BY <1>3, <1>4, <1>12, <2>1, <2>4, <3>1, <3>2, Zenon DEF RunCommit
  <2>5. CASE /\ log[s] # <<>> /\ ~IsUpdate(last)
             /\ Answer(s, Respond("ack")) /\ UNCHANGED <<log, exec, hist>>
    BY <1>3, <1>4, <1>7, <1>9, <1>12, <2>1, <2>5, Zenon DEF RunCommit
  <2> QED
    BY <1>3, <1>12, <2>3, <2>4, <2>5, Zenon DEF RunCommit
<1>13. CASE RunAbort(s, i)
  BY <1>3, <1>4, <1>5, <1>7, <1>8, <1>13, Zenon DEF RunAbort
<1>14. CASE ReadFails(s, i)
  BY <1>3, <1>4, <1>7, <1>9, <1>14, Zenon DEF ReadFails
<1> QED
  BY <1>1, <1>10, <1>11, <1>12, <1>13, <1>14, Zenon

\* A vote stands while the log of its slave does.
LEMMA VotedFrame ==
    ASSUME NEW s \in Slave, SameLog(s), rqst' = rqst, Voted(s)
    PROVE  Voted(s)'
BY Zenon DEF Voted, SameLog, LastEntry, Durable

\* So do the slaves of a request.
LEMMA RepFrame ==
    ASSUME rqst' = rqst, turn' = turn
    PROVE  CurrSlave' = CurrSlave /\ \A j \in 1..2 : Rep(j)' = Rep(j)
BY Zenon DEF CurrSlave, Rep

\* Steps that neither log anything nor count a vote.
LEMMA StillBallots ==
    ASSUME TypeOK, Ballots, UNCHANGED <<log, hist, masterVars>>,
           \A s \in Slave :
              client'[s] = Coord /\ step'[s] = "reply" /\ resp'[s].type = "ready" =>
                  client[s] = Coord /\ step[s] = "reply" /\ resp[s].type = "ready",
           phase = "phase1" /\ conn'[Coord].type = "ready" => Voted(CurrSlave)
    PROVE  Ballots'
<1>1. /\ \A s \in Slave : SameLog(s)
      /\ rqst' = rqst /\ turn' = turn /\ phase' = phase /\ globalAbort' = globalAbort
  BY Zenon DEF SameLog, masterVars
<1>2. CurrSlave' = CurrSlave /\ Rep(1)' = Rep(1) /\ Rep(2)' = Rep(2)
  BY <1>1, RepFrame
<1>3. ASSUME phase' = "phase1"
      PROVE  /\ \A s \in Slave : client'[s] = Coord /\ step'[s] = "reply" /\ resp'[s].type = "ready"
                                     => Voted(s)'
             /\ conn'[Coord].type = "ready" => Voted(CurrSlave)'
             /\ turn' = 2 /\ ~globalAbort' /\ Rep(1)' # CurrSlave' => Voted(Rep(1))'
  <2>1. phase = "phase1" /\ phase # "idle"
    BY <1>1, <1>3, Zenon
  <2>2. CurrSlave \in Slave /\ Rep(1) \in Slave
    BY <2>1, MasterFacts, Zenon
  <2>3. ASSUME NEW s \in Slave, Voted(s) PROVE Voted(s)'
    BY <1>1, <2>3, VotedFrame, Zenon
  <2>4. ASSUME NEW s \in Slave, client'[s] = Coord, step'[s] = "reply", resp'[s].type = "ready"
        PROVE  Voted(s)'
    BY <2>1, <2>3, <2>4, Zenon DEF Ballots
  <2>5. ASSUME conn'[Coord].type = "ready"
        PROVE  Voted(CurrSlave)'
    <3>1. Voted(CurrSlave) /\ log'[CurrSlave] = log[CurrSlave] /\ hist'[CurrSlave] = hist[CurrSlave]
      BY <2>1, <2>5, Zenon
    <3> QED
      BY <1>1, <1>2, <3>1, Zenon DEF Voted, LastEntry, Durable
  <2>6. ASSUME turn' = 2, ~globalAbort', Rep(1)' # CurrSlave'
        PROVE  Voted(Rep(1))'
    <3>1. Voted(Rep(1))
      BY <1>1, <1>2, <2>1, <2>6, Zenon DEF Ballots
    <3> QED
      BY <1>1, <1>2, <3>1, Zenon DEF Voted, LastEntry, Durable
  <2> QED
    BY <2>4, <2>5, <2>6, Zenon
<1>4. ASSUME Committing', NEW j \in 1..2
      PROVE  (log[Rep(j)] = <<>> \/ LastEntry(Rep(j)) = rqst \/ ~IsUpdate(LastEntry(Rep(j))))'
  <2>1. Committing
    BY <1>1, <1>4, Zenon DEF Committing
  <2>2. log[Rep(j)] = <<>> \/ LastEntry(Rep(j)) = rqst \/ ~IsUpdate(LastEntry(Rep(j)))
    BY <2>1, Zenon DEF Ballots
  <2>3. Rep(j)' = Rep(j) /\ log' = log
    BY <1>1, <1>4, RepFrame, Zenon
  <2> QED
    BY <1>1, <2>2, <2>3, Zenon DEF LastEntry
<1> QED
  BY <1>3, <1>4, Zenon DEF Ballots

\* Counting a vote.
LEMMA VoteBallots ==
    ASSUME TypeOK, Ballots, phase = "phase1", NEW a \in BOOLEAN, NextVote(a),
           ~a => Voted(CurrSlave),
           UNCHANGED <<log, hist>>, conn'[Coord] = Closed,
           \A s \in Slave : client'[s] # Coord
    PROVE  Ballots'
<1>1. /\ Rep(1) \in Slave /\ Rep(2) \in Slave
      /\ (turn = 1 /\ CurrSlave = Rep(1)) \/ (turn = 2 /\ CurrSlave = Rep(2))
  BY MasterFacts, Zenon
<1>2. rqst' = rqst /\ globalAbort' = (globalAbort \/ a) /\ globalAbort \in BOOLEAN
  BY Zenon DEF NextVote, TypeOK
<1>3. Rep(1)' = Rep(1) /\ Rep(2)' = Rep(2)
  BY <1>2, Zenon DEF Rep
<1>4. \A s \in Slave : Voted(s) => Voted(s)'
  BY <1>2, VotedFrame, Zenon DEF SameLog
<1>5. conn'[Coord].type # "ready"
  BY DEF Closed
<1>6. CASE turn = 1
  <2>1. phase' = "phase1" /\ turn' = 2
    BY <1>6, Zenon DEF NextVote
  <2>2. ~globalAbort' => Voted(Rep(1))'
    <3>1. ~globalAbort' => Voted(Rep(1))
      BY <1>1, <1>2, <1>6, Zenon
    <3> QED
      BY <1>2, <1>3, <3>1, Zenon DEF Voted, LastEntry, Durable
  <2>3. ~Committing'
    BY <2>1, Zenon DEF Committing
  <2> QED
    BY <1>5, <2>2, <2>3, Zenon DEF Ballots
<1>7. CASE turn = 2
  <2>1. phase' = "phase2"
    BY <1>7 DEF NextVote
  <2>2. ASSUME Committing', NEW j \in 1..2
        PROVE  (LastEntry(Rep(j)) = rqst)'
    <3>1. ~globalAbort /\ ~a
      BY <1>2, <2>2, Zenon DEF Committing
    <3>2. LastEntry(Rep(1)) = rqst /\ LastEntry(Rep(2)) = rqst
      BY <1>1, <1>7, <3>1, Zenon DEF Ballots, Voted
    <3>3. LastEntry(Rep(j)) = rqst /\ Rep(j)' = Rep(j)
      BY <1>3, <3>2
    <3> QED
      BY <1>2, <3>3, Zenon DEF LastEntry
  <2> QED
    BY <2>1, <2>2, Zenon DEF Ballots
<1> QED
  BY <1>1, <1>6, <1>7, Zenon

\* Steps after which the request commits only if it did before.
LEMMA LaterBallots ==
    ASSUME Ballots, rqst' = rqst, log' = log, phase' # "phase1", Committing' => Committing
    PROVE  Ballots'
<1>1. ASSUME Committing', NEW j \in 1..2
      PROVE  (log[Rep(j)] = <<>> \/ LastEntry(Rep(j)) = rqst \/ ~IsUpdate(LastEntry(Rep(j))))'
  <2>1. log[Rep(j)] = <<>> \/ LastEntry(Rep(j)) = rqst \/ ~IsUpdate(LastEntry(Rep(j)))
    BY <1>1, Zenon DEF Ballots
  <2>2. Rep(j)' = Rep(j)
    BY Zenon DEF Rep
  <2> QED
    BY <2>1, <2>2, Zenon DEF LastEntry
<1> QED
  BY <1>1, Zenon DEF Ballots

\* A slave logs, or tears its log, only for a job of the current request.
LEMMA OnlyTPCJobs ==
    ASSUME SlaveTypeOK, Connections = 1, NEW s \in Slave, Run(s) \/ CrashInFlush(s)
    PROVE  /\ \A t \in Slave \ {s} : SameLog(t)
           /\ SameLog(s) \/ (1 \in Jobs(s) /\ TPCJob(s, 1))
<1>1. CASE Run(s)
  <2>1. PICK m : m = queue[s][1].msg
    BY Zenon
  <2> QED
    BY <1>1, <2>1, RunOutcome, RunSteps, Zenon DEF TPCJob, IsUpdate
<1>2. CASE CrashInFlush(s)
  <2>1. \A t \in Slave \ {s} : SameLog(t)
    BY <1>2, Zenon DEF CrashInFlush, SlaveTypeOK, SameLog
  <2>2. queue[s] \in Seq(Job) /\ queue[s] # <<>>
    BY <1>2, JobType, Zenon DEF CrashInFlush
  <2>3. Len(queue[s]) \in Nat /\ Len(queue[s]) # 0 /\ Head(queue[s]) = queue[s][1]
    BY <2>2, EmptySequence, JobType
  <2>4. 1 \in Jobs(s)
    BY <2>3 DEF Jobs
  <2>5. queue[s][1].msg.type # "getreq"
    BY <1>2, <2>3, Zenon DEF CrashInFlush, IsUpdate
  <2> QED
    BY <2>1, <2>4, <2>5, Zenon DEF TPCJob
<1> QED
  BY <1>1, <1>2, Zenon

\* Logging for the current request: no vote that counts is overwritten.
LEMMA LoggingBallots ==
    ASSUME TypeOK, Connections = 1, RecoveryInv, Pipeline, Ballots, NEW s \in Slave,
           Run(s) \/ CrashInFlush(s), UNCHANGED masterVars
    PROVE  Ballots'
<1> USE TypeParts
<1>1. rqst' = rqst /\ turn' = turn /\ phase' = phase /\ globalAbort' = globalAbort
  BY Zenon DEF masterVars
<1>2. CurrSlave' = CurrSlave /\ Rep(1)' = Rep(1) /\ Rep(2)' = Rep(2)
  BY <1>1, RepFrame
<1>3. /\ \A t \in Slave \ {s} : SameLog(t)
      /\ SameLog(s) \/ (1 \in Jobs(s) /\ TPCJob(s, 1))
  BY OnlyTPCJobs, Zenon
<1>4. conn' = conn
  BY RunSteps, Zenon DEF CrashInFlush, Die
<1>5. \A t \in Slave : SameLog(t) /\ Voted(t) => Voted(t)'
  BY <1>1, VotedFrame, Zenon
<1>6. PICK m : m = queue[s][1].msg
  BY Zenon
<1>7. 1 \in Jobs(s) /\ TPCJob(s, 1) => Belongs(s, m)
  BY <1>6, Zenon DEF Pipeline, Placed
<1>8. ASSUME phase = "phase1"
      PROVE  /\ \A t \in Slave : client'[t] = Coord /\ step'[t] = "reply" /\ resp'[t].type = "ready"
                                     => Voted(t)'
             /\ conn'[Coord].type = "ready" => Voted(CurrSlave)'
             /\ turn' = 2 /\ ~globalAbort' /\ Rep(1)' # CurrSlave' => Voted(Rep(1))'
  <2>1. CurrSlave \in Slave /\ Rep(1) \in Slave /\ IsUpdate(rqst) /\ rqst \in Msg
    BY <1>8, MasterFacts, Zenon
  <2>2. ASSUME NEW t \in Slave \ {s}, client'[t] = Coord, step'[t] = "reply", resp'[t].type = "ready"
        PROVE  Voted(t)'
    <3>1. client'[t] = client[t] /\ step'[t] = step[t] /\ resp'[t] = resp[t]
      <4>1. CASE Run(s)
        <5>1. PICK i \in 1..Len(queue[s]) : Take(s, i)
          BY <4>1, RunSteps, Zenon
        <5>2. client' = [client EXCEPT ![s] = queue[s][1].from]
          BY <5>1, TakeJobs, Zenon
        <5> QED
          BY <4>1, <5>2, RunSteps, Zenon DEF SlaveTypeOK
      <4>2. CASE CrashInFlush(s)
        BY <4>2, DieJobs, Zenon DEF CrashInFlush
      <4> QED
        BY <4>1, <4>2, Zenon
    <3> QED
      BY <1>3, <1>5, <1>8, <2>2, <3>1, Zenon DEF Ballots
  <2>3. ASSUME client'[s] = Coord, step'[s] = "reply", resp'[s].type = "ready"
        PROVE  Voted(s)'
    <3>1. Run(s)
      BY <2>3, DieJobs, Callers, Zenon DEF CrashInFlush
    <3>2. 1 \in Jobs(s) /\ step[s] = "idle" /\ client'[s] = queue[s][1].from
      <4>1. PICK i \in 1..Len(queue[s]) : Take(s, i)
        BY <3>1, RunSteps, Zenon
      <4>2. client' = [client EXCEPT ![s] = queue[s][1].from]
        BY <4>1, TakeJobs, Zenon
      <4> QED
        BY <3>1, <4>2, RunSteps, Zenon DEF SlaveTypeOK
    <3>3. Awaited(s, 1)
      BY <2>3, <3>2, Zenon DEF Pipeline
    <3>4. m = rqst
      BY <1>7, <1>8, <3>2, <3>3, Zenon DEF Awaited, Belongs
    <3>5. Votes(s, m) /\ Logged(s, m, Durable(s))
      <4>1. /\ \A r : Answered(s, r) => r.type = "ready"
            /\ step'[s] \notin {"apply", "dead"}
        BY <2>3, Zenon DEF Answered
      <4>2. \A l : Respond(l).type = l
        BY Zenon DEF Respond
      <4>3. [type |-> "resp", val |-> store[s][m.key]].type = "resp"
        BY Zenon
      <4> QED
        BY <1>6, <3>1, <4>1, <4>2, <4>3, RunOutcome, Zenon
    <3>6. store[s] = Durable(s)
      BY <3>2, Zenon DEF RecoveryInv, SlaveRecovers, StoreIsDurable
    <3> QED
      BY <1>1, <3>4, <3>5, <3>6, Zenon DEF Voted, Votes, Logged
  <2>4. ASSUME conn'[Coord].type = "ready"
        PROVE  Voted(CurrSlave)'
    <3>1. Voted(CurrSlave)
      BY <1>4, <1>8, <2>4, Zenon DEF Ballots
    <3>2. NoTPCJob(CurrSlave)
      BY <1>4, <2>4, Zenon DEF Pipeline, Answers
    <3>3. SameLog(CurrSlave)
      BY <1>3, <2>1, <3>2, Zenon DEF NoTPCJob
    <3> QED
      BY <1>1, <1>2, <3>1, <3>3, Zenon DEF Voted, SameLog, LastEntry, Durable
  <2>5. ASSUME turn' = 2, ~globalAbort', Rep(1)' # CurrSlave'
        PROVE  Voted(Rep(1))'
    <3>1. Voted(Rep(1))
      BY <1>1, <1>2, <1>8, <2>5, Zenon DEF Ballots
    <3>2. SameLog(Rep(1))
      <4>1. ~Belongs(Rep(1), m)
        BY <1>1, <1>2, <1>8, <2>5, Zenon DEF Belongs
      <4> QED
        BY <1>3, <1>7, <2>1, <4>1, Zenon
    <3> QED
      BY <1>1, <1>2, <3>1, <3>2, Zenon DEF Voted, SameLog, LastEntry, Durable
  <2> QED
    BY <2>2, <2>3, <2>4, <2>5, Zenon
<1>9. ASSUME Committing', NEW j \in 1..2
      PROVE  (log[Rep(j)] = <<>> \/ LastEntry(Rep(j)) = rqst \/ ~IsUpdate(LastEntry(Rep(j))))'
  <2>1. Committing /\ phase # "idle"
    BY <1>1, <1>9, Zenon DEF Committing
  <2>2. log[Rep(j)] = <<>> \/ LastEntry(Rep(j)) = rqst \/ ~IsUpdate(LastEntry(Rep(j)))
    BY <2>1, Zenon DEF Ballots
  <2>3. Rep(j)' = Rep(j) /\ Rep(j) \in Slave
    BY <1>1, <2>1, RepFrame, MasterFacts
  <2>4. CASE SameLog(Rep(j))
    BY <1>1, <2>2, <2>3, <2>4, Zenon DEF SameLog, LastEntry
  <2>5. CASE s = Rep(j) /\ CrashInFlush(s)
    <3>1. log'[s] = <<>>
      BY <2>5, Zenon DEF CrashInFlush, SlaveTypeOK
    <3> QED
      BY <2>3, <2>5, <3>1, Zenon
  <2>6. CASE s = Rep(j) /\ Run(s) /\ ~SameLog(s)
    <3>1. Belongs(s, m)
      BY <1>3, <1>7, <2>6, Zenon
    <3>2. m.type = "commit"
      BY <2>1, <3>1 DEF Belongs, Committing, Decision, Commit
    <3>3. LastEntry(s)' = m
      BY <1>6, <2>6, RunOutcome, Zenon DEF Logged
    <3> QED
      BY <2>3, <2>6, <3>2, <3>3, Zenon DEF IsUpdate, LastEntry
  <2> QED
    BY <1>3, <2>3, <2>4, <2>5, <2>6, Zenon
<1> QED
  BY <1>1, <1>8, <1>9, Zenon DEF Ballots

\* Every step keeps the votes of the current request.
LEMMA BallotsNext ==
    ASSUME TypeOK, TypeOK', Connections = 1, RecoveryInv, Sockets, Sockets',
           Pipeline, Ballots, Next
    PROVE  Ballots'
<1> USE TypeParts
<1>0. /\ SlaveTypeOK /\ SlaveTypeOK' /\ conn \in [Caller -> Socket]
      /\ Coord \in Caller /\ \A r \in Reader : r \in Caller /\ r # Coord
  BY Callers, Zenon DEF SlaveTypeOK
<1>1. ASSUME UNCHANGED <<log, hist, step, resp, masterVars>>,
             \A s \in Slave : client'[s] = Coord => client[s] = Coord,
             conn'[Coord] = conn[Coord] \/ conn'[Coord].type # "ready"
      PROVE  Ballots'
  <2>1. phase = "phase1" /\ conn'[Coord].type = "ready" => Voted(CurrSlave)
    BY <1>1, Zenon DEF Ballots
  <2> QED
    BY <1>1, <2>1, StillBallots, Zenon
<1>2. ASSUME NEW c \in Caller, Timeout(c)
      PROVE  /\ \A s \in Slave : client'[s] = Coord => client[s] = Coord
             /\ conn'[Coord] = conn[Coord] \/ conn'[Coord].type # "ready"
  BY <1>0, <1>2, Callers, Zenon DEF Timeout, Closed
<1>3. ASSUME NEW c \in Caller, NEW s \in Slave, NEW m, Send(c, s, m)
      PROVE  conn'[Coord] = conn[Coord] \/ conn'[Coord].type # "ready"
  BY <1>0, <1>3, Zenon DEF Send, Open
<1>4. conn'[Coord] = Closed => \A s \in Slave : client'[s] # Coord
  BY <1>0, UnheardNext DEF Closed, Open
<1>5. ASSUME NEW m \in TPCRequest, Request(m)
      PROVE  Ballots'
  <2>1. phase' = "phase1" /\ turn' = 1 /\ UNCHANGED <<client, conn>>
    BY <1>5, Zenon DEF Request, slaveVars
  <2>2. conn'[Coord] = Closed
    BY <1>5, <2>1, Zenon DEF Request, Pipeline, InPhase
  <2>3. ~Committing' /\ conn'[Coord].type # "ready"
    BY <2>1, <2>2 DEF Committing, Closed
  <2> QED
    BY <1>4, <2>1, <2>2, <2>3 DEF Ballots
<1>6. CASE Phase1Send
  <2>1. CurrSlave \in Slave
    BY <1>6, MasterFacts, Zenon DEF Phase1Send
  <2> QED
    BY <1>0, <1>1, <1>3, <1>6, <2>1, Zenon DEF Phase1Send
<1>7. CASE Phase1Connect
  BY <1>4, <1>7, VoteBallots, Zenon DEF Phase1Connect, CannotConnect
<1>8. CASE Phase1Timeout
  <2>1. conn'[Coord] = Closed
    BY <1>0, <1>8, Zenon DEF Phase1Timeout, Timeout
  <2> QED
    BY <1>4, <1>8, <2>1, VoteBallots, Zenon DEF Phase1Timeout
<1>9. CASE Phase1Receive
  <2>1. conn'[Coord] = Closed
    BY <1>0, <1>9, Zenon DEF Phase1Receive, Receive
  <2>2. conn[Coord].type = "ready" => Voted(CurrSlave)
    BY <1>9, Zenon DEF Phase1Receive, Ballots
  <2> QED
    BY <1>4, <1>9, <2>1, <2>2, VoteBallots, Zenon DEF Phase1Receive
<1>10. CASE Phase2Send
  <2>1. CurrSlave \in Slave
    BY <1>10, MasterFacts, Zenon DEF Phase2Send
  <2> QED
    BY <1>0, <1>1, <1>3, <1>10, <2>1, Zenon DEF Phase2Send
<1>11. CASE Phase2Timeout
  BY <1>0, <1>1, <1>2, <1>11, Zenon DEF Phase2Timeout
<1>12. CASE Phase2Receive
  <2>1. rqst' = rqst /\ log' = log /\ globalAbort' = globalAbort /\ phase = "phase2"
    BY <1>12, Zenon DEF Phase2Receive
  <2>2. phase' \in {"phase2", "flush", "idle"}
    BY <1>12, Zenon DEF Phase2Receive, Done
  <2> QED
    BY <2>1, <2>2, LaterBallots, Zenon DEF Committing
<1>13. CASE Flush
  BY <1>13, LaterBallots, Zenon DEF Flush, Done, Committing, slaveVars
<1>14. ASSUME NEW r \in Reader, GetSend(r)
       PROVE  Ballots'
  BY <1>0, <1>1, <1>3, <1>14, ReaderFacts, Zenon DEF GetSend
<1>15. ASSUME NEW r \in Reader, GetConnect(r)
       PROVE  Ballots'
  BY <1>1, <1>15, Zenon DEF GetConnect, GotValue
<1>16. ASSUME NEW r \in Reader, GetTimeout(r)
       PROVE  Ballots'
  BY <1>0, <1>1, <1>2, <1>16, Zenon DEF GetTimeout, GotValue
<1>17. ASSUME NEW r \in Reader, GetReceive(r)
       PROVE  Ballots'
  BY <1>0, <1>1, <1>17, Zenon DEF GetReceive, GotValue, Receive
<1>18. ASSUME NEW r \in Reader, NEW k \in Key, GetStart(r, k)
       PROVE  Ballots'
  BY <1>1, <1>18, Zenon DEF GetStart, slaveVars
<1>19. ASSUME NEW s \in Slave, Run(s) \/ CrashInFlush(s), Idle
       PROVE  Ballots'
  BY <1>19, LoggingBallots, Zenon DEF Idle
<1>20. ASSUME NEW s \in Slave, Inner(s), Idle
       PROVE  Ballots'
  <2>1. /\ UNCHANGED <<client, conn, log, hist, masterVars>>
        /\ \A t \in Slave \ {s} : step'[t] = step[t] /\ resp'[t] = resp[t]
    BY <1>0, <1>20, InnerSteps, Zenon DEF Idle
  <2>2. ~(step'[s] = "reply" /\ resp'[s].type = "ready")
    <3>1. step \in [Slave -> Steps] /\ resp \in [Slave -> Resp \cup {Closed}]
      BY Zenon DEF SlaveTypeOK
    <3>2. CASE Apply(s)
      <4>1. \E l \in {"resp", "ack"} : Answer(s, Respond(l))
        BY <3>2, Zenon DEF Apply
      <4> QED
        BY <3>1, <4>1 DEF Answer, Respond
    <3>3. CASE Restart(s) \/ Register(s)
      BY <3>1, <3>3, Zenon DEF Restart, Register
    <3>4. CASE RebuildServer(s)
      <4>1. step[s] = "rebuild" /\ (step' = step \/ step' = [step EXCEPT ![s] = "failed"])
        BY <3>4, Zenon DEF RebuildServer
      <4> QED
        BY <3>1, <4>1, Zenon
    <3> QED
      BY <1>20, <3>2, <3>3, <3>4, Zenon DEF Inner
  <2>3. phase = "phase1" /\ conn'[Coord].type = "ready" => Voted(CurrSlave)
    BY <2>1, Zenon DEF Ballots
  <2> QED
    BY <2>1, <2>2, <2>3, StillBallots, Zenon
<1>21. ASSUME NEW s \in Slave, Reply(s), Idle
       PROVE  Ballots'
  <2>1. /\ UNCHANGED <<log, hist, masterVars>>
        /\ step'[s] = "idle"
        /\ \A t \in Slave \ {s} : step'[t] = step[t] /\ resp'[t] = resp[t] /\ client'[t] = client[t]
        /\ conn'[Coord] = IF client[s] = Coord THEN resp[s] ELSE conn[Coord]
    BY <1>0, <1>21, Zenon DEF Reply, Idle, SlaveTypeOK
  <2>2. phase = "phase1" /\ conn'[Coord].type = "ready" => Voted(CurrSlave)
    BY <1>21, <2>1 DEF Ballots, Pipeline, Reply
  <2> QED
    BY <2>1, <2>2, StillBallots, Zenon
<1>22. ASSUME NEW s \in Slave, Crash(s), Idle
       PROVE  Ballots'
  <2>1. /\ UNCHANGED <<log, hist, conn, masterVars>>
        /\ step'[s] = "down"
        /\ \A t \in Slave \ {s} : step'[t] = step[t] /\ resp'[t] = resp[t] /\ client'[t] = client[t]
    BY <1>0, <1>22, DieJobs, Zenon DEF Crash, Idle, Die
  <2>2. phase = "phase1" /\ conn'[Coord].type = "ready" => Voted(CurrSlave)
    BY <2>1, Zenon DEF Ballots
  <2> QED
    BY <2>1, <2>2, StillBallots, Zenon
<1> QED
  BY <1>5, <1>6, <1>7, <1>8, <1>9, <1>10, <1>11, <1>12, <1>13, <1>14, <1>15, <1>16, <1>17,
     <1>18, <1>19, <1>20, <1>21, <1>22, StepCases, Zenon

-----------------------------------------------------------------------------
(* The theorems.                                                           *)

\* At the start nobody waits and nothing is logged.
LEMMA PipelineInit == Init => PipelineInv
<1> SUFFICES ASSUME Init PROVE PipelineInv
  BY Zenon
<1>1. /\ \A s \in Slave : queue[s] = <<>> /\ client[s] = None
      /\ conn[Coord] = Closed /\ phase = "idle"
  BY Callers, Zenon DEF Init, SlaveInit
<1>2. \A s \in Slave : Jobs(s) = {} /\ Places(s) = {0}
  BY <1>1 DEF Jobs, Places
<1>3. \A c \in Caller : c # None
  BY SlaveAssumption, Zenon
<1>4. Sockets
  BY <1>1, <1>2, <1>3, Zenon DEF Sockets, Waits, From
<1>5. Pipeline
  BY <1>1, <1>2, Callers DEF Pipeline, Closed, Answers
<1>6. Ballots
  BY <1>1, Zenon DEF Ballots, Committing
<1> QED
  BY <1>4, <1>5, <1>6, Zenon DEF PipelineInv

\* Every step keeps the invariant, if each slave has one worker.
LEMMA PipelineInvNext ==
    ASSUME Connections = 1, TypeOK, RecoveryInv, PipelineInv, [Next]_vars
    PROVE  PipelineInv'
<1>1. TypeOK'
  BY TypeNext, Zenon
<1>2. CASE Next
  <2>1. Sockets'
    BY <1>1, <1>2, SocketsNext, Zenon DEF PipelineInv
  <2>2. Pipeline'
    BY <1>1, <1>2, <2>1, PipelineNext, Zenon DEF PipelineInv
  <2>3. Ballots'
    BY <1>1, <1>2, <2>1, BallotsNext, Zenon DEF PipelineInv
  <2> QED
    BY <2>1, <2>2, <2>3, Zenon DEF PipelineInv
<1>3. CASE UNCHANGED vars
  <2>1. UNCHANGED <<slaveVars, masterVars>>
    BY <1>3, Zenon DEF vars
  <2>2. Sockets'
    BY <2>1 DEF PipelineInv, Sockets, Waits, Places, From, slaveVars
  <2>3. Pipeline'
    BY <2>1, StillPipeline, Zenon DEF PipelineInv, slaveVars
  <2>4. Ballots'
    <3>1. phase = "phase1" /\ conn'[Coord].type = "ready" => Voted(CurrSlave)
      BY <2>1, Zenon DEF PipelineInv, Ballots, slaveVars
    <3> QED
      BY <2>1, <3>1, StillBallots, Zenon DEF PipelineInv, slaveVars
  <2> QED
    BY <2>2, <2>3, <2>4, Zenon DEF PipelineInv
<1> QED
  BY <1>2, <1>3, Zenon

\* Where each slave has one worker, the slaves run the jobs of a request in the
\* order handleTPCRequest sent them, and the votes it counts are those of slaves
\* that have logged this request last.
THEOREM PipelineInvariant ==
    ASSUME Connections = 1
    PROVE  Spec => []PipelineInv
<1>1. Init => TypeOK /\ RecoveryInv /\ PipelineInv
  BY TypeInit, RecoveryInit, PipelineInit, Zenon
<1>2. TypeOK /\ RecoveryInv /\ PipelineInv /\ [Next]_vars
          => TypeOK' /\ RecoveryInv' /\ PipelineInv'
  BY TypeNext, RecoveryNext, PipelineInvNext, Zenon
<1> QED
  BY <1>1, <1>2, PTL DEF Spec

\* A slave that turns to carrying out a commit carries out the request that the
\* master commits.
LEMMA CommitStep ==
    ASSUME Connections = 1, TypeOK, RecoveryInv, PipelineInv, Next, NEW s \in Slave,
           exec'[s] # exec[s], step'[s] = "apply"
    PROVE  Committing /\ exec'[s] = rqst /\ s = CurrSlave
<1> USE TypeParts
<1>0. SlaveTypeOK /\ step \in [Slave -> Steps] /\ exec \in [Slave -> Msg \cup {None}]
  BY Zenon DEF SlaveTypeOK
<1>1. Run(s)
  <2>1. PICK t \in Slave : Run(t) \/ Inner(t) \/ Reply(t) \/ Crash(t) \/ CrashInFlush(t)
    BY StepCases, Zenon DEF Request, Phase1Send, Phase1Connect, Phase1Timeout, Phase1Receive,
       Phase2Send, Phase2Timeout, Phase2Receive, Flush, GetSend, GetConnect, GetTimeout,
       GetReceive, GetStart, slaveVars
  <2>2. CASE Reply(t)
    BY <2>2, Zenon DEF Reply
  <2>3. CASE Crash(t) \/ CrashInFlush(t)
    BY <1>0, <2>3, Zenon DEF Crash, CrashInFlush, Die
  <2>4. CASE Inner(t)
    BY <1>0, <2>4, Zenon DEF Inner, Apply, Answer, Restart, RebuildServer, Register
  <2>5. CASE Run(t)
    <3>1. exec' = exec \/ \E m : exec' = [exec EXCEPT ![t] = m]
      BY <2>5, Zenon DEF Run, RunGet, RunVote, RunCommit, RunAbort, ReadFails
    <3>2. s = t
      BY <1>0, <3>1, Zenon
    <3> QED
      BY <2>5, <3>2, Zenon
  <2> QED
    BY <2>1, <2>2, <2>3, <2>4, <2>5, Zenon
<1>2. PICK m : m = queue[s][1].msg
  BY Zenon
<1>3. m.type = "commit" /\ log[s] # <<>> /\ IsUpdate(LastEntry(s)) /\ exec'[s] = LastEntry(s)
  BY <1>1, <1>2, RunOutcome, Zenon DEF Answered
<1>4. 1 \in Jobs(s) /\ TPCJob(s, 1)
  BY <1>1, <1>2, <1>3, RunSteps, Zenon DEF TPCJob
<1>5. Belongs(s, m)
  BY <1>2, <1>4, Zenon DEF PipelineInv, Pipeline, Placed
<1>6. phase = "phase2" /\ m = Decision /\ s = CurrSlave
  <2>1. phase # "idle"
    BY <1>5, Zenon DEF Belongs
  <2>2. IsUpdate(rqst)
    BY <2>1, MasterFacts, Zenon
  <2> QED
    BY <1>3, <1>5, <2>2, Zenon DEF Belongs, IsUpdate
<1>7. Committing
  BY <1>3, <1>6, Zenon DEF Committing, Decision, Abort
<1>8. \E j \in 1..2 : s = Rep(j)
  BY <1>6, Zenon DEF CurrSlave, Rep, TypeOK
<1>9. LastEntry(s) = rqst
  BY <1>3, <1>7, <1>8, Zenon DEF PipelineInv, Ballots
<1> QED
  BY <1>3, <1>6, <1>7, <1>9, Zenon

\* TPCMasterHandler commits the last entry of its log, whatever the master meant.
\* Where each slave has one worker, that entry is always the request the master is
\* committing: on any network, and also when crashes tear logs.
THEOREM CommitIsForCurrentRequest ==
    ASSUME Connections = 1
    PROVE  Spec => CommitsCurrentRequest
<1>1. Init => TypeOK /\ RecoveryInv /\ PipelineInv
  BY TypeInit, RecoveryInit, PipelineInit, Zenon
<1>2. TypeOK /\ RecoveryInv /\ PipelineInv /\ [Next]_vars
          => TypeOK' /\ RecoveryInv' /\ PipelineInv'
  BY TypeNext, RecoveryNext, PipelineInvNext, Zenon
<1>3. TypeOK /\ RecoveryInv /\ PipelineInv /\ [Next]_vars =>
          [\A s \in Slave : (exec'[s] # exec[s] /\ step'[s] = "apply") =>
               Committing /\ exec'[s] = rqst /\ s = CurrSlave]_vars
  BY CommitStep, Zenon
<1> QED
  BY <1>1, <1>2, <1>3, PTL DEF Spec, CommitsCurrentRequest
=============================================================================
