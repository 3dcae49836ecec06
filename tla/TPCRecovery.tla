---------------------------- MODULE TPCRecovery -----------------------------
(***************************************************************************)
(* Type correctness of TPCMaster and the recovery of a slave, proved for   *)
(* all values of the constants: the store that rebuildServer makes from    *)
(* the log is the store the slave had.                                     *)
(***************************************************************************)
EXTENDS TPCMaster, SequenceLemmas, TLAPS

-----------------------------------------------------------------------------
(* Types.                                                                  *)

\* A socket operation keeps sockets and queues well typed.
LEMMA SendType ==
    ASSUME SlaveTypeOK, NEW c \in Caller, NEW s \in Slave, NEW m \in Msg, Send(c, s, m)
    PROVE  conn' \in [Caller -> Socket] /\ queue' \in [Slave -> Seq(Job)]
<1>1. [msg |-> m, from |-> c] \in Job
  BY Zenon DEF Job
<1>2. Append(queue[s], [msg |-> m, from |-> c]) \in Seq(Job)
  BY <1>1, AppendElement, Zenon DEF SlaveTypeOK
<1> QED
  BY <1>2, Zenon DEF Send, SlaveTypeOK, Open, Socket, OptValue

\* Closing a socket rewrites jobs, but keeps every queue and its length.
LEMMA HangUpType ==
    ASSUME SlaveTypeOK, NEW c \in Caller,
           queue' = [s \in Slave |->
                        [i \in 1..Len(queue[s]) |-> HangUp(c, queue[s][i])]]
    PROVE  /\ queue' \in [Slave -> Seq(Job)]
           /\ \A s \in Slave : Len(queue'[s]) = Len(queue[s])
           /\ \A s \in Slave : \A i \in 1..Len(queue[s]) :
                 queue'[s][i] = HangUp(c, queue[s][i])
<1> SUFFICES ASSUME NEW s \in Slave
             PROVE  /\ queue'[s] \in Seq(Job)
                    /\ Len(queue'[s]) = Len(queue[s])
                    /\ \A i \in 1..Len(queue[s]) :
                          queue'[s][i] = HangUp(c, queue[s][i])
  BY Zenon
<1>1. queue[s] \in Seq(Job) /\ Len(queue[s]) \in Nat
  BY SequenceFunction, Zenon DEF SlaveTypeOK
<1>2. \A i \in 1..Len(queue[s]) : queue[s][i] \in Job
  BY <1>1, SequenceFunction, Zenon
<1>3. \A i \in 1..Len(queue[s]) : HangUp(c, queue[s][i]) \in Job
  BY <1>2, Zenon DEF HangUp, Job
<1>4. queue'[s] = [i \in 1..Len(queue[s]) |-> HangUp(c, queue[s][i])]
  BY Zenon
<1> QED
  BY <1>1, <1>3, <1>4

\* The slaves start well typed.
LEMMA SlaveTypeInit ==
    ASSUME SlaveInit PROVE SlaveTypeOK
<1>1. EmptyStore \in [Key -> OptValue]
  BY Zenon DEF EmptyStore, OptValue
<1>2. <<EmptyStore>> \in Seq([Key -> OptValue])
  BY <1>1
<1> QED
  BY <1>1, <1>2, EmptySequence, SlaveAssumption
     DEF SlaveInit, SlaveTypeOK, Steps, Closed, Socket, OptValue, Msg, Resp

\* Taking a job: the queue without it, and the caller to answer.
LEMMA TakeType ==
    ASSUME SlaveTypeOK, NEW s \in Slave, NEW i \in 1..Len(queue[s]), Take(s, i)
    PROVE  /\ queue' \in [Slave -> Seq(Job)]
           /\ client' \in [Slave -> Caller \cup {None}]
           /\ queue[s][i] \in Job
           /\ queue[s][i].msg \in Msg
<1>1. queue[s] \in Seq(Job)
  BY Zenon DEF SlaveTypeOK
<1>2. queue[s][i] \in Job
  BY <1>1, SequenceFunction, Zenon
<1>3. Without(queue[s], i) \in Seq(Job)
  BY <1>1, WithoutType, Zenon
<1> QED
  BY <1>2, <1>3, Zenon DEF SlaveTypeOK, Take, Job

\* Appending to the log.
LEMMA AppendType ==
    ASSUME SlaveTypeOK, NEW s \in Slave, NEW m \in Msg, NEW st \in [Key -> OptValue],
           AppendAndFlush(s, m, st)
    PROVE  /\ log' \in [Slave -> Seq(Msg)]
           /\ hist' \in [Slave -> Seq([Key -> OptValue])]
           /\ \A t \in Slave : Len(hist'[t]) = Len(log'[t]) + 1
<1>1. log[s] \in Seq(Msg) /\ hist[s] \in Seq([Key -> OptValue])
  BY Zenon DEF SlaveTypeOK
<1>2. /\ Append(log[s], m) \in Seq(Msg)
      /\ Len(Append(log[s], m)) = Len(log[s]) + 1
      /\ Append(hist[s], st) \in Seq([Key -> OptValue])
      /\ Len(Append(hist[s], st)) = Len(hist[s]) + 1
  BY <1>1, AppendElement
<1> QED
  BY <1>2, Zenon DEF SlaveTypeOK, AppendAndFlush

\* The last element of the log, where there is one, and of its history.
LEMMA LastType ==
    ASSUME SlaveTypeOK, NEW s \in Slave
    PROVE  /\ Len(log[s]) \in Nat
           /\ log[s] # <<>> => Len(log[s]) >= 1 /\ log[s][Len(log[s])] \in Msg
           /\ Durable(s) \in [Key -> OptValue]
<1>1. log[s] \in Seq(Msg) /\ hist[s] \in Seq([Key -> OptValue])
  BY Zenon DEF SlaveTypeOK
<1>2. Len(log[s]) \in Nat /\ (log[s] # <<>> => Len(log[s]) \in 1..Len(log[s]))
  BY <1>1, EmptySequence, SequenceFunction
<1>3. Len(hist[s]) \in 1..Len(hist[s])
  BY <1>1, <1>2, SequenceFunction DEF SlaveTypeOK
<1> QED
  BY <1>1, <1>2, <1>3, SequenceFunction DEF Durable

\* Turning to the response.
LEMMA AnswerType ==
    ASSUME SlaveTypeOK, NEW s \in Slave, NEW r \in Resp, Answer(s, r)
    PROVE  /\ step' \in [Slave -> Steps]
           /\ resp' \in [Slave -> Resp \cup {Closed}]
           /\ step'[s] = "reply"
           /\ \A t \in Slave \ {s} : step'[t] = step[t]
BY Zenon DEF SlaveTypeOK, Answer, Steps

\* A worker that runs a job leaves the slave well typed.
LEMMA RunTypes ==
    ASSUME SlaveTypeOK, NEW s \in Slave, NEW i \in 1..Len(queue[s]),
           \/ RunGet(s, i) \/ RunVote(s, i) \/ RunCommit(s, i)
           \/ RunAbort(s, i) \/ ReadFails(s, i)
    PROVE  SlaveTypeOK'
<1> DEFINE m == queue[s][i].msg
           LogOK == /\ log' \in [Slave -> Seq(Msg)]
                    /\ hist' \in [Slave -> Seq([Key -> OptValue])]
                    /\ \A t \in Slave : Len(hist'[t]) = Len(log'[t]) + 1
<1>1. Take(s, i)
  BY Zenon DEF RunGet, RunVote, RunCommit, RunAbort, ReadFails
<1>2. /\ queue' \in [Slave -> Seq(Job)]
      /\ client' \in [Slave -> Caller \cup {None}]
      /\ m \in Msg
  BY <1>1, TakeType, Zenon
<1>3. Durable(s) \in [Key -> OptValue]
  BY LastType, Zenon
<1>4. \A t \in {"resp", "ready", "abort", "ack"} : Respond(t) \in Resp
  BY Zenon DEF Respond, Resp, OptValue
<1>5. UNCHANGED <<log, hist>> => LogOK
  BY Zenon DEF SlaveTypeOK
<1> HIDE DEF m
<1>6. CASE RunGet(s, i)
  <2>1. m.key \in Key
    BY <1>2, <1>6, Zenon DEF RunGet, Msg, m
  <2>2. [type |-> "resp", val |-> store[s][m.key]] \in Resp
    BY <2>1 DEF Resp, SlaveTypeOK
  <2> QED
    BY <1>2, <1>5, <2>2, <1>6, Zenon DEF RunGet, Answer, SlaveTypeOK, Steps, m
<1>7. CASE RunVote(s, i)
  <2>1. LogOK
    BY <1>2, <1>3, <1>5, <1>7, AppendType, Zenon DEF RunVote, m
  <2> QED
    BY <1>2, <1>4, <2>1, <1>7, AnswerType, Zenon DEF RunVote, SlaveTypeOK
<1>8. CASE RunCommit(s, i)
  <2> DEFINE last == log[s][Len(log[s])]
  <2>1. log[s] # <<>> => last \in Msg /\ Perform(Durable(s), last) \in [Key -> OptValue]
    BY <1>3, LastType, Zenon DEF Perform, Msg, OptValue
  <2>2. LogOK
    BY <1>2, <1>5, <1>8, <2>1, AppendType, Zenon DEF RunCommit, m
  <2> HIDE DEF last
  <2> DEFINE WorkOK == /\ step' \in [Slave -> Steps]
                       /\ exec' \in [Slave -> Msg \cup {None}]
                       /\ resp' \in [Slave -> Resp \cup {Closed}]
                       /\ \A t \in Slave : step'[t] = "apply" => exec'[t] # None
  <2>3. ASSUME step' = [step EXCEPT ![s] = "dead"], UNCHANGED <<exec, resp>>
        PROVE  WorkOK
    BY <2>3, Zenon DEF SlaveTypeOK, Steps
  <2>4. ASSUME step' = [step EXCEPT ![s] = "apply"], UNCHANGED resp,
               exec' = [exec EXCEPT ![s] = last], last \in Msg
        PROVE  WorkOK
    <3>1. None \notin Msg
      BY NullAssumption, Zenon
    <3> QED
      BY <2>4, <3>1, Zenon DEF SlaveTypeOK, Steps
  <2>5. ASSUME Answer(s, Respond("ack")), UNCHANGED exec
        PROVE  WorkOK
    BY <1>4, <2>5, Zenon DEF Answer, SlaveTypeOK, Steps
  <2>6. WorkOK
    BY <2>1, <2>3, <2>4, <2>5, <1>8, Zenon DEF RunCommit, last
  <2> HIDE DEF WorkOK, LogOK
  <2>7. UNCHANGED <<store, pos, conn, faults>>
    BY <1>8, Zenon DEF RunCommit
  <2> QED
    BY <1>2, <2>2, <2>6, <2>7, Zenon DEF SlaveTypeOK, WorkOK, LogOK
<1>9. CASE RunAbort(s, i)
  <2>1. LogOK
    BY <1>2, <1>3, <1>9, AppendType, Zenon DEF RunAbort, m
  <2> QED
    BY <1>2, <1>4, <2>1, <1>9, AnswerType, Zenon DEF RunAbort, SlaveTypeOK
<1>10. CASE ReadFails(s, i)
  BY <1>2, <1>4, <1>5, <1>10, SlaveAssumption
     DEF ReadFails, Fault, Answer, SlaveTypeOK, Steps
<1> QED
  BY <1>6, <1>7, <1>8, <1>9, <1>10, Zenon

\* A crash, between jobs or in the middle of a log rewrite, leaves the slave well
\* typed.
LEMMA CrashTypes ==
    ASSUME SlaveTypeOK, NEW s \in Slave, Crash(s) \/ CrashInFlush(s)
    PROVE  SlaveTypeOK'
<1>1. EmptyStore \in [Key -> OptValue]
  BY Zenon DEF EmptyStore, OptValue
<1>2. /\ <<EmptyStore>> \in Seq([Key -> OptValue])
      /\ Len(<<EmptyStore>>) = 1
  BY <1>1
<1>3. <<>> \in Seq(Msg) /\ <<>> \in Seq(Job) /\ Len(<<>>) = 0
  BY EmptySequence, Zenon
<1>4. Die(s)
  BY Zenon DEF Crash, CrashInFlush
<1>5. /\ log' \in [Slave -> Seq(Msg)]
      /\ hist' \in [Slave -> Seq([Key -> OptValue])]
      /\ \A t \in Slave : Len(hist'[t]) = Len(log'[t]) + 1
  <2>1. CASE UNCHANGED <<log, hist>>
    BY <2>1, Zenon DEF SlaveTypeOK
  <2>2. CASE /\ log' = [log EXCEPT ![s] = <<>>]
             /\ hist' = [hist EXCEPT ![s] = <<EmptyStore>>]
    BY <1>2, <1>3, <2>2 DEF SlaveTypeOK
  <2> QED
    BY <2>1, <2>2, Zenon DEF Crash, CrashInFlush
<1>6. faults' \in 0..MaxFaults
  BY <1>4, SlaveAssumption DEF Die, Fault, SlaveTypeOK
<1>7. /\ step' \in [Slave -> Steps]
      /\ store' \in [Slave -> [Key -> OptValue]]
      /\ queue' \in [Slave -> Seq(Job)]
  BY <1>1, <1>3, <1>4, Zenon DEF Die, SlaveTypeOK, Steps
<1>8. /\ client' \in [Slave -> Caller \cup {None}]
      /\ exec' \in [Slave -> Msg \cup {None}]
      /\ resp' \in [Slave -> Resp \cup {Closed}]
      /\ pos' \in [Slave -> Nat]
      /\ conn' \in [Caller -> Socket]
  BY <1>4, Zenon DEF Die, SlaveTypeOK
<1>9. \A t \in Slave : step'[t] = "apply" => exec'[t] # None
  BY <1>4, Zenon DEF Die, SlaveTypeOK
<1> QED
  BY <1>5, <1>6, <1>7, <1>8, <1>9, Zenon DEF SlaveTypeOK

\* Carrying out a commit, answering and recovering keep the slave well typed.
LEMMA WorkTypes ==
    ASSUME SlaveTypeOK, NEW s \in Slave,
           Apply(s) \/ Reply(s) \/ Restart(s) \/ RebuildServer(s) \/ Register(s)
    PROVE  SlaveTypeOK'
<1>1. ASSUME NEW st \in [Key -> OptValue], NEW m \in Msg
      PROVE  Perform(st, m) \in [Key -> OptValue]
  BY Zenon DEF Perform, Msg, OptValue
<1>2. \A t \in {"resp", "ack"} : Respond(t) \in Resp
  BY Zenon DEF Respond, Resp, OptValue
<1>3. CASE Apply(s)
  <2>1. exec[s] \in Msg
    BY <1>3, Zenon DEF Apply, SlaveTypeOK
  <2>2. Perform(store[s], exec[s]) \in [Key -> OptValue]
    BY <1>1, <2>1, Zenon DEF SlaveTypeOK
  <2>3. store' \in [Slave -> [Key -> OptValue]]
    BY <2>2, <1>3, Zenon DEF Apply, SlaveTypeOK
  <2>4. PICK r \in Resp : Answer(s, r)
    BY <1>2, <1>3, Zenon DEF Apply
  <2>5. /\ step' \in [Slave -> Steps]
        /\ resp' \in [Slave -> Resp \cup {Closed}]
        /\ step'[s] = "reply"
        /\ \A t \in Slave \ {s} : step'[t] = step[t]
    BY <2>4, AnswerType, Zenon
  <2>6. /\ exec' \in [Slave -> Msg \cup {None}]
        /\ \A t \in Slave : step'[t] = "apply" => exec'[t] # None
    BY <2>5, <1>3, Zenon DEF Apply, SlaveTypeOK
  <2> QED
    BY <2>3, <2>5, <2>6, <1>3, Zenon DEF Apply, SlaveTypeOK
<1>4. CASE Reply(s)
  <2>1. Resp \cup {Closed} \subseteq Socket
    BY DEF Resp, Socket, Closed, OptValue
  <2> QED
    BY <2>1, <1>4, Zenon DEF Reply, SlaveTypeOK, Steps
<1>5. CASE Restart(s)
  BY <1>5, Zenon DEF Restart, SlaveTypeOK, Steps
<1>6. CASE RebuildServer(s)
  <2> DEFINE entry == log[s][pos[s] + 1]
  <2>a. /\ log[s] \in Seq(Msg)
        /\ pos[s] \in Nat
        /\ pos[s] < Len(log[s])
    BY <1>6, Zenon DEF RebuildServer, SlaveTypeOK
  <2>1. /\ log[s] \in Seq(Msg)
        /\ pos[s] + 1 \in 1..Len(log[s])
    <3>1. Len(log[s]) \in Nat
      BY <2>a
    <3> QED
      BY <2>a, <3>1
  <2>2. entry \in Msg
    BY <2>1, SequenceFunction, Zenon
  <2> HIDE DEF entry
  <2>3. /\ pos' \in [Slave -> Nat]
        /\ exec' \in [Slave -> Msg \cup {None}]
    <3>1. /\ pos \in [Slave -> Nat]
          /\ pos' = [pos EXCEPT ![s] = @ + 1]
      BY <1>6, Zenon DEF RebuildServer, SlaveTypeOK
    <3>2. pos' \in [Slave -> Nat]
      BY <3>1
    <3>3. /\ exec \in [Slave -> Msg \cup {None}]
          /\ exec' = [exec EXCEPT ![s] = IF IsUpdate(entry) THEN entry ELSE None]
      BY <1>6, Zenon DEF RebuildServer, SlaveTypeOK, entry
    <3>4. exec' \in [Slave -> Msg \cup {None}]
      BY <2>2, <3>3, Zenon
    <3> QED
      BY <3>2, <3>4, Zenon
  <2>4. /\ step' \in [Slave -> Steps]
        /\ step'[s] # "apply"
        /\ \A t \in Slave \ {s} : step'[t] = step[t] /\ exec'[t] = exec[t]
    BY <1>6, Zenon DEF RebuildServer, SlaveTypeOK, Steps
  <2>5. exec[s] # None => Perform(store[s], exec[s]) \in [Key -> OptValue]
    BY <1>1, Zenon DEF SlaveTypeOK
  <2>6. store' \in [Slave -> [Key -> OptValue]]
    BY <2>5, <1>6, Zenon DEF RebuildServer, SlaveTypeOK
  <2>7. \A t \in Slave : step'[t] = "apply" => exec'[t] # None
    BY <2>4, Zenon DEF SlaveTypeOK
  <2> QED
    BY <2>3, <2>4, <2>6, <2>7, <1>6, Zenon DEF RebuildServer, SlaveTypeOK
<1>7. CASE Register(s)
  BY <1>7, Zenon DEF Register, SlaveTypeOK, Steps
<1> QED
  BY <1>3, <1>4, <1>5, <1>6, <1>7, Zenon

\* Giving up on a socket keeps the slaves well typed.
LEMMA TimeoutType ==
    ASSUME SlaveTypeOK, NEW c \in Caller, Timeout(c),
           UNCHANGED <<step, log, store, exec, resp, pos, hist>>
    PROVE  SlaveTypeOK'
<1>1. queue' \in [Slave -> Seq(Job)]
  BY HangUpType, Zenon DEF Timeout
<1>2. Closed \in Socket
  BY Zenon DEF Closed, Socket, OptValue
<1>3. conn' \in [Caller -> Socket] /\ client' \in [Slave -> Caller \cup {None}]
  BY <1>2, Zenon DEF Timeout, SlaveTypeOK
<1>4. faults' \in 0..MaxFaults
  BY SlaveAssumption DEF Timeout, Fault, SlaveTypeOK
<1> QED
  BY <1>1, <1>3, <1>4, Zenon DEF SlaveTypeOK

\* Connecting, failing to connect and receiving keep the slaves well typed.
LEMMA SocketTypes ==
    ASSUME SlaveTypeOK, NEW c \in Caller, NEW s \in Slave,
           UNCHANGED <<step, log, store, exec, resp, pos, hist, client>>,
           \/ (\E m \in Msg : Send(c, s, m)) /\ UNCHANGED faults
           \/ CannotConnect(c, s) /\ UNCHANGED <<queue, conn>>
           \/ Receive(c) /\ UNCHANGED <<queue, faults>>
    PROVE  SlaveTypeOK'
<1>1. CASE (\E m \in Msg : Send(c, s, m)) /\ UNCHANGED faults
  <2>1. conn' \in [Caller -> Socket] /\ queue' \in [Slave -> Seq(Job)]
    BY <1>1, SendType, Zenon
  <2> QED
    BY <1>1, <2>1, Zenon DEF SlaveTypeOK
<1>2. CASE CannotConnect(c, s) /\ UNCHANGED <<queue, conn>>
  <2>1. faults' \in 0..MaxFaults
    BY <1>2, SlaveAssumption DEF CannotConnect, Fault, SlaveTypeOK
  <2> QED
    BY <1>2, <2>1, Zenon DEF SlaveTypeOK
<1>3. CASE Receive(c) /\ UNCHANGED <<queue, faults>>
  <2>1. Closed \in Socket
    BY Zenon DEF Closed, Socket, OptValue
  <2>2. conn' \in [Caller -> Socket]
    BY <1>3, <2>1, Zenon DEF Receive, SlaveTypeOK
  <2> QED
    BY <1>3, <2>2, Zenon DEF SlaveTypeOK
<1> QED
  BY <1>1, <1>2, <1>3, Zenon

\* The part of TypeOK about the master.
MasterTypeOK ==
    /\ phase \in {"idle", "phase1", "phase2", "flush"}
    /\ rqst \in TPCRequest \cup {None}
    /\ rqst = None => phase = "idle"
    /\ turn \in 1..2
    /\ globalAbort \in BOOLEAN
    /\ invalidFormat \in BOOLEAN
    /\ txns \in 0..MaxTxns

\* The part of TypeOK about readers and the cache.
GetTypeOK ==
    /\ masterCache \in [Key -> OptValue]
    /\ getting \in [Reader -> {"idle", "primary", "secondary"}]
    /\ getKey \in [Reader -> Key \cup {None}]
    /\ \A r \in Reader : getting[r] # "idle" => getKey[r] \in Key
    /\ returned \in [Reader -> OptValue]
    /\ db \in [Key -> OptValue]
    /\ permitted \in [Reader -> SUBSET OptValue]

\* TypeOK is the conjunction of its parts.
LEMMA TypeParts ==
    /\ TypeOK <=> SlaveTypeOK /\ MasterTypeOK /\ GetTypeOK
    /\ TypeOK' <=> SlaveTypeOK' /\ MasterTypeOK' /\ GetTypeOK'
BY Zenon DEF TypeOK, MasterTypeOK, GetTypeOK

\* What is known of a request that passed isValidTPCRequest.
LEMMA RequestFacts ==
    ASSUME NEW m \in TPCRequest
    PROVE  m \in Msg /\ m # None /\ m.key \in Key /\ m.val \in OptValue
BY NullAssumption, Zenon DEF TPCRequest, Msg, OptValue

\* The initial state is well typed.
LEMMA TypeInit == Init => TypeOK
<1> SUFFICES ASSUME Init PROVE TypeOK
  BY Zenon
<1>1. SlaveTypeOK
  BY SlaveTypeInit, Zenon DEF Init
<1>2. MasterTypeOK
  <2>1. txns \in 0..MaxTxns /\ turn \in 1..2
    BY MasterAssumption DEF Init
  <2> QED
    BY <2>1, Zenon DEF Init, MasterTypeOK
<1>3. None \in OptValue
  BY Zenon DEF OptValue
<1>4. permitted \in [Reader -> SUBSET OptValue]
  BY <1>3, Zenon DEF Init
<1>5. GetTypeOK
  BY <1>3, <1>4, Zenon DEF Init, GetTypeOK
<1> QED
  BY <1>1, <1>2, <1>5, TypeParts, Zenon

\* Ending an iteration of phase 1 keeps the master well typed.
LEMMA NextVoteType ==
    ASSUME TypeOK, phase = "phase1", NEW a \in BOOLEAN, NextVote(a)
    PROVE  MasterTypeOK' /\ GetTypeOK'
<1>1. rqst \in TPCRequest /\ rqst.val \in OptValue
  BY RequestFacts, Zenon DEF TypeOK
<1>2. MasterTypeOK'
  BY DEF TypeOK, MasterTypeOK, NextVote
<1>3. permitted' \in [Reader -> SUBSET OptValue]
  <2>1. CASE PermitNewValue
    <3>1. \A r \in Reader : permitted[r] \in SUBSET OptValue
      BY Zenon DEF TypeOK
    <3>2. \A r \in Reader : permitted[r] \cup {rqst.val} \in SUBSET OptValue
      BY <1>1, <3>1, Zenon
    <3>3. \A r \in Reader : (IF getting[r] # "idle" /\ getKey[r] = rqst.key
                             THEN permitted[r] \cup {rqst.val} ELSE permitted[r])
                            \in SUBSET OptValue
      BY <3>1, <3>2, Zenon
    <3> QED
      BY <2>1, <3>3, Zenon DEF PermitNewValue
  <2>2. CASE UNCHANGED permitted
    BY <2>2, Zenon DEF TypeOK
  <2> QED
    BY <2>1, <2>2, Zenon DEF NextVote
<1>4. GetTypeOK'
  BY <1>3, Zenon DEF TypeOK, GetTypeOK, NextVote, getVars
<1> QED
  BY <1>2, <1>4, Zenon

\* KVCache.put keeps the cache well typed.
LEMMA CachePutType ==
    ASSUME masterCache \in [Key -> OptValue], NEW k, NEW v \in OptValue, CachePut(k, v)
    PROVE  masterCache' \in [Key -> OptValue]
BY Zenon DEF CachePut, OptValue

\* Returning from getValueFromReplica keeps the master well typed.
LEMMA GotValueType ==
    ASSUME TypeOK, NEW r \in Reader, NEW v \in OptValue, GotValue(r, v),
           permitted' \in [Reader -> SUBSET OptValue]
    PROVE  MasterTypeOK' /\ GetTypeOK'
<1>1. MasterTypeOK'
  BY Zenon DEF GotValue, TypeOK, MasterTypeOK, masterVars
<1>2. masterCache' \in [Key -> OptValue]
  BY CachePutType, Zenon DEF GotValue, TypeOK
<1>3. /\ getting' \in [Reader -> {"idle", "primary", "secondary"}]
      /\ \A q \in Reader : getting'[q] # "idle" => getting[q] # "idle"
  BY Zenon DEF GotValue, TypeOK
<1>4. returned' \in [Reader -> OptValue]
  BY Zenon DEF GotValue, TypeOK
<1> QED
  BY <1>1, <1>2, <1>3, <1>4, Zenon DEF GotValue, TypeOK, GetTypeOK

\* Every step of handleTPCRequest keeps the system well typed.
LEMMA TPCStepType ==
    ASSUME TypeOK, TPCStep
    PROVE  TypeOK'
<1> USE TypeParts
<1>1. /\ Coord \in Caller
      /\ Commit \in Msg /\ Abort \in Msg
  BY MasterAssumption, Zenon DEF Commit, Abort, Msg
<1>2. phase # "idle"
  BY Zenon DEF TPCStep, Phase1Send, Phase1Connect, Phase1Timeout, Phase1Receive,
         Phase2Send, Phase2Timeout, Phase2Receive, Flush
<1>3. rqst \in TPCRequest /\ rqst \in Msg /\ rqst.key \in Key /\ rqst.val \in OptValue
  BY <1>2, RequestFacts, Zenon DEF TypeOK
<1>4. CurrSlave \in Slave
  BY <1>3, MasterAssumption DEF TypeOK, CurrSlave
<1>5. UNCHANGED <<masterVars, masterCache, getVars, db, permitted>>
        => MasterTypeOK' /\ GetTypeOK'
  BY Zenon DEF TypeOK, MasterTypeOK, GetTypeOK, masterVars, getVars
<1>6. CASE Phase1Send
  <2>1. SlaveTypeOK'
    BY <1>1, <1>3, <1>4, <1>6, SocketTypes, Zenon DEF Phase1Send
  <2> QED
    BY <1>5, <1>6, <2>1, Zenon DEF Phase1Send
<1>7. CASE Phase1Connect
  <2>1. SlaveTypeOK'
    BY <1>1, <1>4, <1>7, SocketTypes, Zenon DEF Phase1Connect
  <2> QED
    BY <1>7, <2>1, NextVoteType, Zenon DEF Phase1Connect
<1>8. CASE Phase1Timeout
  <2>1. SlaveTypeOK'
    BY <1>1, <1>8, TimeoutType, Zenon DEF Phase1Timeout
  <2> QED
    BY <1>8, <2>1, NextVoteType, Zenon DEF Phase1Timeout
<1>9. CASE Phase1Receive
  <2>1. SlaveTypeOK'
    BY <1>1, <1>4, <1>9, SocketTypes, Zenon DEF Phase1Receive
  <2>2. (conn[Coord].type # "ready") \in BOOLEAN
    BY Zenon
  <2> QED
    BY <1>9, <2>1, <2>2, NextVoteType, Zenon DEF Phase1Receive
<1>10. CASE Phase2Send
  <2>1. (IF globalAbort THEN Abort ELSE Commit) \in Msg
    BY <1>1, Zenon
  <2>2. SlaveTypeOK'
    BY <1>1, <1>4, <1>10, <2>1, SocketTypes, Zenon DEF Phase2Send
  <2> QED
    BY <1>5, <1>10, <2>2, Zenon DEF Phase2Send
<1>11. CASE Phase2Timeout
  <2>1. SlaveTypeOK'
    BY <1>1, <1>11, TimeoutType, Zenon DEF Phase2Timeout
  <2> QED
    BY <1>5, <1>11, <2>1, Zenon DEF Phase2Timeout
<1>12. Done => db' \in [Key -> OptValue]
  BY <1>3, Zenon DEF Done, TypeOK
<1>13. CASE Phase2Receive
  <2>1. SlaveTypeOK'
    BY <1>1, <1>4, <1>13, SocketTypes, Zenon DEF Phase2Receive
  <2>2. MasterTypeOK'
    <3>1. UNCHANGED <<rqst, globalAbort, txns>>
      BY <1>13, Zenon DEF Phase2Receive
    <3>2. phase' \in {"idle", "phase2", "flush"} /\ rqst # None
      BY <1>3, <1>13, Zenon DEF Phase2Receive, Done, MasterTypeOK
    <3>3. turn' \in 1..2
      BY <1>13 DEF Phase2Receive
    <3>4. invalidFormat' \in BOOLEAN
      BY <1>3, <1>13, Zenon DEF Phase2Receive, MasterTypeOK
    <3> QED
      BY <1>3, <3>1, <3>2, <3>3, <3>4, Zenon DEF MasterTypeOK
  <2>3. GetTypeOK'
    <3>1. UNCHANGED <<masterCache, getting, getKey, returned, permitted>>
      BY <1>13, Zenon DEF Phase2Receive, getVars
    <3>2. db' \in [Key -> OptValue]
      <4>1. Done \/ UNCHANGED db
        BY <1>13, Zenon DEF Phase2Receive
      <4> QED
        BY <4>1, <1>12, <1>3, Zenon DEF GetTypeOK
    <3> QED
      BY <3>1, <3>2, <1>3, Zenon DEF GetTypeOK
  <2> QED
    BY <2>1, <2>2, <2>3, Zenon
<1>14. CASE Flush
  <2>1. masterCache' \in [Key -> OptValue]
    <3>1. None \in OptValue
      BY Zenon DEF OptValue
    <3> QED
      BY <1>3, <1>14, <3>1, CachePutType, Zenon DEF Flush, TypeOK
  <2>2. SlaveTypeOK'
    BY <1>14, Zenon DEF Flush, slaveVars, SlaveTypeOK
  <2>3. MasterTypeOK'
    BY <1>3, <1>14, Zenon DEF Flush, Done, MasterTypeOK
  <2>4. GetTypeOK'
    BY <1>12, <1>14, <2>1, Zenon DEF Flush, GetTypeOK, getVars
  <2> QED
    BY <2>2, <2>3, <2>4, Zenon
<1> QED
  BY <1>6, <1>7, <1>8, <1>9, <1>10, <1>11, <1>13, <1>14, Zenon DEF TPCStep

\* Every step of handleGet keeps the system well typed.
LEMMA GetStepType ==
    ASSUME TypeOK, NEW r \in Reader, GetStep(r)
    PROVE  TypeOK'
<1> USE TypeParts
<1>1. r \in Caller
  BY MasterAssumption, Zenon
<1>2. getKey[r] \in Key
  BY Zenon DEF GetStep, GetSend, GetConnect, GetTimeout, GetReceive, TypeOK
<1>3. GetReq(getKey[r]) \in Msg /\ None \in OptValue
  BY <1>2, Zenon DEF GetReq, Msg, OptValue
<1>4. Asked(r) \in Slave
  BY <1>2, MasterAssumption DEF Asked
<1>5. PermitNoSuchKey(r) => permitted' \in [Reader -> SUBSET OptValue]
  <2>1. permitted[r] \cup {None} \in SUBSET OptValue
    BY <1>3, Zenon DEF GetTypeOK
  <2> QED
    BY <2>1, Zenon DEF PermitNoSuchKey, GetTypeOK
<1>6. CASE GetSend(r)
  <2>1. SlaveTypeOK'
    BY <1>1, <1>3, <1>4, <1>6, SocketTypes, Zenon DEF GetSend
  <2> QED
    BY <1>6, <2>1, Zenon DEF GetSend, MasterTypeOK, GetTypeOK, masterVars, getVars
<1>7. CASE GetConnect(r)
  <2>1. SlaveTypeOK'
    BY <1>1, <1>4, <1>7, SocketTypes, Zenon DEF GetConnect
  <2> QED
    BY <1>3, <1>5, <1>7, <2>1, GotValueType, Zenon DEF GetConnect
<1>8. CASE GetTimeout(r)
  <2>1. SlaveTypeOK'
    BY <1>1, <1>8, TimeoutType, Zenon DEF GetTimeout
  <2> QED
    BY <1>3, <1>5, <1>8, <2>1, GotValueType, Zenon DEF GetTimeout
<1>9. CASE GetReceive(r)
  <2>1. SlaveTypeOK'
    BY <1>1, <1>4, <1>9, SocketTypes, Zenon DEF GetReceive
  <2>2. (IF conn[r].type = "resp" THEN conn[r].val ELSE None) \in OptValue
    BY <1>1, <1>3, Zenon DEF SlaveTypeOK, Socket
  <2>3. permitted' \in [Reader -> SUBSET OptValue]
    BY <1>9, Zenon DEF GetReceive, GetTypeOK
  <2> QED
    BY <1>9, <2>1, <2>2, <2>3, GotValueType, Zenon DEF GetReceive
<1> QED
  BY <1>6, <1>7, <1>8, <1>9, Zenon DEF GetStep

\* Entering handleTPCRequest or handleGet keeps the system well typed.
LEMMA StartType ==
    ASSUME TypeOK,
           \/ \E m \in TPCRequest : Request(m)
           \/ \E r \in Reader, k \in Key : GetStart(r, k)
    PROVE  TypeOK'
<1> USE TypeParts
<1>1. SlaveTypeOK'
  <2>1. UNCHANGED slaveVars
    BY Zenon DEF Request, GetStart
  <2> QED
    BY <2>1, Zenon DEF slaveVars, SlaveTypeOK
<1>2. CASE \E m \in TPCRequest : Request(m)
  <2>1. PICK m \in TPCRequest : Request(m)
    BY <1>2, Zenon
  <2>2. m # None
    BY RequestFacts, Zenon
  <2>3. MasterTypeOK'
    <3>1. /\ txns \in 0..MaxTxns /\ MaxTxns \in Nat
          /\ txns < MaxTxns /\ txns' = txns + 1 /\ turn' = 1
      BY <2>1, MasterAssumption, Zenon DEF Request, MasterTypeOK
    <3>2. txns' \in 0..MaxTxns /\ turn' \in 1..2
      BY <3>1
    <3>3. /\ phase' = "phase1" /\ rqst' = m
          /\ globalAbort' = FALSE /\ invalidFormat' = FALSE
      BY <2>1, Zenon DEF Request
    <3>4. globalAbort' \in BOOLEAN /\ invalidFormat' \in BOOLEAN
      BY <3>3, Zenon
    <3>5. /\ phase' \in {"idle", "phase1", "phase2", "flush"}
          /\ rqst' \in TPCRequest \cup {None} /\ rqst' # None
      BY <2>2, <3>3, Zenon
    <3> QED
      BY <3>2, <3>4, <3>5, Zenon DEF MasterTypeOK
  <2>4. GetTypeOK'
    BY <2>1, Zenon DEF Request, GetTypeOK, getVars
  <2> QED
    BY <1>1, <2>3, <2>4, Zenon
<1>3. CASE \E r \in Reader, k \in Key : GetStart(r, k)
  <2>1. PICK r \in Reader, k \in Key : GetStart(r, k)
    BY <1>3, Zenon
  <2>2. db[k] \in OptValue /\ masterCache[k] \in OptValue
    BY Zenon DEF GetTypeOK
  <2>3. Committing => rqst.val \in OptValue
    BY RequestFacts, Zenon DEF MasterTypeOK, Committing
  <2>4. {db[k]} \cup (IF Committing /\ rqst.key = k THEN {rqst.val} ELSE {})
          \in SUBSET OptValue
    BY <2>2, <2>3, Zenon
  <2>5. permitted' \in [Reader -> SUBSET OptValue]
    BY <2>1, <2>4, Zenon DEF GetStart, GetTypeOK
  <2>6. MasterTypeOK'
    BY <2>1, Zenon DEF GetStart, MasterTypeOK, masterVars
  <2>7. GetTypeOK'
    <3>1. UNCHANGED <<masterCache, db>>
      BY <2>1, Zenon DEF GetStart
    <3>a. /\ getKey' = [getKey EXCEPT ![r] = k]
          /\ getting' \in {getting, [getting EXCEPT ![r] = "primary"]}
          /\ returned' \in {returned, [returned EXCEPT ![r] = masterCache[k]]}
      BY <2>1, Zenon DEF GetStart
    <3>b. /\ getting \in [Reader -> {"idle", "primary", "secondary"}]
          /\ getKey \in [Reader -> Key \cup {None}]
          /\ \A u \in Reader : getting[u] # "idle" => getKey[u] \in Key
          /\ returned \in [Reader -> OptValue]
      BY Zenon DEF GetTypeOK
    <3>2. getting' \in [Reader -> {"idle", "primary", "secondary"}]
      BY <3>a, <3>b, Zenon
    <3>3. getKey' \in [Reader -> Key \cup {None}]
      BY <3>a, <3>b, Zenon
    <3>4. \A u \in Reader : getting'[u] # "idle" => getKey'[u] \in Key
      BY <3>a, <3>b, Zenon
    <3>5. returned' \in [Reader -> OptValue]
      BY <3>a, <3>b, <2>2, Zenon
    <3> QED
      BY <2>5, <3>1, <3>2, <3>3, <3>4, <3>5, Zenon DEF GetTypeOK
  <2> QED
    BY <1>1, <2>6, <2>7, Zenon
<1> QED
  BY <1>2, <1>3, Zenon

\* TypeOK is inductive.
LEMMA TypeNext == TypeOK /\ [Next]_vars => TypeOK'
<1> SUFFICES ASSUME TypeOK, [Next]_vars PROVE TypeOK'
  BY Zenon
<1> USE TypeParts
<1>1. CASE \E m \in TPCRequest : Request(m)
  BY <1>1, StartType, Zenon
<1>2. CASE TPCStep
  BY <1>2, TPCStepType, Zenon
<1>3. CASE \E r \in Reader : GetStep(r) \/ \E k \in Key : GetStart(r, k)
  BY <1>3, GetStepType, StartType, Zenon
<1>4. CASE \E s \in Slave :
              /\ SlaveStep(s) \/ SlaveFault(s)
              /\ UNCHANGED <<masterVars, masterCache, getVars, db, permitted>>
  <2>1. PICK s \in Slave : SlaveStep(s) \/ SlaveFault(s)
    BY <1>4, Zenon
  <2>2. SlaveTypeOK'
    BY <2>1, RunTypes, CrashTypes, WorkTypes, Zenon DEF SlaveStep, SlaveFault
  <2> QED
    BY <1>4, <2>2, Zenon DEF MasterTypeOK, GetTypeOK, masterVars, getVars
<1>5. CASE UNCHANGED vars
  <2>1. SlaveTypeOK'
    BY <1>5, Zenon DEF vars, slaveVars, SlaveTypeOK
  <2> QED
    BY <1>5, <2>1, Zenon DEF vars, MasterTypeOK, GetTypeOK, masterVars, getVars
<1> QED
  BY <1>1, <1>2, <1>3, <1>4, <1>5, Zenon DEF Next

\* Every reachable state of the master and its slaves is well typed, whatever
\* the number of slaves, keys, readers, workers, faults and requests: no handler
\* indexes a log, a queue or the replica list out of range.
THEOREM TypeCorrect == Spec => []TypeOK
<1>1. Init => TypeOK
  BY TypeInit, Zenon
<1>2. TypeOK /\ [Next]_vars => TypeOK'
  BY TypeNext, Zenon
<1> QED
  BY <1>1, <1>2, PTL DEF Spec

-----------------------------------------------------------------------------
(* Recovery.                                                               *)

\* The inductive invariant gives the property.
LEMMA RecoveryInvImplies == RecoveryInv => RecoveryExact
BY Zenon DEF RecoveryInv, SlaveRecovers, StoreIsDurable, RecoveryExact

\* What only changes other parts of the state keeps a slave recoverable.
LEMMA RecoversFrame ==
    ASSUME NEW s \in Slave, SlaveRecovers(s),
           step'[s] = step[s], log'[s] = log[s], hist'[s] = hist[s],
           store'[s] = store[s], exec'[s] = exec[s], pos'[s] = pos[s]
    PROVE  SlaveRecovers(s)'
BY Zenon DEF SlaveRecovers, LogReplays, StoreIsDurable, ApplyBehind, RebuildAt, Durable

\* What appending to the log does to it and to its history.
LEMMA AppendFacts ==
    ASSUME SlaveTypeOK, NEW s \in Slave, NEW m \in Msg, NEW st \in [Key -> OptValue],
           AppendAndFlush(s, m, st)
    PROVE  /\ Len(log'[s]) = Len(log[s]) + 1
           /\ Len(hist'[s]) = Len(log[s]) + 2
           /\ \A n \in 1..Len(log[s]) : log'[s][n] = log[s][n]
           /\ log'[s][Len(log[s]) + 1] = m
           /\ \A n \in 1..Len(log[s]) + 1 : hist'[s][n] = hist[s][n]
           /\ hist'[s][Len(log[s]) + 2] = st
           /\ \A t \in Slave \ {s} : log'[t] = log[t] /\ hist'[t] = hist[t]
<1>1. log[s] \in Seq(Msg) /\ hist[s] \in Seq([Key -> OptValue])
  BY Zenon DEF SlaveTypeOK
<1>2. Len(log[s]) \in Nat /\ Len(hist[s]) = Len(log[s]) + 1
  BY <1>1, SequenceFunction, Zenon DEF SlaveTypeOK
<1>3. log'[s] = Append(log[s], m) /\ hist'[s] = Append(hist[s], st)
  BY Zenon DEF AppendAndFlush, SlaveTypeOK
<1>4. /\ Len(log'[s]) = Len(log[s]) + 1
      /\ \A n \in 1..Len(log[s]) : log'[s][n] = log[s][n]
      /\ log'[s][Len(log[s]) + 1] = m
  BY <1>1, <1>3, AppendElement
<1>5. /\ Len(hist'[s]) = Len(hist[s]) + 1
      /\ \A n \in 1..Len(hist[s]) : hist'[s][n] = hist[s][n]
      /\ hist'[s][Len(hist[s]) + 1] = st
  BY <1>1, <1>3, AppendElement
<1> QED
  BY <1>2, <1>4, <1>5 DEF AppendAndFlush, SlaveTypeOK

\* The longer log still replays to its history.
LEMMA AppendReplays ==
    ASSUME SlaveTypeOK, NEW s \in Slave, NEW m \in Msg, NEW st \in [Key -> OptValue],
           AppendAndFlush(s, m, st), LogReplays(s),
           IF m.type = "commit"
           THEN /\ Len(log[s]) > 0 /\ IsUpdate(log[s][Len(log[s])])
                /\ st = Perform(Durable(s), log[s][Len(log[s])])
           ELSE /\ st = Durable(s)
                /\ IsUpdate(m) => ~Throws(Durable(s), m)
    PROVE  /\ LogReplays(s)'
           /\ hist'[s][Len(log[s]) + 1] = Durable(s)
           /\ Durable(s)' = st
<1> DEFINE L == Len(log[s])
<1>1. L \in Nat /\ Len(hist[s]) = L + 1
  BY SequenceFunction, Zenon DEF SlaveTypeOK
<1>2. /\ Len(log'[s]) = L + 1
      /\ Len(hist'[s]) = L + 2
      /\ \A n \in 1..L : log'[s][n] = log[s][n]
      /\ log'[s][L + 1] = m
      /\ \A n \in 1..L + 1 : hist'[s][n] = hist[s][n]
      /\ hist'[s][L + 2] = st
  BY AppendFacts
<1>3. hist[s][L + 1] = Durable(s)
  BY <1>1, Zenon DEF Durable
<1> HIDE DEF L
<1>4. hist'[s][1] = EmptyStore
  BY <1>1, <1>2 DEF LogReplays
<1>5. ASSUME NEW n \in 1..Len(log'[s])
      PROVE  /\ hist'[s][n + 1] = IF log'[s][n].type = "commit"
                                  THEN Perform(hist'[s][n], log'[s][n - 1]) ELSE hist'[s][n]
             /\ log'[s][n].type = "commit" => n > 1 /\ IsUpdate(log'[s][n - 1])
             /\ IsUpdate(log'[s][n]) => ~Throws(hist'[s][n], log'[s][n])
  <2>1. CASE n <= L
    <3>1. n \in 1..L /\ n \in 1..L + 1 /\ n + 1 \in 1..L + 1 /\ (n > 1 => n - 1 \in 1..L)
      BY <1>1, <2>1
    <3>2. /\ hist[s][n + 1] = IF log[s][n].type = "commit"
                              THEN Perform(hist[s][n], log[s][n - 1]) ELSE hist[s][n]
          /\ log[s][n].type = "commit" => n > 1 /\ IsUpdate(log[s][n - 1])
          /\ IsUpdate(log[s][n]) => ~Throws(hist[s][n], log[s][n])
      BY <3>1, Zenon DEF LogReplays, L
    <3>3. log'[s][n] = log[s][n] /\ hist'[s][n] = hist[s][n] /\ hist'[s][n + 1] = hist[s][n + 1]
          /\ (n > 1 => log'[s][n - 1] = log[s][n - 1])
      BY <1>2, <3>1, Zenon
    <3> QED
      BY <3>2, <3>3, Zenon
  <2>2. CASE n = L + 1
    <3>1. n + 1 = L + 2 /\ n - 1 = L /\ n \in 1..L + 1
      BY <1>1, <2>2
    <3>2. log'[s][n] = m /\ hist'[s][n] = Durable(s) /\ hist'[s][n + 1] = st
      BY <1>2, <1>3, <2>2, <3>1, Zenon
    <3>3. CASE m.type = "commit"
      <4>1. L > 0 /\ IsUpdate(log[s][L]) /\ st = Perform(Durable(s), log[s][L])
        BY <3>3, Zenon DEF L
      <4>2. n > 1 /\ L \in 1..L
        BY <1>1, <2>2, <4>1
      <4>3. log'[s][n - 1] = log[s][L]
        BY <1>2, <3>1, <4>2, Zenon
      <4>4. ~IsUpdate(m)
        BY <3>3, Zenon DEF IsUpdate
      <4> QED
        BY <3>2, <3>3, <4>1, <4>2, <4>3, <4>4, Zenon
    <3>4. CASE m.type # "commit"
      BY <3>2, <3>4, Zenon
    <3> QED
      BY <3>3, <3>4, Zenon
  <2> QED
    BY <1>1, <1>2, <2>1, <2>2
<1>6. LogReplays(s)'
  BY <1>4, <1>5, Zenon DEF LogReplays
<1>7. Durable(s)' = st
  BY <1>2, Zenon DEF Durable
<1>8. L + 1 \in 1..L + 1
  BY <1>1
<1> QED
  BY <1>2, <1>3, <1>6, <1>7, <1>8, Zenon DEF L

\* Voting, aborting, reading and acknowledging a repeated commit: the store stays
\* what the log gives.
LEMMA RunRecovers ==
    ASSUME SlaveTypeOK, RecoveryInv, NEW s \in Slave, NEW i \in 1..Len(queue[s]),
           \/ RunGet(s, i) \/ RunVote(s, i) \/ RunCommit(s, i)
           \/ RunAbort(s, i) \/ ReadFails(s, i)
    PROVE  RecoveryInv'
<1> DEFINE m == queue[s][i].msg
           L == Len(log[s])
<1>1. Take(s, i) /\ step[s] = "idle"
  BY Zenon DEF RunGet, RunVote, RunCommit, RunAbort, ReadFails, Take
<1>2. m \in Msg /\ Durable(s) \in [Key -> OptValue] /\ L \in Nat
  BY <1>1, TakeType, LastType, Zenon
<1>3. SlaveRecovers(s) /\ LogReplays(s) /\ store[s] = Durable(s)
  BY <1>1, Zenon DEF RecoveryInv, SlaveRecovers, StoreIsDurable
<1>4. ASSUME NEW t \in Slave \ {s} PROVE SlaveRecovers(t)'
  <2>1. SlaveRecovers(t)
    BY Zenon DEF RecoveryInv
  <2>2. /\ step'[t] = step[t] /\ log'[t] = log[t] /\ hist'[t] = hist[t]
        /\ store'[t] = store[t] /\ exec'[t] = exec[t] /\ pos'[t] = pos[t]
    BY Zenon DEF RunGet, RunVote, RunCommit, RunAbort, ReadFails, Answer, AppendAndFlush,
           SlaveTypeOK
  <2> QED
    BY <2>1, <2>2, RecoversFrame, Zenon
<1>5. ASSUME step'[s] \in {"reply", "dead"}, LogReplays(s)', store'[s] = Durable(s)'
      PROVE  SlaveRecovers(s)'
  BY <1>5, Zenon DEF SlaveRecovers, StoreIsDurable, ApplyBehind, RebuildAt
<1>6. UNCHANGED <<log, hist>> => LogReplays(s)' /\ Durable(s)' = Durable(s)
  BY <1>3, Zenon DEF LogReplays, Durable
<1> HIDE DEF m, L
<1>7. CASE RunGet(s, i) \/ ReadFails(s, i)
  <2>1. step'[s] = "reply" /\ store'[s] = store[s] /\ UNCHANGED <<log, hist>>
    BY <1>7, Zenon DEF RunGet, ReadFails, Answer, SlaveTypeOK
  <2> QED
    BY <1>3, <1>4, <1>5, <1>6, <2>1, Zenon DEF RecoveryInv
<1>8. CASE RunVote(s, i)
  <2>1. step'[s] = "reply" /\ store'[s] = store[s] /\ IsUpdate(m)
    BY <1>8, Zenon DEF RunVote, Answer, SlaveTypeOK, m
  <2>2. CASE Votes(s, m)
    <3>1. AppendAndFlush(s, m, Durable(s))
      BY <1>8, <2>2, Zenon DEF RunVote, m
    <3>2. ~Throws(Durable(s), m) /\ m.type # "commit"
      BY <1>3, <2>1, <2>2, Zenon DEF Votes, Throws, IsUpdate
    <3>3. LogReplays(s)' /\ Durable(s)' = Durable(s)
      BY <1>2, <1>3, <3>1, <3>2, AppendReplays, Zenon
    <3> QED
      BY <1>3, <1>4, <1>5, <2>1, <3>3, Zenon DEF RecoveryInv
  <2>3. CASE ~Votes(s, m)
    BY <1>3, <1>4, <1>5, <1>6, <1>8, <2>1, <2>3, Zenon DEF RunVote, RecoveryInv, m
  <2> QED
    BY <2>2, <2>3, Zenon
<1>9. CASE RunAbort(s, i)
  <2>1. step'[s] = "reply" /\ store'[s] = store[s] /\ m.type = "abort"
        /\ AppendAndFlush(s, m, Durable(s))
    BY <1>9, Zenon DEF RunAbort, Answer, SlaveTypeOK, m
  <2>2. LogReplays(s)' /\ Durable(s)' = Durable(s)
    BY <1>2, <1>3, <2>1, AppendReplays, Zenon DEF IsUpdate
  <2> QED
    BY <1>3, <1>4, <1>5, <2>1, <2>2, Zenon DEF RecoveryInv
<1>10. CASE RunCommit(s, i)
  <2> DEFINE last == log[s][L]
  <2>1. store'[s] = store[s] /\ m.type = "commit"
    BY <1>10, Zenon DEF RunCommit, m
  <2>2. CASE step'[s] \in {"reply", "dead"} /\ UNCHANGED <<log, hist>>
    BY <1>3, <1>4, <1>5, <1>6, <2>1, <2>2, Zenon DEF RecoveryInv
  <2>3. CASE /\ log[s] # <<>> /\ IsUpdate(last)
             /\ AppendAndFlush(s, m, Perform(Durable(s), last))
             /\ exec' = [exec EXCEPT ![s] = last]
             /\ step' = [step EXCEPT ![s] = "apply"]
    <3>1. L > 0 /\ last \in Msg
      BY <2>3, LastType DEF L
    <3>2. Perform(Durable(s), last) \in [Key -> OptValue]
      BY <1>2, <3>1, Zenon DEF Perform, Msg, OptValue
    <3>3. /\ LogReplays(s)'
          /\ hist'[s][L + 1] = Durable(s)
      BY <1>2, <1>3, <2>1, <2>3, <3>1, <3>2, AppendReplays, Zenon DEF L
    <3>4. Len(log'[s]) = L + 1 /\ log'[s][L + 1] = m /\ log'[s][L] = last
      <4>1. L \in 1..L
        BY <1>2, <3>1
      <4> QED
        BY <1>2, <2>3, <3>2, <4>1, AppendFacts DEF L
    <3>5. step'[s] = "apply" /\ exec'[s] = last
      BY <2>3, Zenon DEF SlaveTypeOK
    <3>6. L + 1 > 1 /\ (L + 1) - 1 = L
      BY <1>2, <3>1
    <3>7. ApplyBehind(s)'
      BY <1>3, <2>1, <3>3, <3>4, <3>5, <3>6, Zenon DEF ApplyBehind
    <3>8. SlaveRecovers(s)'
      BY <3>3, <3>5, <3>7, Zenon DEF SlaveRecovers, StoreIsDurable, RebuildAt
    <3> QED
      BY <1>4, <3>8, Zenon DEF RecoveryInv
  <2> QED
    BY <1>10, <2>2, <2>3, Zenon DEF RunCommit, Answer, SlaveTypeOK, m, L
<1> QED
  BY <1>7, <1>8, <1>9, <1>10, Zenon

\* The commit that is carried out brings the store up to the log, and does not
\* throw.
LEMMA ApplyRecovers ==
    ASSUME SlaveTypeOK, RecoveryInv, NEW s \in Slave, Apply(s)
    PROVE  RecoveryInv' /\ ~Throws(store[s], exec[s])
<1> DEFINE L == Len(log[s])
<1>1. L \in Nat /\ Len(hist[s]) = L + 1
  BY SequenceFunction, Zenon DEF SlaveTypeOK
<1>2. /\ LogReplays(s)
      /\ L > 1 /\ log[s][L].type = "commit" /\ exec[s] = log[s][L - 1]
      /\ store[s] = hist[s][L]
  BY Zenon DEF RecoveryInv, SlaveRecovers, ApplyBehind, Apply
<1>3. L \in 1..L /\ L - 1 \in 1..L /\ (L - 1) + 1 = L
  BY <1>1, <1>2
<1> HIDE DEF L
<1>4. /\ IsUpdate(log[s][L - 1])
      /\ hist[s][L + 1] = Perform(hist[s][L], log[s][L - 1])
  BY <1>2, <1>3, Zenon DEF LogReplays, L
<1>5. ~Throws(store[s], exec[s])
  <2>1. ~Throws(hist[s][L - 1], log[s][L - 1])
    BY <1>2, <1>3, <1>4, Zenon DEF LogReplays, L
  <2>2. hist[s][L] = hist[s][L - 1]
    <3>1. log[s][L - 1].type # "commit"
      BY <1>4, Zenon DEF IsUpdate
    <3> QED
      BY <1>2, <1>3, <3>1, Zenon DEF LogReplays, L
  <2> QED
    BY <1>2, <2>1, <2>2, Zenon
<1>6. /\ store'[s] = Perform(store[s], exec[s]) /\ step'[s] = "reply"
      /\ log'[s] = log[s] /\ hist'[s] = hist[s]
  BY <1>5, Zenon DEF Apply, Answer, SlaveTypeOK
<1>7. LogReplays(s)' /\ store'[s] = Durable(s)'
  BY <1>1, <1>2, <1>4, <1>6, Zenon DEF LogReplays, Durable
<1>8. SlaveRecovers(s)'
  BY <1>6, <1>7, Zenon DEF SlaveRecovers, StoreIsDurable, ApplyBehind, RebuildAt
<1>9. ASSUME NEW t \in Slave \ {s} PROVE SlaveRecovers(t)'
  <2>1. /\ step'[t] = step[t] /\ log'[t] = log[t] /\ hist'[t] = hist[t]
        /\ store'[t] = store[t] /\ exec'[t] = exec[t] /\ pos'[t] = pos[t]
    BY Zenon DEF Apply, Answer, SlaveTypeOK
  <2> QED
    BY <2>1, RecoversFrame, Zenon DEF RecoveryInv
<1> QED
  BY <1>5, <1>8, <1>9, Zenon DEF RecoveryInv

\* A crash loses everything but the log, which still replays.
LEMMA CrashRecovers ==
    ASSUME SlaveTypeOK, RecoveryInv, NEW s \in Slave, Crash(s) \/ CrashInFlush(s)
    PROVE  RecoveryInv'
<1>1. Die(s)
  BY Zenon DEF Crash, CrashInFlush
<1>2. /\ step'[s] = "down" /\ store'[s] = EmptyStore /\ exec'[s] = None /\ pos'[s] = 0
  BY <1>1, Zenon DEF Die, SlaveTypeOK
<1>3. LogReplays(s)' /\ Len(log'[s]) \in Nat
  <2>1. CASE UNCHANGED <<log, hist>>
    <3>1. LogReplays(s) /\ Len(log[s]) \in Nat
      BY LastType, Zenon DEF RecoveryInv, SlaveRecovers
    <3> QED
      BY <2>1, <3>1, Zenon DEF LogReplays
  <2>2. CASE log'[s] = <<>> /\ hist'[s] = <<EmptyStore>>
    BY <2>2 DEF LogReplays
  <2> QED
    BY <2>1, <2>2, Zenon DEF Crash, CrashInFlush, SlaveTypeOK
<1>4. SlaveRecovers(s)'
  <2>1. StoreIsDurable(s)' /\ ApplyBehind(s)'
    BY <1>2, Zenon DEF StoreIsDurable, ApplyBehind
  <2>2. pos'[s] <= Len(log'[s]) /\ ~(pos'[s] > 0) /\ pos'[s] + 1 = 1
    BY <1>2, <1>3
  <2>3. hist'[s][1] = EmptyStore
    BY <1>3, Zenon DEF LogReplays
  <2>4. RebuildAt(s)'
    BY <1>2, <2>2, <2>3, Zenon DEF RebuildAt
  <2> QED
    BY <1>2, <1>3, <2>1, <2>4, Zenon DEF SlaveRecovers
<1>5. ASSUME NEW t \in Slave \ {s} PROVE SlaveRecovers(t)'
  <2>1. /\ step'[t] = step[t] /\ store'[t] = store[t]
        /\ exec'[t] = exec[t] /\ pos'[t] = pos[t]
    BY <1>1, Zenon DEF Die, SlaveTypeOK
  <2>2. log'[t] = log[t] /\ hist'[t] = hist[t]
    BY Zenon DEF Crash, CrashInFlush, SlaveTypeOK
  <2> QED
    BY <2>1, <2>2, RecoversFrame, Zenon DEF RecoveryInv
<1> QED
  BY <1>4, <1>5, Zenon DEF RecoveryInv

\* One iteration of rebuildServer carries out one more entry, and does not throw.
LEMMA RebuildRecovers ==
    ASSUME SlaveTypeOK, RecoveryInv, NEW s \in Slave, RebuildServer(s)
    PROVE  RecoveryInv'
<1> DEFINE n == pos[s]
           entry == log[s][n + 1]
           commits == entry.type = "commit" /\ exec[s] # None
<1>1. /\ n \in Nat /\ Len(log[s]) \in Nat /\ n < Len(log[s]) /\ n + 1 \in 1..Len(log[s])
      /\ (n > 0 => n \in 1..Len(log[s]))
  <2>1. n \in Nat /\ n < Len(log[s])
    BY Zenon DEF RebuildServer, SlaveTypeOK
  <2>2. Len(log[s]) \in Nat
    BY LastType, Zenon
  <2> HIDE DEF n
  <2> QED
    BY <2>1, <2>2
<1>2. /\ LogReplays(s) /\ store[s] = hist[s][n + 1]
      /\ exec[s] = IF n > 0 /\ IsUpdate(log[s][n]) THEN log[s][n] ELSE None
  BY Zenon DEF RecoveryInv, SlaveRecovers, RebuildAt, RebuildServer
<1>3. ASSUME n > 0 PROVE log[s][n] \in Msg /\ log[s][n] # None
  <2>1. log[s] \in Seq(Msg) /\ n \in 1..Len(log[s])
    BY <1>1, <1>3, Zenon DEF SlaveTypeOK
  <2>2. log[s][n] \in Msg
    BY <2>1, SequenceFunction, Zenon
  <2> QED
    BY <2>2, NullAssumption, Zenon
<1> HIDE DEF n
<1>4. /\ hist[s][n + 2] = IF entry.type = "commit"
                          THEN Perform(hist[s][n + 1], log[s][n]) ELSE hist[s][n + 1]
      /\ entry.type = "commit" => n > 0 /\ IsUpdate(log[s][n])
  <2>1. (n + 1) + 1 = n + 2 /\ (n + 1) - 1 = n /\ (n + 1 > 1 => n > 0)
    BY <1>1
  <2> QED
    BY <1>1, <1>2, <2>1, Zenon DEF LogReplays
<1>5. commits => exec[s] = log[s][n] /\ ~Throws(store[s], exec[s])
  <2> SUFFICES ASSUME commits PROVE exec[s] = log[s][n] /\ ~Throws(store[s], exec[s])
    BY Zenon
  <2>1. n > 0 /\ IsUpdate(log[s][n]) /\ exec[s] = log[s][n]
    BY <1>2, <1>4, Zenon
  <2>2. ~Throws(hist[s][n], log[s][n]) /\ log[s][n].type # "commit"
    BY <1>1, <1>2, <2>1, Zenon DEF LogReplays, IsUpdate
  <2>3. hist[s][n + 1] = hist[s][n]
    BY <1>1, <1>2, <2>1, <2>2, Zenon DEF LogReplays
  <2> QED
    BY <1>2, <2>1, <2>2, <2>3, Zenon
<1>6. entry.type = "commit" => commits
  BY <1>2, <1>3, <1>4, Zenon
<1> HIDE DEF entry, commits
<1>7. /\ step'[s] = "rebuild" /\ pos'[s] = n + 1
      /\ store'[s] = IF commits THEN Perform(store[s], exec[s]) ELSE store[s]
      /\ exec'[s] = IF IsUpdate(entry) THEN entry ELSE None
      /\ log'[s] = log[s] /\ hist'[s] = hist[s]
  BY <1>5, Zenon DEF RebuildServer, SlaveTypeOK, n, entry, commits
<1>8. store'[s] = hist[s][n + 2]
  BY <1>2, <1>4, <1>5, <1>6, <1>7, Zenon DEF commits
<1>9. (n + 1) + 1 = n + 2 /\ n + 1 <= Len(log[s]) /\ n + 1 > 0
  BY <1>1
<1>10. RebuildAt(s)'
  BY <1>7, <1>8, <1>9, Zenon DEF RebuildAt, entry
<1>11. SlaveRecovers(s)'
  BY <1>2, <1>7, <1>10, Zenon DEF SlaveRecovers, LogReplays, StoreIsDurable, ApplyBehind
<1>12. ASSUME NEW t \in Slave \ {s} PROVE SlaveRecovers(t)'
  <2>1. /\ step'[t] = step[t] /\ log'[t] = log[t] /\ hist'[t] = hist[t]
        /\ store'[t] = store[t] /\ exec'[t] = exec[t] /\ pos'[t] = pos[t]
    BY Zenon DEF RebuildServer, SlaveTypeOK
  <2> QED
    BY <2>1, RecoversFrame, Zenon DEF RecoveryInv
<1> QED
  BY <1>11, <1>12, Zenon DEF RecoveryInv

\* Answering, starting again and registering change where the slave is, not what
\* it holds.
LEMMA MoveRecovers ==
    ASSUME SlaveTypeOK, RecoveryInv, NEW s \in Slave,
           Reply(s) \/ Restart(s) \/ Register(s)
    PROVE  RecoveryInv'
<1>1. Len(log[s]) \in Nat /\ Len(hist[s]) = Len(log[s]) + 1
  BY SequenceFunction, Zenon DEF SlaveTypeOK
<1>2. /\ log'[s] = log[s] /\ hist'[s] = hist[s] /\ store'[s] = store[s]
      /\ SlaveRecovers(s)
  BY Zenon DEF Reply, Restart, Register, RecoveryInv
<1>3. LogReplays(s)' /\ Durable(s)' = Durable(s)
  BY <1>2, Zenon DEF SlaveRecovers, LogReplays, Durable
<1>4. SlaveRecovers(s)'
  <2>1. CASE Reply(s)
    BY <1>2, <1>3, <2>1, Zenon DEF Reply, SlaveTypeOK, SlaveRecovers, StoreIsDurable,
       ApplyBehind, RebuildAt
  <2>2. CASE Restart(s)
    BY <1>2, <1>3, <2>2, Zenon DEF Restart, SlaveTypeOK, SlaveRecovers, StoreIsDurable,
       ApplyBehind, RebuildAt
  <2>3. CASE Register(s)
    <3>1. store[s] = Durable(s) /\ step'[s] = "idle"
      BY <1>1, <1>2, <2>3, Zenon DEF Register, SlaveRecovers, RebuildAt, Durable, SlaveTypeOK
    <3> QED
      BY <1>2, <1>3, <3>1, Zenon DEF SlaveRecovers, StoreIsDurable, ApplyBehind, RebuildAt
  <2> QED
    BY <2>1, <2>2, <2>3, Zenon
<1>5. ASSUME NEW t \in Slave \ {s} PROVE SlaveRecovers(t)'
  <2>1. /\ step'[t] = step[t] /\ log'[t] = log[t] /\ hist'[t] = hist[t]
        /\ store'[t] = store[t] /\ exec'[t] = exec[t] /\ pos'[t] = pos[t]
    BY Zenon DEF Reply, Restart, Register, SlaveTypeOK
  <2> QED
    BY <2>1, RecoversFrame, Zenon DEF RecoveryInv
<1> QED
  BY <1>4, <1>5, Zenon DEF RecoveryInv

\* Initially every log is empty.
LEMMA RecoveryInit == Init => RecoveryInv
<1> SUFFICES ASSUME Init, NEW s \in Slave PROVE SlaveRecovers(s)
  BY Zenon DEF RecoveryInv
<1>1. step[s] = "idle" /\ log[s] = <<>> /\ store[s] = EmptyStore /\ hist[s] = <<EmptyStore>>
  BY Zenon DEF Init, SlaveInit
<1>2. Len(log[s]) = 0 /\ Len(hist[s]) = 1 /\ hist[s][1] = EmptyStore
  BY <1>1
<1>3. LogReplays(s)
  BY <1>1, <1>2 DEF LogReplays
<1>4. Durable(s) = store[s]
  BY <1>1, <1>2, Zenon DEF Durable
<1> QED
  BY <1>1, <1>3, <1>4, Zenon DEF SlaveRecovers, StoreIsDurable, ApplyBehind, RebuildAt

\* The master and the readers do not touch what a slave recovers from.
LEMMA RecoveryNext == TypeOK /\ RecoveryInv /\ [Next]_vars => RecoveryInv'
<1> SUFFICES ASSUME TypeOK, RecoveryInv, [Next]_vars PROVE RecoveryInv'
  BY Zenon
<1>1. SlaveTypeOK
  BY TypeParts, Zenon
<1>2. CASE UNCHANGED <<step, log, store, exec, pos, hist>>
  BY <1>2, RecoversFrame, Zenon DEF RecoveryInv
<1>3. CASE \E s \in Slave : SlaveStep(s) \/ SlaveFault(s)
  BY <1>1, <1>3, RunRecovers, ApplyRecovers, CrashRecovers, RebuildRecovers, MoveRecovers, Zenon
     DEF SlaveStep, SlaveFault
<1>4. CASE \/ \E m \in TPCRequest : Request(m)
           \/ TPCStep
           \/ \E r \in Reader : GetStep(r) \/ \E k \in Key : GetStart(r, k)
  <2>1. UNCHANGED <<step, log, store, exec, pos, hist>>
    BY <1>4, Zenon DEF Request, TPCStep, Phase1Send, Phase1Connect, Phase1Timeout,
       Phase1Receive, Phase2Send, Phase2Timeout, Phase2Receive, Flush, GetStep,
       GetSend, GetConnect, GetTimeout, GetReceive, GetStart, slaveVars
  <2> QED
    BY <1>2, <2>1, Zenon
<1>5. CASE UNCHANGED vars
  BY <1>2, <1>5, Zenon DEF vars, slaveVars
<1> QED
  BY <1>3, <1>4, <1>5, Zenon DEF Next

\* The invariant the recovery rests on: what a slave has flushed to its log
\* determines, at every stage of handling or replaying a request, the store it
\* will hold once it has caught up.
THEOREM RecoveryInvariant == Spec => []RecoveryInv
<1>1. Init => TypeOK /\ RecoveryInv
  BY TypeInit, RecoveryInit, Zenon
<1>2. TypeOK /\ RecoveryInv /\ [Next]_vars => TypeOK' /\ RecoveryInv'
  BY TypeNext, RecoveryNext, Zenon
<1> QED
  BY <1>1, <1>2, PTL DEF Spec

\* Whatever a slave was doing when it crashed, and however often it crashes while
\* it recovers, rebuildServer does not throw and gives it the store it would have
\* had without the crash.
THEOREM RecoveryIsExact == Spec => []RecoveryExact
<1>1. RecoveryInv => RecoveryExact
  BY RecoveryInvImplies, Zenon
<1> QED
  BY <1>1, RecoveryInvariant, PTL
=============================================================================
