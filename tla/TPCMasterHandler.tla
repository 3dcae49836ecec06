-------------------------- MODULE TPCMasterHandler --------------------------
(***************************************************************************)
(* A slave server: the job queue of TPCMasterHandler, the persistent       *)
(* TPCLog, the store behind KVServer, and the sockets through which        *)
(* callers (threads of the master) reach the slave.                        *)
(*                                                                         *)
(* A caller has at most one open socket.  A job carries the caller that    *)
(* still waits on its socket, or None once the caller has closed it: the   *)
(* slave still runs such a job, and its response goes nowhere.             *)
(*                                                                         *)
(* A null key or value is None.  The request "delreq" has a null value, so *)
(* carrying out "putreq" or "delreq" assigns the request's value.          *)
(***************************************************************************)
EXTENDS Naturals, Sequences, Removal

CONSTANTS
    Slave,          \* the slave servers
    Key, Value,     \* keys and non-null values
    Oversized,      \* keys and values that KVServer.validateKeyValue rejects
    Caller,         \* threads of the master that open sockets to slaves
    None,           \* null
    Connections,    \* size of the slave's ThreadPool
    SlowNetwork,    \* can a request reach the slave after its read timed out?
    TornFlush,      \* can a slave crash while it rewrites its log file?
    MaxFaults       \* bound on crashes and spurious timeouts

ASSUME SlaveAssumption ==
    /\ None \notin Slave \cup Key \cup Value \cup Caller
    /\ Oversized \subseteq Key \cup Value
    /\ Connections \in Nat \ {0}
    /\ SlowNetwork \in BOOLEAN
    /\ TornFlush \in BOOLEAN
    /\ MaxFaults \in Nat

VARIABLES
    step,    \* where the slave is: process down, rebuilding, worker idle, ...
    log,     \* TPCLog.entries, which every append also writes to disk
    store,   \* contents of the KVServer (lost in a crash)
    queue,   \* ThreadPool.tasks: jobs not yet taken by the worker
    client,  \* caller whose job the worker runs, None if it hung up
    exec,    \* entry being carried out (exec), or lastAction while rebuilding
    resp,    \* response the worker is about to send
    pos,     \* entries of the log that rebuildServer has gone through
    conn,    \* each caller's socket: closed, open, or holding a response
    faults,  \* crashes and spurious timeouts so far
    hist     \* history: hist[s][n + 1] is the effect of the first n log entries

slaveVars == <<step, log, store, queue, client, exec, resp, pos, conn, faults, hist>>

-----------------------------------------------------------------------------

OptValue == Value \cup {None}

Msg ==
    [type : {"getreq", "putreq", "delreq"}, key : Key, val : OptValue]
        \cup [type : {"commit", "abort"}, key : {None}, val : {None}]

ASSUME NullAssumption == None \notin Msg

Job == [msg : Msg, from : Caller \cup {None}]

Resp == [type : {"resp", "ready", "abort", "ack"}, val : OptValue]

Socket == [type : {"closed", "open", "resp", "ready", "abort", "ack"}, val : OptValue]

Steps == {"down", "rebuild", "failed", "idle", "apply", "reply", "dead"}

EmptyStore == [k \in Key |-> None]

Closed == [type |-> "closed", val |-> None]

Open == [type |-> "open", val |-> None]

Respond(type) == [type |-> type, val |-> None]

IsUpdate(m) == m.type \in {"putreq", "delreq"}

\* What KVServer.put or KVServer.del makes of the store.
Perform(st, m) == [st EXCEPT ![m.key] = m.val]

\* KVServer.del (through KVStore.del) throws for a missing key.
Throws(st, m) == m.type = "delreq" /\ st[m.key] = None

\* The slave accepts connections: its server socket is bound and registered.
Listening(s) == step[s] \in {"idle", "apply", "reply", "dead"}

\* The store that replaying the whole log gives.
Durable(s) == hist[s][Len(hist[s])]

SlaveInit ==
    /\ step = [s \in Slave |-> "idle"]
    /\ log = [s \in Slave |-> <<>>]
    /\ store = [s \in Slave |-> EmptyStore]
    /\ queue = [s \in Slave |-> <<>>]
    /\ client = [s \in Slave |-> None]
    /\ exec = [s \in Slave |-> None]
    /\ resp = [s \in Slave |-> Closed]
    /\ pos = [s \in Slave |-> 0]
    /\ conn = [c \in Caller |-> Closed]
    /\ faults = 0
    /\ hist = [s \in Slave |-> <<EmptyStore>>]

-----------------------------------------------------------------------------
(* The callers' side of a socket.                                          *)

\* connectHost and sendMessage succeed; the slave's SocketServer accepts the
\* connection and handle() queues a job for it.  (A job queued behind a worker
\* that died never runs, and is not kept.)
Send(c, s, m) ==
    /\ Listening(s)
    /\ conn[c] = Closed
    /\ conn' = [conn EXCEPT ![c] = Open]
    /\ queue' = [queue EXCEPT ![s] =
                    IF step[s] = "dead" THEN @ ELSE Append(@, [msg |-> m, from |-> c])]

\* A failure while everything works: a connection or an answer that is too slow.
Fault ==
    /\ faults < MaxFaults
    /\ faults' = faults + 1

\* connectHost throws: nobody listens, or the connection timed out.
CannotConnect(c, s) ==
    /\ conn[c] = Closed
    /\ IF Listening(s) THEN Fault ELSE UNCHANGED faults

\* Some slave still has the job of caller c, and so may still answer it.
Served(c) ==
    \E s \in Slave :
        /\ step[s] # "dead"
        /\ client[s] = c \/ \E i \in 1..Len(queue[s]) : queue[s][i].from = c

HangUp(c, job) == IF job.from = c THEN [job EXCEPT !.from = None] ELSE job

\* No response within TIMEOUT, or a reset connection: the caller closes the socket.
Timeout(c) ==
    /\ conn[c] = Open
    /\ IF Served(c) THEN Fault ELSE UNCHANGED faults
    /\ conn' = [conn EXCEPT ![c] = Closed]
    /\ queue' = [s \in Slave |->
                    [i \in 1..Len(queue[s]) |-> HangUp(c, queue[s][i])]]
    /\ client' = [s \in Slave |-> IF client[s] = c THEN None ELSE client[s]]

\* The caller reads the response and closes the socket.
Receive(c) ==
    /\ conn[c].type \in {"resp", "ready", "abort", "ack"}
    /\ conn' = [conn EXCEPT ![c] = Closed]

-----------------------------------------------------------------------------
(* The slave's worker.                                                     *)

\* The worker takes job i from the queue.  With several workers a job that is
\* not the first may be run while the workers that took the ones before it
\* have not started on them.
Take(s, i) ==
    /\ step[s] = "idle"
    /\ i \in 1..Len(queue[s])
    /\ i <= Connections
    /\ queue' = [queue EXCEPT ![s] = Without(@, i)]
    /\ client' = [client EXCEPT ![s] = queue[s][i].from]

Answer(s, r) ==
    /\ step' = [step EXCEPT ![s] = "reply"]
    /\ resp' = [resp EXCEPT ![s] = r]

\* TPCLog.appendAndFlush; st is what replaying the longer log will give.
AppendAndFlush(s, m, st) ==
    /\ log' = [log EXCEPT ![s] = Append(@, m)]
    /\ hist' = [hist EXCEPT ![s] = Append(@, st)]

\* "getreq": the value, or a response without one when the key is missing.
RunGet(s, i) ==
    /\ Take(s, i)
    /\ queue[s][i].msg.type = "getreq"
    /\ Answer(s, [type |-> "resp", val |-> store[s][queue[s][i].msg.key]])
    /\ UNCHANGED <<log, store, exec, pos, conn, faults, hist>>

\* Would the slave vote to commit request m?
Votes(s, m) ==
    IF m.type = "putreq" THEN {m.key, m.val} \cap Oversized = {}
                         ELSE store[s][m.key] # None

\* "putreq" and "delreq": log the request and vote.
RunVote(s, i) ==
    LET m == queue[s][i].msg IN
    /\ Take(s, i)
    /\ IsUpdate(m)
    /\ IF Votes(s, m)
       THEN AppendAndFlush(s, m, Durable(s)) /\ Answer(s, Respond("ready"))
       ELSE UNCHANGED <<log, hist>> /\ Answer(s, Respond("abort"))
    /\ UNCHANGED <<store, exec, pos, conn, faults>>

\* Mutant of RunCommit: a repeated "commit" is not acknowledged.
RunCommitOnce(s, i) ==
    LET last == log[s][Len(log[s])] IN
    /\ Take(s, i)
    /\ queue[s][i].msg.type = "commit"
    /\ log[s] # <<>>
    /\ IsUpdate(last)
    /\ AppendAndFlush(s, queue[s][i].msg, Perform(Durable(s), last))
    /\ exec' = [exec EXCEPT ![s] = last]
    /\ step' = [step EXCEPT ![s] = "apply"]
    /\ UNCHANGED <<resp, store, pos, conn, faults>>

\* "commit": if the last entry is an update, log the commit before carrying it
\* out; a repeated "commit" finds its own entry and is only acknowledged.  With
\* an empty log exec is null and the exception ends the worker thread.
RunCommit(s, i) ==
    LET last == log[s][Len(log[s])] IN
    /\ Take(s, i)
    /\ queue[s][i].msg.type = "commit"
    /\ \/ /\ log[s] = <<>>
          /\ step' = [step EXCEPT ![s] = "dead"]
          /\ UNCHANGED <<log, exec, resp, hist>>
       \/ /\ log[s] # <<>>
          /\ IsUpdate(last)
          /\ AppendAndFlush(s, queue[s][i].msg, Perform(Durable(s), last))
          /\ exec' = [exec EXCEPT ![s] = last]
          /\ step' = [step EXCEPT ![s] = "apply"]
          /\ UNCHANGED resp
       \/ /\ log[s] # <<>>
          /\ ~IsUpdate(last)
          /\ Answer(s, Respond("ack"))
          /\ UNCHANGED <<log, exec, hist>>
    /\ UNCHANGED <<store, pos, conn, faults>>

\* kvServer.put or kvServer.del of the committed entry.
Apply(s) ==
    /\ step[s] = "apply"
    /\ IF Throws(store[s], exec[s])
       THEN UNCHANGED store /\ Answer(s, Respond("resp"))
       ELSE /\ store' = [store EXCEPT ![s] = Perform(@, exec[s])]
            /\ Answer(s, Respond("ack"))
    /\ exec' = [exec EXCEPT ![s] = None]
    /\ UNCHANGED <<log, queue, client, pos, conn, faults, hist>>

\* "abort": logged and acknowledged whatever the log holds.
RunAbort(s, i) ==
    /\ Take(s, i)
    /\ queue[s][i].msg.type = "abort"
    /\ AppendAndFlush(s, queue[s][i].msg, Durable(s))
    /\ Answer(s, Respond("ack"))
    /\ UNCHANGED <<store, exec, pos, conn, faults>>

\* The request does not arrive within the slave's own TIMEOUT (or cannot be
\* parsed): the job answers with the error and does nothing else.
ReadFails(s, i) ==
    /\ SlowNetwork
    /\ Fault
    /\ Take(s, i)
    /\ Answer(s, Respond("resp"))
    /\ UNCHANGED <<log, store, exec, pos, conn, hist>>

\* resp.sendMessage: reaches the caller if it has not hung up.
Reply(s) ==
    /\ step[s] = "reply"
    /\ step' = [step EXCEPT ![s] = "idle"]
    /\ conn' = [c \in Caller |-> IF client[s] = c THEN resp[s] ELSE conn[c]]
    /\ client' = [client EXCEPT ![s] = None]
    /\ resp' = [resp EXCEPT ![s] = Closed]
    /\ UNCHANGED <<log, store, queue, exec, pos, faults, hist>>

-----------------------------------------------------------------------------
(* Crash and recovery.                                                     *)

\* The process dies: everything but the log file is lost.
Die(s) ==
    /\ Fault
    /\ step' = [step EXCEPT ![s] = "down"]
    /\ store' = [store EXCEPT ![s] = EmptyStore]
    /\ queue' = [queue EXCEPT ![s] = <<>>]
    /\ client' = [client EXCEPT ![s] = None]
    /\ exec' = [exec EXCEPT ![s] = None]
    /\ resp' = [resp EXCEPT ![s] = Closed]
    /\ pos' = [pos EXCEPT ![s] = 0]
    /\ UNCHANGED conn

Crash(s) ==
    /\ step[s] \notin {"down", "failed"}
    /\ Die(s)
    /\ UNCHANGED <<log, hist>>

\* flushToDisk truncates the file before it writes it: a crash in between
\* leaves a file that loadFromDisk cannot read, and so an empty log.
CrashInFlush(s) ==
    /\ TornFlush
    /\ step[s] = "idle"
    /\ queue[s] # <<>>
    /\ LET m == Head(queue[s]).msg IN
           \/ IsUpdate(m) /\ Votes(s, m)
           \/ m.type = "commit" /\ log[s] # <<>> /\ IsUpdate(log[s][Len(log[s])])
           \/ m.type = "abort"
    /\ Die(s)
    /\ log' = [log EXCEPT ![s] = <<>>]
    /\ hist' = [hist EXCEPT ![s] = <<EmptyStore>>]

\* The slave is started again: loadFromDisk.
Restart(s) ==
    /\ step[s] = "down"
    /\ step' = [step EXCEPT ![s] = "rebuild"]
    /\ UNCHANGED <<log, store, queue, client, exec, resp, pos, conn, faults, hist>>

\* Mutant of RebuildServer: updates are replayed whether or not they committed.
RebuildServerEager(s) ==
    LET entry == log[s][pos[s] + 1] IN
    /\ step[s] = "rebuild"
    /\ pos[s] < Len(log[s])
    /\ pos' = [pos EXCEPT ![s] = @ + 1]
    /\ store' = [store EXCEPT ![s] = IF IsUpdate(entry) THEN Perform(@, entry) ELSE @]
    /\ UNCHANGED <<step, exec, log, queue, client, resp, conn, faults, hist>>

\* One iteration of the loop of rebuildServer.
RebuildServer(s) ==
    LET entry == log[s][pos[s] + 1]
        commits == entry.type = "commit" /\ exec[s] # None
    IN
    /\ step[s] = "rebuild"
    /\ pos[s] < Len(log[s])
    /\ pos' = [pos EXCEPT ![s] = @ + 1]
    /\ exec' = [exec EXCEPT ![s] = IF IsUpdate(entry) THEN entry ELSE None]
    /\ IF commits /\ Throws(store[s], exec[s])
       THEN step' = [step EXCEPT ![s] = "failed"] /\ UNCHANGED store
       ELSE /\ store' = [store EXCEPT ![s] = IF commits THEN Perform(@, exec[s]) ELSE @]
            /\ UNCHANGED step
    /\ UNCHANGED <<log, queue, client, resp, conn, faults, hist>>

\* The log is replayed; the slave listens and registers with the master.
Register(s) ==
    /\ step[s] = "rebuild"
    /\ pos[s] = Len(log[s])
    /\ step' = [step EXCEPT ![s] = "idle"]
    /\ pos' = [pos EXCEPT ![s] = 0]
    /\ exec' = [exec EXCEPT ![s] = None]
    /\ UNCHANGED <<log, store, queue, client, resp, conn, faults, hist>>

\* Steps of the slave's own threads.
SlaveStep(s) ==
    \/ \E i \in 1..Len(queue[s]) :
          RunGet(s, i) \/ RunVote(s, i) \/ RunCommit(s, i) \/ RunAbort(s, i)
    \/ Apply(s)
    \/ Reply(s)
    \/ Restart(s)
    \/ RebuildServer(s)
    \/ Register(s)

SlaveFault(s) ==
    \/ \E i \in 1..Len(queue[s]) : ReadFails(s, i)
    \/ Crash(s)
    \/ CrashInFlush(s)

SlaveTypeOK ==
    /\ step \in [Slave -> Steps]
    /\ log \in [Slave -> Seq(Msg)]
    /\ store \in [Slave -> [Key -> OptValue]]
    /\ queue \in [Slave -> Seq(Job)]
    /\ client \in [Slave -> Caller \cup {None}]
    /\ exec \in [Slave -> Msg \cup {None}]
    /\ resp \in [Slave -> Resp \cup {Closed}]
    /\ pos \in [Slave -> Nat]
    /\ conn \in [Caller -> Socket]
    /\ faults \in 0..MaxFaults
    /\ hist \in [Slave -> Seq([Key -> OptValue])]
    /\ \A s \in Slave : Len(hist[s]) = Len(log[s]) + 1
    /\ \A s \in Slave : step[s] = "apply" => exec[s] # None

-----------------------------------------------------------------------------
(* Recovery.                                                               *)

\* hist[s] replays log[s]: a commit carries out the entry right before it, an
\* update, and a delete is only logged for a key that is there.
LogReplays(s) ==
    /\ hist[s][1] = EmptyStore
    /\ \A n \in 1..Len(log[s]) :
          /\ hist[s][n + 1] = IF log[s][n].type = "commit"
                              THEN Perform(hist[s][n], log[s][n - 1]) ELSE hist[s][n]
          /\ log[s][n].type = "commit" => n > 1 /\ IsUpdate(log[s][n - 1])
          /\ IsUpdate(log[s][n]) => ~Throws(hist[s][n], log[s][n])

\* While the worker waits or answers, the store is what the whole log gives.
StoreIsDurable(s) ==
    step[s] \in {"idle", "reply", "dead"} => store[s] = Durable(s)

\* Between logging a commit and carrying it out the store is one entry behind.
ApplyBehind(s) ==
    step[s] = "apply" =>
        /\ Len(log[s]) > 1
        /\ log[s][Len(log[s])].type = "commit"
        /\ exec[s] = log[s][Len(log[s]) - 1]
        /\ store[s] = hist[s][Len(log[s])]

\* rebuildServer has carried out exactly the first pos entries.
RebuildAt(s) ==
    step[s] \in {"down", "rebuild"} =>
        /\ pos[s] <= Len(log[s])
        /\ step[s] = "down" => pos[s] = 0
        /\ store[s] = hist[s][pos[s] + 1]
        /\ exec[s] = IF pos[s] > 0 /\ IsUpdate(log[s][pos[s]])
                     THEN log[s][pos[s]] ELSE None

SlaveRecovers(s) ==
    /\ step[s] # "failed"
    /\ LogReplays(s)
    /\ StoreIsDurable(s)
    /\ ApplyBehind(s)
    /\ RebuildAt(s)

\* Whatever a slave is doing, and in particular at every point where it may crash
\* or be rebuilding, its store is the effect of a known part of its log: all of
\* it, all but a commit just logged, or the prefix rebuildServer has gone through.
\* (The inductive invariant behind RecoveryExact.)
RecoveryInv == \A s \in Slave : SlaveRecovers(s)
=============================================================================
