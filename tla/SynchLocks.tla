----------------------------- MODULE SynchLocks -----------------------------
(***************************************************************************)
(* The inductive invariant of Synch, and what every step does to the       *)
(* types, to the place of each thread in its code, to locks, thread        *)
(* identifiers and condition variables.                                    *)
(***************************************************************************)
EXTENDS Synch, SequenceLemmas, TLAPS

\* The lock that the current call of t acquires or releases, or None.
LockOf(t) == IF obj[t] \in Cond THEN CondLock[obj[t]]
             ELSE IF obj[t] \in Lock THEN obj[t] ELSE None

\* The running thread, and the ready list.
Ready ==
    /\ \A t \in Thread : status[t] = "running" <=> t = cur
    /\ IsInjective(ready_list)
    /\ Idle \notin Range(ready_list)
    /\ \A t \in Thread \ {Idle} : status[t] = "ready" <=> t \in Range(ready_list)

\* The threads that sleep: on one semaphore each, or before they first run.
Sleep ==
    /\ \A s \in Semaphore :
          /\ IsInjective(waiters[s])
          /\ \A t \in Range(waiters[s]) : status[t] = "blocked" /\ pc[t] = "down" /\ s = SemaOf(t)
    /\ \A t \in Thread \ {Idle} : status[t] = "blocked" =>
          (\E u \in Thread : child[u] = t) \/ (\E s \in Semaphore : t \in Range(waiters[s]))

\* What a thread works on, and what it holds, at each point of its code.
Shape(t) ==
    /\ pc[t] \in {"run", "woken", "tid"} => obj[t] = None
    /\ pc[t] \in {"acquire", "down"} => obj[t] # None
    /\ pc[t] \in {"own", "up"} => LockOf(t) \in Lock
    /\ pc[t] = "own" => obj[t] \in Lock
    /\ pc[t] \in {"acquire", "down", "own", "up"} => LockOf(t) \notin held[t]
    /\ pc[t] \in {"acquire", "down", "own"} /\ obj[t] = TidLock => child[t] # None
    /\ pc[t] = "tid" => child[t] # None /\ TidLock \in held[t]
    /\ pc[t] = "broadcast" =>
          obj[t] \in Cond /\ CondLock[obj[t]] \in held[t] /\ cond_waiters[obj[t]] # <<>>
    /\ TidLock \in held[t] => child[t] # None
    /\ pc[t] = "woken" => t = Idle
    /\ t = Idle => pc[t] \in {"run", "woken"} /\ status[t] \notin {"free", "dying"}
    /\ t = Idle \/ status[t] = "free" => held[t] = {} /\ child[t] = None
    /\ status[t] = "free" => pc[t] = "run" /\ tid[t] = 0

\* A thread that is being created sleeps, has done nothing, and has one creator.
Creation ==
    /\ \A u \in Thread : child[u] # None =>
          LET t == child[u] IN
          /\ t # Idle
          /\ status[t] = "blocked"
          /\ pc[t] = "run"
          /\ child[t] = None
          /\ held[t] = {}
    /\ \A u, v \in Thread : child[u] = child[v] /\ child[u] # None => u = v

\* The semaphore of a lock is up, or one thread has taken it.
Locks ==
    \A l \in Lock :
        /\ \/ value[l] = 1 /\ Inside(l) = {}
           \/ value[l] = 0 /\ \E t \in Thread : Inside(l) = {t}
        /\ \A t \in Thread : l \in held[t] <=> holder[l] = t

\* The identifiers in use are below next_tid, but for the one being assigned.
Tids ==
    /\ next_tid >= 1
    /\ \A t \in Thread :
          \/ tid[t] < next_tid
          \/ tid[t] = next_tid /\ \E u \in Thread : child[u] = t /\ pc[u] = "tid"
    /\ \A u \in Thread : pc[u] = "tid" => tid[child[u]] = next_tid
    /\ \A t, u \in Thread : tid[t] = tid[u] /\ tid[t] # 0 => t = u

Conds ==
    /\ \A c \in Cond : IsInjective(cond_waiters[c])
    /\ SignalDelivered

IInv ==
    /\ TypeOK
    /\ Ready
    /\ Sleep
    /\ \A t \in Thread : Shape(t)
    /\ Creation
    /\ Locks
    /\ Tids
    /\ Conds
    /\ NoLostWakeup

-----------------------------------------------------------------------------
(* What a step leaves alone, and the types of its parts.                   *)

\* Every step moves one thread, the running one: the others keep their place.
OthersKept ==
    \A t \in Thread \ {cur} :
        pc'[t] = pc[t] /\ obj'[t] = obj[t] /\ held'[t] = held[t] /\ child'[t] = child[t]

\* What a step may do to a status: only thread_exit ends a thread, and a thread
\* that is being created wakes only when its creator unblocks it.
StatusKept ==
    \A t \in Thread :
        /\ status'[t] \in {"free", "dying"} => status'[t] = status[t] \/ (t = cur /\ ThreadExit)
        /\ t # Idle /\ status[t] = "blocked" /\ pc[t] # "down" /\ ~ (UnblockChild /\ t = child[cur])
              => status'[t] = "blocked"

\* The few actions that change each of these variables.
Frame ==
    /\ child' = child \/ UnblockChild \/ \E n \in Thread : ThreadCreate(n)
    /\ cond_waiters' = cond_waiters \/ Broadcast \/ \E c \in Cond : CondWait(c) \/ CondSignal(c)
    /\ tid' = tid \/ LoadTid \/ ThreadExit
    /\ next_tid' = next_tid \/ StoreTid
    /\ \/ holder' = holder /\ held' = held
       \/ SetHolder \/ StoreTid
       \/ \E l \in Lock : LockRelease(l)
       \/ \E c \in Cond : CondWait(c)

\* What the running thread becomes in schedule: thread_schedule_tail frees the
\* page of one that was dying.
After(st) == IF st = "dying" /\ cur # Main THEN "free" ELSE st

SchedOK ==
    /\ status \in [Thread -> {"free", "blocked", "ready", "running", "dying"}]
    /\ cur \in Thread
    /\ ready_list \in Seq(Thread)
    /\ thread_ticks \in 0..(TimeSlice - 1)

SemaOK ==
    /\ value \in [Semaphore -> Nat]
    /\ waiters \in [Semaphore -> Seq(Thread)]

PlaceOK ==
    /\ pc \in [Thread -> PC]
    /\ obj \in [Thread -> Sema \cup Lock \cup Cond \cup {None}]

LockOK ==
    /\ holder \in [Lock -> Thread \cup {None}]
    /\ held \in [Thread -> SUBSET Lock]

TidOK ==
    /\ child \in [Thread -> Thread \cup {None}]
    /\ tid \in [Thread -> Nat]
    /\ next_tid \in Nat

CondOK == cond_waiters \in [Cond -> Seq(Thread)]

\* The disjuncts of Next, for proofs by cases.
LEMMA NextCases ==
    ASSUME Next
    PROVE  \/ SemaDown
           \/ SetHolder
           \/ ReleaseUp
           \/ Broadcast
           \/ LoadTid
           \/ StoreTid
           \/ UnblockChild
           \/ IdleBlock
           \/ \E o \in Sema \cup (Lock \ {TidLock}) : CallDown(o)
           \/ \E o \in Sema \cup (Lock \ {TidLock}) : TryDown(o)
           \/ \E s \in Sema : CallUp(s)
           \/ \E l \in Lock \ {TidLock} : LockRelease(l)
           \/ \E c \in Cond : CondWait(c)
           \/ \E c \in Cond : CondSignal(c)
           \/ \E c \in Cond : CondBroadcast(c)
           \/ \E t \in Thread : ThreadCreate(t)
           \/ ThreadExit
           \/ Yield
           \/ TimerInterrupt
           \/ \E s \in DeviceSema : DeviceInterrupt(s)
  BY Zenon DEF Next, Continue, Call

\* The running thread's semaphore, lock and condition are what its place says.
LEMMA PlaceFacts ==
    ASSUME TypeOK, NEW t \in Thread, Shape(t)
    PROVE  /\ pc[t] \in {"acquire", "down"} => SemaOf(t) \in Semaphore
           /\ pc[t] = "own" => obj[t] \in Lock
           /\ pc[t] = "up" => (IF obj[t] \in Cond THEN CondLock[obj[t]] ELSE obj[t]) = LockOf(t) /\ LockOf(t) \in Lock
           /\ pc[t] = "broadcast" =>
                 /\ obj[t] \in Cond
                 /\ cond_waiters[obj[t]] # <<>>
                 /\ Head(cond_waiters[obj[t]]) \in Thread
           /\ pc[t] = "tid" => child[t] \in Thread
<1>1. /\ obj[t] \in Sema \cup Lock \cup Cond \cup {None}
      /\ child[t] \in Thread \cup {None}
      /\ cond_waiters \in [Cond -> Seq(Thread)]
  BY Zenon DEF TypeOK
<1>2. pc[t] \in {"acquire", "down"} => SemaOf(t) \in Semaphore
  BY <1>1, Zenon DEF Shape, SemaOf, Semaphore
<1>3. pc[t] = "own" => obj[t] \in Lock
  BY <1>1, Zenon DEF Shape
<1>4. pc[t] = "up" => (IF obj[t] \in Cond THEN CondLock[obj[t]] ELSE obj[t]) = LockOf(t) /\ LockOf(t) \in Lock
  <2> SUFFICES ASSUME pc[t] = "up" PROVE (IF obj[t] \in Cond THEN CondLock[obj[t]] ELSE obj[t]) = LockOf(t) /\ LockOf(t) \in Lock
    BY Zenon
  <2>1. LockOf(t) \in Lock
    BY Zenon DEF Shape
  <2> QED
    BY <2>1, ObjectAssumption, Zenon DEF LockOf
<1>5. pc[t] = "broadcast" => obj[t] \in Cond /\ cond_waiters[obj[t]] # <<>>
  BY Zenon DEF Shape
<1>6. obj[t] \in Cond /\ cond_waiters[obj[t]] # <<>> => Head(cond_waiters[obj[t]]) \in Thread
  BY <1>1, HeadTail, Zenon
<1>7. pc[t] = "tid" => child[t] \in Thread
  BY <1>1, Zenon DEF Shape
<1> QED
  BY <1>2, <1>3, <1>4, <1>5, <1>6, <1>7, Zenon

-----------------------------------------------------------------------------
(* The place of the running thread.                                        *)

\* The running thread's place after each action.
LEMMA RunnerShape ==
    ASSUME TypeOK, TypeOK', OthersKept, StatusKept, Frame, Ready, \A t \in Thread : Shape(t),
           Locks, Next, NEW me \in Thread, me = cur
    PROVE  Shape(me)'
<1>0. /\ Shape(me) /\ status[me] = "running"
      /\ pc \in [Thread -> PC]
      /\ obj \in [Thread -> Sema \cup Lock \cup Cond \cup {None}]
      /\ held \in [Thread -> SUBSET Lock] /\ holder \in [Lock -> Thread \cup {None}]
      /\ child \in [Thread -> Thread \cup {None}] /\ tid \in [Thread -> Nat]
      /\ cond_waiters \in [Cond -> Seq(Thread)]
      /\ Idle \in Thread /\ TidLock \in Lock
      /\ CondLock \in [Cond -> Lock \ {TidLock}]
      /\ pc[me] = "woken" => me = Idle
      /\ me = Idle => pc[me] \in {"run", "woken"}
      /\ TidLock \in held[me] => child[me] # None
      /\ me = Idle => held[me] = {} /\ child[me] = None
  BY SynchAssumption, Zenon DEF TypeOK, Ready, Shape
<1>s. ~ ThreadExit => status'[me] \notin {"free", "dying"}
  BY <1>0, Zenon DEF StatusKept
<1>o. /\ Thread \cap (Lock \cup Sema \cup Cond) = {}
      /\ Lock \cap (Sema \cup Cond) = {}
      /\ Sema \cap Cond = {}
      /\ None \notin Lock \cup Sema \cup Cond
  BY ObjectAssumption, Zenon
<1>e. ThreadExit => pc[cur] = "run" /\ child[cur] = None /\ pc' = pc /\ held' = held /\ child' = child
  BY Zenon DEF ThreadExit, Running
<1>1. CASE SemaDown
  <2>1. /\ pc[me] \in {"acquire", "down"} /\ obj[me] # None /\ LockOf(me) \notin held[me]
        /\ me # Idle
        /\ held' = held /\ child' = child
    BY <1>0, <1>1, Zenon DEF SemaDown, Shape
  <2>2. status'[me] \notin {"free", "dying"}
    BY <2>1, <1>e, <1>s, Zenon
  <2>3. CASE value[SemaOf(me)] = 0
    <3>1. pc'[me] = "down" /\ obj' = obj
      BY <1>0, <1>1, <2>3, Zenon DEF SemaDown
    <3>2. LockOf(me)' = LockOf(me)
      BY <3>1, Zenon DEF LockOf
    <3> QED
      BY <2>1, <2>2, <3>1, <3>2, <1>0, Zenon DEF Shape
  <2>4. CASE value[SemaOf(me)] # 0
    <3>1. PICK s \in Semaphore : s = SemaOf(me)
      BY <2>1, <1>0, PlaceFacts, Zenon
    <3>2. /\ pc'[me] = CASE s \in Sema -> "run"
                         [] s \in Lock -> "own"
                         [] s \in Thread -> "acquire"
          /\ obj'[me] = CASE s \in Sema -> None
                          [] s \in Lock -> s
                          [] s \in Thread -> CondLock[obj[me]]
      <4>1. /\ pc' = [pc EXCEPT ![me] = CASE SemaOf(me) \in Sema -> "run"
                                           [] SemaOf(me) \in Lock -> "own"
                                           [] SemaOf(me) \in Thread -> "acquire"]
            /\ obj' = [obj EXCEPT ![me] = CASE SemaOf(me) \in Sema -> None
                                             [] SemaOf(me) \in Lock -> SemaOf(me)
                                             [] SemaOf(me) \in Thread -> CondLock[obj[me]]]
        BY <1>1, <2>4, Zenon DEF SemaDown
      <4> QED
        BY <1>0, <3>1, <4>1, Zenon
    <3>3. CASE s \in Sema
      <4>1. pc'[me] = "run" /\ obj'[me] = None
        BY <3>2, <3>3, <1>o, Zenon
      <4> QED
        BY <4>1, <2>1, <2>2, <1>0, Zenon DEF Shape
    <3>4. CASE s \in Lock
      <4>1. pc'[me] = "own" /\ obj'[me] = s
        BY <3>2, <3>4, <1>o, Zenon
      <4>2. obj[me] = s
        BY <3>1, <3>4, <1>o, Zenon DEF SemaOf
      <4>3. LockOf(me)' = s /\ LockOf(me) = s
        BY <4>1, <4>2, <3>4, <1>o, Zenon DEF LockOf
      <4> QED
        <5>1. s = TidLock => child[me] # None
          BY <4>2, <2>1, <1>0, Zenon DEF Shape
        <5>2. s \notin held[me]
          BY <4>3, <2>1, Zenon
        <5> QED
          BY <4>1, <4>3, <3>4, <5>1, <5>2, <2>1, <2>2, <1>0, Zenon DEF Shape
    <3>5. CASE s \in Thread
      <4>1. pc'[me] = "acquire" /\ obj'[me] = CondLock[obj[me]]
        BY <3>2, <3>5, <1>o, Zenon
      <4>2. obj[me] \in Cond
        BY <3>1, <3>5, <1>o, <1>0, <2>1, Zenon DEF SemaOf
      <4>3. LockOf(me) = CondLock[obj[me]] /\ CondLock[obj[me]] \in Lock
        BY <4>2, <1>0, Zenon DEF LockOf
      <4>4. LockOf(me)' = CondLock[obj[me]]
        BY <4>1, <4>3, <1>o, Zenon DEF LockOf
      <4>5. obj'[me] # None
        BY <4>1, <4>3, <1>o, Zenon
      <4> QED
        <5>1. obj'[me] # TidLock /\ LockOf(me)' \notin held'[me]
          BY <4>1, <4>2, <4>3, <4>4, <2>1, <1>0, Zenon
        <5> QED
          BY <4>1, <4>5, <5>1, <2>1, <2>2, <1>0, Zenon DEF Shape
    <3> QED
      BY <3>3, <3>4, <3>5, Zenon DEF Semaphore
  <2> QED
    BY <2>3, <2>4, Zenon
<1>2. CASE SetHolder
  <2>1. pc[me] = "own" /\ obj[me] \in Lock /\ me # Idle
    BY <1>2, <1>0, Zenon DEF SetHolder, Shape
  <2>2. /\ pc'[me] = "run" /\ obj'[me] = None /\ child'[me] = child[me]
        /\ held'[me] = held[me] \cup {obj[me]}
    BY <1>2, <1>0, Zenon DEF SetHolder
  <2>3. status'[me] \notin {"free", "dying"}
    BY <2>1, <1>e, <1>s, Zenon
  <2>4. obj[me] = TidLock => child[me] # None
    BY <2>1, <1>0, Zenon DEF Shape
  <2> QED
    BY <2>1, <2>2, <2>3, <2>4, <1>0, Zenon DEF Shape
<1>3. CASE ReleaseUp
  <2>1. pc[me] = "up" /\ LockOf(me) \in Lock /\ LockOf(me) \notin held[me] /\ me # Idle
    BY <1>3, <1>0, Zenon DEF ReleaseUp, Shape
  <2>2. /\ pc'[me] = (IF obj[me] \in Cond THEN "acquire" ELSE "run")
        /\ obj'[me] = (IF obj[me] \in Cond THEN obj[me] ELSE None)
        /\ child'[me] = child[me] /\ held'[me] = held[me]
    BY <1>3, <1>0, Zenon DEF ReleaseUp
  <2>3. status'[me] \notin {"free", "dying"}
    BY <2>1, <1>e, <1>s, Zenon
  <2>4. CASE obj[me] \in Cond
    <3>1. LockOf(me)' = LockOf(me)
      BY <2>2, <2>4, Zenon DEF LockOf
    <3>2. obj'[me] # None /\ obj'[me] # TidLock
      BY <2>2, <2>4, <1>0, <1>o
    <3> QED
      BY <3>1, <3>2, <2>1, <2>2, <2>3, <2>4, <1>0, Zenon DEF Shape
  <2>5. CASE obj[me] \notin Cond
    BY <2>1, <2>2, <2>3, <2>5, <1>0, Zenon DEF Shape
  <2> QED
    BY <2>4, <2>5, Zenon
<1>4. CASE Broadcast
  <2>1. /\ pc[me] = "broadcast" /\ me # Idle
        /\ obj[me] \in Cond /\ CondLock[obj[me]] \in held[me] /\ cond_waiters[obj[me]] # <<>>
    BY <1>4, <1>0, Zenon DEF Broadcast, Shape
  <2>2. /\ pc'[me] = (IF Len(cond_waiters[obj[me]]) = 1 THEN "run" ELSE "broadcast")
        /\ obj'[me] = (IF Len(cond_waiters[obj[me]]) = 1 THEN None ELSE obj[me])
        /\ child'[me] = child[me] /\ held'[me] = held[me]
        /\ cond_waiters'[obj[me]] = Tail(cond_waiters[obj[me]])
    BY <1>4, <2>1, <1>0, Zenon DEF Broadcast, Signal
  <2>3. status'[me] \notin {"free", "dying"}
    BY <2>1, <1>e, <1>s, Zenon
  <2>4. CASE Len(cond_waiters[obj[me]]) = 1
    BY <2>1, <2>2, <2>3, <2>4, <1>0, Zenon DEF Shape
  <2>5. CASE Len(cond_waiters[obj[me]]) # 1
    <3>1. cond_waiters[obj[me]] \in Seq(Thread)
      BY <2>1, <1>0, Zenon
    <3>2. Tail(cond_waiters[obj[me]]) # <<>>
      <4>1. Len(cond_waiters[obj[me]]) \in Nat /\ Len(cond_waiters[obj[me]]) # 0
        BY <3>1, <2>1, EmptySequence, SequenceFunction, Zenon
      <4>2. /\ Tail(cond_waiters[obj[me]]) \in Seq(Thread)
            /\ Len(Tail(cond_waiters[obj[me]])) = Len(cond_waiters[obj[me]]) - 1
        BY <3>1, <2>1, HeadTail, Zenon
      <4>3. Tail(cond_waiters[obj[me]]) = <<>> => Len(Tail(cond_waiters[obj[me]])) = 0
        BY <4>2, EmptySequence, Zenon
      <4> QED
        BY <4>1, <4>2, <4>3, <2>5
    <3>3. pc'[me] = "broadcast" /\ obj'[me] = obj[me] /\ cond_waiters'[obj'[me]] # <<>>
      BY <3>2, <2>2, <2>5, Zenon
    <3> QED
      BY <3>3, <2>1, <2>2, <2>3, <1>0, Zenon DEF Shape
  <2> QED
    BY <2>4, <2>5, Zenon
<1>5. CASE LoadTid
  <2>1. pc[me] = "run" /\ child[me] # None /\ me # Idle /\ TidLock \in held[me] /\ obj[me] = None
    BY <1>5, <1>0, Zenon DEF LoadTid, Shape
  <2>2. pc'[me] = "tid" /\ obj'[me] = obj[me] /\ child'[me] = child[me] /\ held'[me] = held[me]
    BY <1>5, <1>0, Zenon DEF LoadTid
  <2>3. status'[me] \notin {"free", "dying"}
    BY <2>1, <1>e, <1>s, Zenon
  <2> QED
    BY <2>1, <2>2, <2>3, <1>0, Zenon DEF Shape
<1>6. CASE StoreTid
  <2>1. pc[me] = "tid" /\ child[me] # None /\ me # Idle
    BY <1>6, <1>0, Zenon DEF StoreTid, Shape
  <2>2. /\ pc'[me] = "up" /\ obj'[me] = TidLock /\ child'[me] = child[me]
        /\ held'[me] = held[me] \ {TidLock}
    BY <1>6, <1>0, Zenon DEF StoreTid, ClearHolder
  <2>3. status'[me] \notin {"free", "dying"}
    BY <2>1, <1>e, <1>s, Zenon
  <2>4. LockOf(me)' = TidLock
    BY <2>2, <1>0, <1>o, Zenon DEF LockOf
  <2> QED
    BY <2>1, <2>2, <2>3, <2>4, <1>0, Zenon DEF Shape
<1>7. CASE UnblockChild
  <2>1. pc[me] = "run" /\ child[me] # None /\ me # Idle /\ TidLock \notin held[me] /\ obj[me] = None
    BY <1>7, <1>0, Zenon DEF UnblockChild, Shape
  <2>2. pc'[me] = "run" /\ obj'[me] = None /\ child'[me] = None /\ held'[me] = held[me]
    BY <1>7, <2>1, <1>0, Zenon DEF UnblockChild
  <2>3. status'[me] \notin {"free", "dying"}
    BY <2>1, <1>e, <1>s, Zenon
  <2> QED
    BY <2>1, <2>2, <2>3, <1>0, Zenon DEF Shape
<1>8. CASE IdleBlock
  <2>1. me = Idle /\ pc[me] = "woken" /\ obj[me] = None
    BY <1>8, <1>0, Zenon DEF IdleBlock, Shape
  <2>2. pc'[me] = "run" /\ obj'[me] = None /\ child'[me] = child[me] /\ held'[me] = held[me]
    BY <1>8, <2>1, <1>0, Zenon DEF IdleBlock
  <2>3. status'[me] \notin {"free", "dying"}
    BY <2>1, <1>e, <1>s, Zenon
  <2> QED
    BY <2>1, <2>2, <2>3, <1>0, Zenon DEF Shape
<1>9. CASE \E o \in Sema \cup (Lock \ {TidLock}) : CallDown(o)
  <2>1. PICK o \in Sema \cup (Lock \ {TidLock}) : CallDown(o)
    BY <1>9, Zenon
  <2>2. /\ me # Idle /\ child[me] = None
        /\ o \in Lock => o \notin held[me]
        /\ pc'[me] = "acquire" /\ obj'[me] = o /\ child'[me] = child[me] /\ held'[me] = held[me]
        /\ pc'[me] # pc[me]
    BY <2>1, <1>0, Zenon DEF CallDown, Running
  <2>3. status'[me] \notin {"free", "dying"}
    BY <2>2, <1>e, <1>s, Zenon
  <2>4. LockOf(me)' = IF o \in Lock THEN o ELSE None
    BY <2>2, <1>o, Zenon DEF LockOf
  <2>5. o # None /\ o # TidLock /\ None \notin held[me]
    BY <1>o, <1>0
  <2> QED
    BY <2>2, <2>3, <2>4, <2>5, <1>0, Zenon DEF Shape
<1>10. CASE \E o \in Sema \cup (Lock \ {TidLock}) : TryDown(o)
  <2>1. PICK o \in Sema \cup (Lock \ {TidLock}) : TryDown(o)
    BY <1>10, Zenon
  <2>2. /\ me # Idle /\ child[me] = None
        /\ o \in Lock => o \notin held[me]
        /\ pc'[me] = (IF o \in Lock THEN "own" ELSE "run")
        /\ obj'[me] = (IF o \in Lock THEN o ELSE None)
        /\ child'[me] = child[me] /\ held'[me] = held[me]
        /\ status' = status
    BY <2>1, <1>0, Zenon DEF TryDown, Running, sched
  <2>3. CASE o \in Lock
    <3>1. LockOf(me)' = o /\ o # TidLock
      BY <2>2, <2>3, <1>o, Zenon DEF LockOf
    <3> QED
      BY <2>2, <2>3, <3>1, <1>0, Zenon DEF Shape
  <2>4. CASE o \notin Lock
    BY <2>2, <2>4, <1>0, Zenon DEF Shape
  <2> QED
    BY <2>3, <2>4, Zenon
<1>11. CASE \E s \in Sema : CallUp(s)
  <2>1. /\ me # Idle /\ child[me] = None /\ pc[me] = "run"
        /\ pc' = pc /\ obj' = obj /\ child' = child /\ held' = held
        /\ cond_waiters' = cond_waiters /\ tid' = tid
    BY <1>11, Zenon DEF CallUp, Running
  <2>2. status'[me] \notin {"free", "dying"}
    <3>1. SUFFICES ASSUME ThreadExit PROVE status'[me] \notin {"free", "dying"}
      BY <1>s, Zenon
    <3>2. cur' = cur
      BY <1>11, Zenon DEF CallUp, SemaUp, ThreadUnblock, sched
    <3> QED
      BY <3>1, <3>2, <1>0, Zenon DEF ThreadExit, Schedule, TypeOK
  <2> QED
    BY <2>1, <2>2, <1>0, Zenon DEF Shape
<1>12. CASE \E l \in Lock \ {TidLock} : LockRelease(l)
  <2>1. PICK l \in Lock \ {TidLock} : LockRelease(l)
    BY <1>12, Zenon
  <2>2. /\ me # Idle /\ child[me] = None
        /\ pc'[me] = "up" /\ obj'[me] = l /\ child'[me] = child[me] /\ held'[me] = held[me] \ {l}
        /\ status' = status
    BY <2>1, <1>0, Zenon DEF LockRelease, ClearHolder, Running, sched
  <2>3. LockOf(me)' = l
    BY <2>2, <1>o, Zenon DEF LockOf
  <2> QED
    BY <2>2, <2>3, <1>0, Zenon DEF Shape
<1>13. CASE \E c \in Cond : CondWait(c)
  <2>1. PICK c \in Cond : CondWait(c)
    BY <1>13, Zenon
  <2>2. /\ me # Idle /\ child[me] = None
        /\ pc'[me] = "up" /\ obj'[me] = c /\ child'[me] = child[me]
        /\ held'[me] = held[me] \ {CondLock[c]}
        /\ status' = status
    BY <2>1, <1>0, Zenon DEF CondWait, ClearHolder, Running, sched
  <2>3. LockOf(me)' = CondLock[c] /\ CondLock[c] \in Lock
    BY <2>2, <1>0, Zenon DEF LockOf
  <2> QED
    BY <2>2, <2>3, <1>0, Zenon DEF Shape
<1>14. CASE \E c \in Cond : CondSignal(c)
  <2>1. /\ me # Idle /\ child[me] = None /\ pc[me] = "run"
        /\ pc' = pc /\ obj' = obj /\ child' = child /\ held' = held /\ tid' = tid
    BY <1>14, Zenon DEF CondSignal, Running
  <2>2. status'[me] \notin {"free", "dying"}
    <3>1. SUFFICES ASSUME ThreadExit PROVE status'[me] \notin {"free", "dying"}
      BY <1>s, Zenon
    <3>2. cur' = cur
      BY <1>14, Zenon DEF CondSignal, Signal, SemaUp, ThreadUnblock, sched
    <3> QED
      BY <3>1, <3>2, <1>0, Zenon DEF ThreadExit, Schedule, TypeOK
  <2> QED
    BY <2>1, <2>2, <1>0, Zenon DEF Shape
<1>15. CASE \E c \in Cond : CondBroadcast(c)
  <2>1. PICK c \in Cond : CondBroadcast(c)
    BY <1>15, Zenon
  <2>2. /\ me # Idle /\ child[me] = None
        /\ CondLock[c] \in held[me] /\ cond_waiters'[c] # <<>>
        /\ pc'[me] = "broadcast" /\ obj'[me] = c /\ child'[me] = child[me] /\ held'[me] = held[me]
        /\ status' = status
    BY <2>1, <1>0, Zenon DEF CondBroadcast, Running, sched
  <2> QED
    BY <2>2, <1>0, Zenon DEF Shape
<1>16. CASE \E t \in Thread : ThreadCreate(t)
  <2>1. PICK n \in Thread : ThreadCreate(n)
    BY <1>16, Zenon
  <2>2. /\ me # Idle /\ child[me] = None
        /\ pc'[me] = "acquire" /\ obj'[me] = TidLock /\ child'[me] = n /\ held'[me] = held[me]
        /\ pc'[me] # pc[me]
    BY <2>1, <1>0, Zenon DEF ThreadCreate, Running
  <2>3. status'[me] \notin {"free", "dying"}
    BY <2>2, <1>e, <1>s, Zenon
  <2>4. LockOf(me)' = TidLock /\ TidLock # None /\ n # None /\ TidLock \notin held[me]
    BY <2>2, <1>0, <1>o, SynchAssumption, Zenon DEF LockOf
  <2> QED
    BY <2>2, <2>3, <2>4, <1>0, Zenon DEF Shape
<1>17. CASE ThreadExit
  <2>1. /\ me # Idle /\ child[me] = None /\ held[me] = {} /\ pc[me] = "run"
        /\ pc' = pc /\ obj' = obj /\ child' = child /\ held' = held
        /\ me # Main => tid'[me] = 0
    BY <1>17, <1>0, Zenon DEF ThreadExit, Running
  <2>2. status'[me] = "free" => me # Main
    BY <1>17, <1>0, SynchAssumption, Zenon DEF ThreadExit, Schedule, TypeOK
  <2> QED
    BY <2>1, <2>2, <1>0, Zenon DEF Shape
<1>18. CASE Yield
  <2>1. /\ me # Idle /\ child[me] = None /\ pc[me] = "run"
        /\ pc' = pc /\ obj' = obj /\ child' = child /\ held' = held /\ tid' = tid
    BY <1>18, Zenon DEF Yield, Running
  <2>2. status'[me] \notin {"free", "dying"}
    BY <1>18, <1>0, Zenon DEF Yield, ThreadYield, Schedule, TypeOK
  <2> QED
    BY <2>1, <2>2, <1>0, Zenon DEF Shape
<1>19. CASE TimerInterrupt
  <2>1. /\ pc'[me] = IF me = Idle THEN "woken" ELSE pc[me]
        /\ obj' = obj /\ child' = child /\ held' = held /\ cond_waiters' = cond_waiters /\ tid' = tid
    BY <1>19, <1>0, Zenon DEF TimerInterrupt, Interrupted
  <2>2. status'[me] \notin {"free", "dying"}
    BY <1>19, <1>0, Zenon DEF TimerInterrupt, ThreadYield, Schedule, TypeOK
  <2>3. LockOf(me)' = LockOf(me)
    BY <2>1, Zenon DEF LockOf
  <2> QED
    BY <2>1, <2>2, <2>3, <1>0, Zenon DEF Shape
<1>20. CASE \E s \in DeviceSema : DeviceInterrupt(s)
  <2>1. /\ pc'[me] = IF me = Idle THEN "woken" ELSE pc[me]
        /\ obj' = obj /\ child' = child /\ held' = held /\ cond_waiters' = cond_waiters /\ tid' = tid
    BY <1>20, <1>0, Zenon DEF DeviceInterrupt, Interrupted
  <2>2. status'[me] \notin {"free", "dying"}
    <3>1. SUFFICES ASSUME ThreadExit PROVE status'[me] \notin {"free", "dying"}
      BY <1>s, Zenon
    <3>2. cur' = cur
      BY <1>20, Zenon DEF DeviceInterrupt, SemaUp, ThreadUnblock, sched
    <3> QED
      BY <3>1, <3>2, <1>0, Zenon DEF ThreadExit, Schedule, TypeOK
  <2>3. LockOf(me)' = LockOf(me)
    BY <2>1, Zenon DEF LockOf
  <2> QED
    BY <2>1, <2>2, <2>3, <1>0, Zenon DEF Shape
<1> QED
  BY NextCases, <1>1, <1>2, <1>3, <1>4, <1>5, <1>6, <1>7, <1>8, <1>9, <1>10, <1>11, <1>12,
     <1>13, <1>14, <1>15, <1>16, <1>17, <1>18, <1>19, <1>20, Zenon

-----------------------------------------------------------------------------
(* Locks.                                                                  *)

\* A thread is inside a lock if it holds it, or is about to be its holder, or
\* has just ceased to be.
LEMMA InsideDef ==
    ASSUME NEW t \in Thread, NEW l \in Lock, Shape(t)
    PROVE  t \in Inside(l) <=> l \in held[t] \/ (pc[t] \in {"own", "up"} /\ LockOf(t) = l)
  BY ObjectAssumption, Zenon DEF Inside, Shape, LockOf

LEMMA InsideDefNext ==
    ASSUME NEW t \in Thread, NEW l \in Lock, Shape(t)'
    PROVE  t \in Inside(l)' <=> l \in held'[t] \/ (pc'[t] \in {"own", "up"} /\ LockOf(t)' = l)
  BY ObjectAssumption, Zenon DEF Inside, Shape, LockOf

Unit(b) == IF b THEN 1 ELSE 0

\* A step that moves the unit of a lock between its semaphore and the running
\* thread, or leaves it, keeps one unit in all.
LEMMA UnitKept ==
    ASSUME TypeOK, TypeOK', OthersKept, Locks, NEW me \in Thread, me = cur, NEW l \in Lock,
           value'[l] + Unit(me \in Inside(l)') = value[l] + Unit(me \in Inside(l))
    PROVE  \/ value'[l] = 1 /\ Inside(l)' = {}
           \/ value'[l] = 0 /\ \E t \in Thread : Inside(l)' = {t}
<1>0. value[l] \in Nat /\ value'[l] \in Nat
  BY Zenon DEF TypeOK, Semaphore
<1>1. Inside(l) \subseteq Thread /\ Inside(l)' \subseteq Thread
  BY Zenon DEF Inside
<1>2. \A t \in Thread \ {me} : t \in Inside(l)' <=> t \in Inside(l)
  BY Zenon DEF OthersKept, Inside
<1>3. CASE value[l] = 1 /\ Inside(l) = {}
  <2>1. \/ value'[l] = 1 /\ me \notin Inside(l)'
        \/ value'[l] = 0 /\ me \in Inside(l)'
    BY <1>0, <1>3 DEF Unit
  <2>2. Inside(l)' \subseteq {me}
    BY <1>1, <1>2, <1>3, Zenon
  <2> QED
    BY <2>1, <2>2, Zenon
<1>4. ASSUME NEW t \in Thread, value[l] = 0, Inside(l) = {t}
      PROVE  \/ value'[l] = 1 /\ Inside(l)' = {}
             \/ value'[l] = 0 /\ \E u \in Thread : Inside(l)' = {u}
  <2>1. CASE t = me
    <3>1. \/ value'[l] = 1 /\ me \notin Inside(l)'
          \/ value'[l] = 0 /\ me \in Inside(l)'
      BY <1>0, <1>4, <2>1 DEF Unit
    <3>2. Inside(l)' \subseteq {me}
      BY <1>1, <1>2, <1>4, <2>1, Zenon
    <3> QED
      BY <3>1, <3>2, Zenon
  <2>2. CASE t # me
    <3>1. value'[l] = 0 /\ me \notin Inside(l)'
      BY <1>0, <1>4, <2>2 DEF Unit
    <3>2. Inside(l)' = {t}
      BY <1>1, <1>2, <1>4, <2>2, <3>1, Zenon
    <3> QED
      BY <3>1, <3>2, Zenon
  <2> QED
    BY <2>1, <2>2, Zenon
<1> QED
  BY <1>3, <1>4, Zenon DEF Locks

\* The holder of a lock is the thread that acquired it.
LEMMA HolderNext ==
    ASSUME TypeOK, TypeOK', OthersKept, Frame, \A t \in Thread : Shape(t), Locks,
           NEW l \in Lock, NEW t \in Thread
    PROVE  l \in held'[t] <=> holder'[l] = t
<1>0. /\ cur \in Thread /\ Shape(cur) /\ None \notin Thread
      /\ held \in [Thread -> SUBSET Lock] /\ holder \in [Lock -> Thread \cup {None}]
      /\ TidLock \in Lock /\ CondLock \in [Cond -> Lock]
      /\ \A k \in Lock, u \in Thread : k \in held[u] <=> holder[k] = u
  BY SynchAssumption DEF TypeOK, Locks
<1>1. ASSUME NEW k \in Lock, k \in held[cur],
             holder' = [holder EXCEPT ![k] = None], held' = [held EXCEPT ![cur] = @ \ {k}]
      PROVE  l \in held'[t] <=> holder'[l] = t
  BY <1>0, <1>1
<1>2. CASE holder' = holder /\ held' = held
  BY <1>0, <1>2, Zenon
<1>3. CASE SetHolder
  <2>1. PICK k \in Lock : /\ k = obj[cur] /\ pc[cur] = "own"
                          /\ holder' = [holder EXCEPT ![k] = cur]
                          /\ held' = [held EXCEPT ![cur] = @ \cup {k}]
    BY <1>3, <1>0, PlaceFacts, Zenon DEF SetHolder
  <2>2. cur \in Inside(k)
    BY <2>1, <1>0, Zenon DEF Inside
  <2>3. \A u \in Thread : u \in Inside(k) => u = cur
    BY <2>2, <1>0 DEF Locks
  <2>4. \A u \in Thread : k \in held[u] => u = cur
    BY <2>3, Zenon DEF Inside
  <2> QED
    BY <2>1, <2>4, <1>0
<1>4. CASE StoreTid
  <2>1. TidLock \in held[cur]
    BY <1>4, <1>0, Zenon DEF StoreTid, Shape
  <2> QED
    BY <1>4, <2>1, <1>0, <1>1, Zenon DEF StoreTid, ClearHolder
<1>5. ASSUME NEW k \in Lock, LockRelease(k) PROVE l \in held'[t] <=> holder'[l] = t
  BY <1>5, <1>1, Zenon DEF LockRelease, ClearHolder
<1>6. ASSUME NEW c \in Cond, CondWait(c) PROVE l \in held'[t] <=> holder'[l] = t
  BY <1>6, <1>0, <1>1, Zenon DEF CondWait, ClearHolder
<1> QED
  BY <1>2, <1>3, <1>4, <1>5, <1>6, Zenon DEF Frame

\* Every step keeps, for each lock, one unit in its semaphore or in one thread.
LEMMA LocksNext ==
    ASSUME TypeOK, TypeOK', OthersKept, Frame, \A t \in Thread : Shape(t),
           \A t \in Thread : Shape(t)', Locks, Next
    PROVE  Locks'
<1>1. PICK me \in Thread : me = cur
  BY Zenon DEF TypeOK
<1>2. SUFFICES ASSUME NEW l \in Lock
               PROVE  value'[l] + Unit(me \in Inside(l)') = value[l] + Unit(me \in Inside(l))
  BY <1>1, UnitKept, HolderNext, Zenon DEF Locks
<1> DEFINE In == l \in held[me] \/ (pc[me] \in {"own", "up"} /\ LockOf(me) = l)
           InNext == l \in held'[me] \/ (pc'[me] \in {"own", "up"} /\ LockOf(me)' = l)
           Goal == value'[l] + Unit(me \in Inside(l)') = value[l] + Unit(me \in Inside(l))
<1>3. (me \in Inside(l) <=> In) /\ (me \in Inside(l)' <=> InNext)
  BY <1>1, InsideDef, InsideDefNext, Zenon
<1>0. /\ Shape(me) /\ Shape(me)' /\ value[l] \in Nat /\ value'[l] \in Nat
      /\ value \in [Semaphore -> Nat] /\ l \in Semaphore
      /\ pc \in [Thread -> PC]
      /\ obj \in [Thread -> Sema \cup Lock \cup Cond \cup {None}]
      /\ held \in [Thread -> SUBSET Lock]
      /\ CondLock \in [Cond -> Lock] /\ TidLock \in Lock /\ DeviceSema \subseteq Sema
  BY SynchAssumption, Zenon DEF TypeOK, Semaphore
<1>o. /\ Thread \cap (Lock \cup Sema \cup Cond) = {}
      /\ Lock \cap (Sema \cup Cond) = {}
      /\ Sema \cap Cond = {}
      /\ None \notin Lock \cup Sema \cup Cond
  BY ObjectAssumption, Zenon
<1>k. ASSUME value'[l] = value[l], InNext <=> In PROVE Goal
  BY <1>k, <1>3, Zenon DEF Unit
<1>q. ASSUME value'[l] = value[l], held'[me] = held[me],
             pc[me] \notin {"own", "up"}, pc'[me] \notin {"own", "up"}
      PROVE  Goal
  BY <1>q, <1>k, Zenon
<1>t. ASSUME NEW k \in Lock, value[k] # 0, value' = [value EXCEPT ![k] = @ - 1],
             k \notin held[me], pc[me] \notin {"own", "up"},
             pc'[me] = "own", obj'[me] = k, held'[me] = held[me]
      PROVE  Goal
  <2>1. LockOf(me)' = k
    BY <1>t, <1>o, Zenon DEF LockOf
  <2>2. CASE l = k
    <3>1. ~ In /\ InNext
      BY <1>t, <2>1, <2>2, Zenon
    <3>2. value'[l] = value[l] - 1
      BY <1>t, <2>2, <1>0, Zenon
    <3> QED
      BY <3>1, <3>2, <1>3, <1>0 DEF Unit
  <2>3. CASE l # k
    <3>1. value'[l] = value[l]
      BY <1>t, <2>3, <1>0, Zenon
    <3> QED
      BY <3>1, <2>1, <2>3, <1>t, <1>k, Zenon
  <2> QED
    BY <2>2, <2>3, Zenon
<1>r. ASSUME NEW k \in Lock, k \in held[me], held'[me] = held[me] \ {k}, value'[l] = value[l],
             pc[me] \notin {"own", "up"}, pc'[me] = "up", LockOf(me)' = k
      PROVE  Goal
  BY <1>r, <1>k, Zenon
<1>u. ASSUME NEW s \in Semaphore, s \notin Lock, SemaUp(s) PROVE value'[l] = value[l]
  BY <1>u, <1>0, Zenon DEF SemaUp
<1> HIDE DEF In, InNext, Goal
<1>g. SUFFICES Goal
  BY Zenon DEF Goal
<1>4. CASE SemaDown
  <2>1. /\ pc[me] \in {"acquire", "down"} /\ obj[me] # None /\ LockOf(me) \notin held[me]
        /\ held' = held
    BY <1>4, <1>1, <1>0, Zenon DEF SemaDown, Shape
  <2>2. PICK s \in Semaphore : s = SemaOf(me)
    BY <2>1, <1>0, PlaceFacts, Zenon
  <2>3. CASE value[s] = 0
    <3>1. pc'[me] = "down" /\ value' = value
      BY <1>4, <1>1, <1>0, <2>2, <2>3, Zenon DEF SemaDown
    <3> QED
      BY <3>1, <2>1, <1>q, Zenon
  <2>4. CASE value[s] # 0
    <3>1. /\ pc'[me] = CASE s \in Sema -> "run"
                         [] s \in Lock -> "own"
                         [] s \in Thread -> "acquire"
          /\ obj'[me] = CASE s \in Sema -> None
                          [] s \in Lock -> s
                          [] s \in Thread -> CondLock[obj[me]]
          /\ value' = [value EXCEPT ![s] = @ - 1]
      BY <1>4, <1>1, <1>0, <2>2, <2>4, Zenon DEF SemaDown
    <3>2. CASE s \in Lock
      <4>1. pc'[me] = "own" /\ obj'[me] = s
        BY <3>1, <3>2, <1>o, Zenon
      <4>2. LockOf(me) = s
        BY <2>2, <3>2, <1>o, Zenon DEF SemaOf, LockOf
      <4> QED
        BY <4>1, <4>2, <3>1, <3>2, <2>1, <2>4, <1>t, Zenon
    <3>3. CASE s \notin Lock
      <4>1. value'[l] = value[l]
        BY <3>1, <3>3, <1>0, Zenon
      <4>2. pc'[me] \in {"run", "acquire"}
        BY <3>1, <3>3, Zenon DEF Semaphore
      <4> QED
        BY <4>1, <4>2, <2>1, <1>q, Zenon
    <3> QED
      BY <3>2, <3>3, Zenon
  <2> QED
    BY <2>3, <2>4, Zenon
<1>5. CASE SetHolder
  <2>1. /\ pc[me] = "own" /\ pc'[me] = "run" /\ held'[me] = held[me] \cup {obj[me]} /\ value' = value
    BY <1>5, <1>1, <1>0, Zenon DEF SetHolder
  <2>2. LockOf(me) = obj[me]
    BY <2>1, <1>0, <1>o, Zenon DEF Shape, LockOf
  <2>3. InNext <=> In
    BY <2>1, <2>2, Zenon DEF In, InNext
  <2> QED
    BY <2>1, <2>3, <1>k, Zenon
<1>6. CASE ReleaseUp
  <2>1. /\ pc[me] = "up" /\ LockOf(me) \in Lock /\ LockOf(me) \notin held[me]
        /\ pc'[me] \in {"acquire", "run"} /\ held' = held
    BY <1>6, <1>1, <1>0, Zenon DEF ReleaseUp, Shape
  <2>2. SemaUp(LockOf(me))
    BY <1>6, <1>1, <1>0, PlaceFacts, Zenon DEF ReleaseUp
  <2>3. value' = [value EXCEPT ![LockOf(me)] = @ + 1]
    BY <2>2, Zenon DEF SemaUp
  <2>4. CASE l = LockOf(me)
    <3>1. In /\ ~ InNext
      BY <2>1, <2>4, Zenon DEF In, InNext
    <3>2. value'[l] = value[l] + 1
      BY <2>3, <2>4, <1>0, Zenon
    <3> QED
      BY <3>1, <3>2, <1>3, <1>0 DEF Unit, Goal
  <2>5. CASE l # LockOf(me)
    <3>1. value'[l] = value[l] /\ (InNext <=> In)
      BY <2>1, <2>3, <2>5, <1>0, Zenon DEF In, InNext
    <3> QED
      BY <3>1, <1>k, Zenon
  <2> QED
    BY <2>4, <2>5, Zenon
<1>7. CASE Broadcast
  <2>1. /\ pc[me] = "broadcast" /\ obj[me] \in Cond /\ Head(cond_waiters[obj[me]]) \in Thread
        /\ SemaUp(Head(cond_waiters[obj[me]]))
        /\ held' = held /\ pc'[me] \in {"run", "broadcast"}
    BY <1>7, <1>1, <1>0, PlaceFacts, Zenon DEF Broadcast, Signal
  <2>2. Head(cond_waiters[obj[me]]) \in Semaphore /\ Head(cond_waiters[obj[me]]) \notin Lock
    BY <2>1, <1>o, Zenon DEF Semaphore
  <2> QED
    BY <2>1, <2>2, <1>u, <1>q, Zenon
<1>8. CASE LoadTid
  <2>1. pc[me] = "run" /\ pc'[me] = "tid" /\ held' = held /\ value' = value
    BY <1>8, <1>1, <1>0, Zenon DEF LoadTid
  <2> QED
    BY <2>1, <1>q, Zenon
<1>9. CASE StoreTid
  <2>1. /\ pc[me] = "tid" /\ pc'[me] = "up" /\ held'[me] = held[me] \ {TidLock} /\ value' = value
        /\ obj'[me] = TidLock /\ TidLock \in held[me]
    BY <1>9, <1>1, <1>0, Zenon DEF StoreTid, ClearHolder, Shape
  <2>2. LockOf(me)' = TidLock
    BY <2>1, <1>0, <1>o, Zenon DEF LockOf
  <2> QED
    BY <2>1, <2>2, <1>0, <1>r, Zenon
<1>10. CASE UnblockChild
  <2>1. pc[me] = "run" /\ pc' = pc /\ held' = held /\ value' = value
    BY <1>10, <1>1, Zenon DEF UnblockChild
  <2> QED
    BY <2>1, <1>q, Zenon
<1>11. CASE IdleBlock
  <2>1. pc[me] = "woken" /\ pc'[me] = "run" /\ held' = held /\ value' = value
    BY <1>11, <1>1, <1>0, Zenon DEF IdleBlock
  <2> QED
    BY <2>1, <1>q, Zenon
<1>12. CASE \E o \in Sema \cup (Lock \ {TidLock}) : CallDown(o)
  <2>1. pc[me] = "run" /\ pc'[me] = "acquire" /\ held' = held /\ value' = value
    BY <1>12, <1>1, <1>0, Zenon DEF CallDown, Running
  <2> QED
    BY <2>1, <1>q, Zenon
<1>13. CASE \E o \in Sema \cup (Lock \ {TidLock}) : TryDown(o)
  <2>1. PICK o \in Sema \cup (Lock \ {TidLock}) : TryDown(o)
    BY <1>13, Zenon
  <2>2. /\ pc[me] = "run" /\ held' = held /\ value[o] # 0 /\ value' = [value EXCEPT ![o] = @ - 1]
        /\ o \in Lock => o \notin held[me]
        /\ pc'[me] = (IF o \in Lock THEN "own" ELSE "run")
        /\ obj'[me] = (IF o \in Lock THEN o ELSE None)
    BY <2>1, <1>1, <1>0 DEF TryDown, Running
  <2>3. CASE o \in Lock
    BY <2>2, <2>3, <1>t, Zenon
  <2>4. CASE o \notin Lock
    <3>1. value'[l] = value[l]
      BY <2>2, <2>4, <1>0, Zenon
    <3> QED
      BY <3>1, <2>2, <2>4, <1>q, Zenon
  <2> QED
    BY <2>3, <2>4, Zenon
<1>14. CASE \E s \in Sema : CallUp(s)
  <2>1. PICK s \in Sema : CallUp(s)
    BY <1>14, Zenon
  <2>2. s \in Semaphore /\ s \notin Lock
    BY <1>o, Zenon DEF Semaphore
  <2>3. pc[me] = "run" /\ pc' = pc /\ held' = held /\ SemaUp(s)
    BY <2>1, <1>1, Zenon DEF CallUp, Running
  <2> QED
    BY <2>2, <2>3, <1>u, <1>q, Zenon
<1>15. CASE \E k \in Lock \ {TidLock} : LockRelease(k)
  <2>1. PICK k \in Lock : LockRelease(k)
    BY <1>15, Zenon
  <2>2. /\ pc[me] = "run" /\ k \in held[me] /\ pc'[me] = "up" /\ held'[me] = held[me] \ {k}
        /\ value' = value /\ obj'[me] = k
    BY <2>1, <1>1, <1>0, Zenon DEF LockRelease, ClearHolder, Running
  <2>3. LockOf(me)' = k
    BY <2>2, <1>o, Zenon DEF LockOf
  <2> QED
    BY <2>2, <2>3, <1>r, Zenon
<1>16. CASE \E c \in Cond : CondWait(c)
  <2>1. PICK c \in Cond : CondWait(c)
    BY <1>16, Zenon
  <2>2. /\ pc[me] = "run" /\ CondLock[c] \in held[me] /\ pc'[me] = "up"
        /\ held'[me] = held[me] \ {CondLock[c]}
        /\ value' = [value EXCEPT ![me] = 0] /\ obj'[me] = c
    BY <2>1, <1>1, <1>0, Zenon DEF CondWait, ClearHolder, Running
  <2>3. LockOf(me)' = CondLock[c] /\ CondLock[c] \in Lock
    BY <2>2, <1>0, Zenon DEF LockOf
  <2>4. value'[l] = value[l]
    BY <2>2, <1>0, <1>o
  <2> QED
    BY <2>2, <2>3, <2>4, <1>r, Zenon
<1>17. CASE \E c \in Cond : CondSignal(c)
  <2>1. PICK c \in Cond : CondSignal(c)
    BY <1>17, Zenon
  <2>2. /\ cond_waiters[c] \in Seq(Thread) /\ cond_waiters[c] # <<>>
        /\ SemaUp(Head(cond_waiters[c])) /\ pc[me] = "run" /\ pc' = pc /\ held' = held
    BY <2>1, <1>1, Zenon DEF CondSignal, Signal, Running, TypeOK
  <2>3. Head(cond_waiters[c]) \in Thread
    BY <2>2, HeadTail, Zenon
  <2>4. Head(cond_waiters[c]) \in Semaphore /\ Head(cond_waiters[c]) \notin Lock
    BY <2>3, <1>o, Zenon DEF Semaphore
  <2> QED
    BY <2>2, <2>4, <1>u, <1>q, Zenon
<1>18. CASE \E c \in Cond : CondBroadcast(c)
  <2>1. pc[me] = "run" /\ pc'[me] = "broadcast" /\ held' = held /\ value' = value
    BY <1>18, <1>1, <1>0, Zenon DEF CondBroadcast, Running
  <2> QED
    BY <2>1, <1>q, Zenon
<1>19. CASE \E t \in Thread : ThreadCreate(t)
  <2>1. pc[me] = "run" /\ pc'[me] = "acquire" /\ held' = held /\ value' = value
    BY <1>19, <1>1, <1>0, Zenon DEF ThreadCreate, Running
  <2> QED
    BY <2>1, <1>q, Zenon
<1>20. CASE ThreadExit \/ Yield
  <2>1. pc[me] = "run" /\ pc' = pc /\ held' = held /\ value' = value
    BY <1>20, <1>1, Zenon DEF ThreadExit, Yield, Running
  <2> QED
    BY <2>1, <1>q, Zenon
<1>21. CASE TimerInterrupt
  <2>1. /\ pc'[me] = IF me = Idle THEN "woken" ELSE pc[me]
        /\ held' = held /\ obj' = obj /\ value' = value
    BY <1>21, <1>1, <1>0, Zenon DEF TimerInterrupt, Interrupted
  <2>2. LockOf(me)' = LockOf(me) /\ (me = Idle => pc[me] \in {"run", "woken"})
    BY <2>1, <1>0, Zenon DEF LockOf, Shape
  <2>3. InNext <=> In
    BY <2>1, <2>2, Zenon DEF In, InNext
  <2> QED
    BY <2>1, <2>3, <1>k, Zenon
<1>22. CASE \E s \in DeviceSema : DeviceInterrupt(s)
  <2>1. PICK s \in Sema : DeviceInterrupt(s)
    BY <1>22, <1>0, Zenon
  <2>2. /\ pc'[me] = IF me = Idle THEN "woken" ELSE pc[me]
        /\ held' = held /\ obj' = obj /\ SemaUp(s)
    BY <2>1, <1>1, <1>0, Zenon DEF DeviceInterrupt, Interrupted
  <2>3. LockOf(me)' = LockOf(me) /\ (me = Idle => pc[me] \in {"run", "woken"})
    BY <2>2, <1>0, Zenon DEF LockOf, Shape
  <2>4. InNext <=> In
    BY <2>2, <2>3, Zenon DEF In, InNext
  <2>5. s \in Semaphore /\ s \notin Lock
    BY <1>o, Zenon DEF Semaphore
  <2> QED
    BY <2>2, <2>4, <2>5, <1>u, <1>k, Zenon
<1> QED
  BY NextCases, <1>4, <1>5, <1>6, <1>7, <1>8, <1>9, <1>10, <1>11, <1>12, <1>13, <1>14, <1>15,
     <1>16, <1>17, <1>18, <1>19, <1>20, <1>21, <1>22, Zenon

-----------------------------------------------------------------------------
(* Thread identifiers.                                                     *)

\* Only allocate_tid enters and leaves the place between its load and its store.
LEMMA TidPlace ==
    ASSUME TypeOK, \A t \in Thread : Shape(t), Next
    PROVE  (pc'[cur] = "tid" <=> pc[cur] = "tid") \/ LoadTid \/ StoreTid
<1>0. /\ cur \in Thread /\ Idle \in Thread /\ pc \in [Thread -> PC] /\ Shape(cur)
      /\ obj \in [Thread -> Sema \cup Lock \cup Cond \cup {None}]
  BY SynchAssumption, Zenon DEF TypeOK
<1> DEFINE Kept == pc'[cur] = "tid" <=> pc[cur] = "tid"
<1>1. ASSUME SemaDown PROVE Kept
  <2>1. SemaOf(cur) \in Semaphore
    BY <1>0, <1>1, PlaceFacts, Zenon DEF SemaDown
  <2> QED
    BY <2>1, <1>0, <1>1, Zenon DEF SemaDown, Semaphore
<1>2. ASSUME SetHolder \/ ReleaseUp PROVE Kept
  BY <1>0, <1>2, Zenon DEF SetHolder, ReleaseUp
<1>3. ASSUME Broadcast PROVE Kept
  BY <1>0, <1>3, Zenon DEF Broadcast
<1>4. ASSUME UnblockChild \/ ThreadExit \/ Yield PROVE Kept
  BY <1>4, Zenon DEF UnblockChild, ThreadExit, Yield
<1>5. ASSUME IdleBlock PROVE Kept
  BY <1>0, <1>5, Zenon DEF IdleBlock
<1>6. ASSUME NEW o, CallDown(o) \/ TryDown(o) PROVE Kept
  BY <1>0, <1>6, Zenon DEF CallDown, TryDown, Running
<1>7. ASSUME NEW s, CallUp(s) PROVE Kept
  BY <1>7, Zenon DEF CallUp
<1>8. ASSUME NEW l, LockRelease(l) PROVE Kept
  BY <1>0, <1>8, Zenon DEF LockRelease, ClearHolder, Running
<1>9. ASSUME NEW c, CondWait(c) PROVE Kept
  BY <1>0, <1>9, Zenon DEF CondWait, ClearHolder, Running
<1>10. ASSUME NEW c, CondSignal(c) PROVE Kept
  BY <1>10, Zenon DEF CondSignal
<1>11. ASSUME NEW c, CondBroadcast(c) PROVE Kept
  BY <1>0, <1>11, Zenon DEF CondBroadcast, Running
<1>12. ASSUME NEW t, ThreadCreate(t) PROVE Kept
  BY <1>0, <1>12, Zenon DEF ThreadCreate, Running
<1>13. ASSUME Interrupted PROVE Kept
  BY <1>0, <1>13, Zenon DEF Interrupted, Shape
<1>14. ASSUME TimerInterrupt PROVE Kept
  BY <1>14, <1>13, Zenon DEF TimerInterrupt
<1>15. ASSUME NEW s, DeviceInterrupt(s) PROVE Kept
  BY <1>15, <1>13, Zenon DEF DeviceInterrupt
<1> HIDE DEF Kept
<1>16. Kept \/ LoadTid \/ StoreTid
  BY NextCases, <1>1, <1>2, <1>3, <1>4, <1>5, <1>6, <1>7, <1>8, <1>9, <1>10, <1>11, <1>12,
     <1>14, <1>15, Zenon
<1> QED
  BY <1>16, Zenon DEF Kept

\* The lock of allocate_tid makes the load and the store one step for the others.
LEMMA TidsNext ==
    ASSUME TypeOK, TypeOK', OthersKept, Frame, \A t \in Thread : Shape(t), Ready, Creation, Locks,
           Tids, Next
    PROVE  Tids'
<1>0. /\ cur \in Thread /\ Shape(cur) /\ tid \in [Thread -> Nat] /\ next_tid \in Nat
      /\ child \in [Thread -> Thread \cup {None}] /\ pc \in [Thread -> PC] /\ TidLock \in Lock
      /\ \A u \in Thread : pc[u] = "tid" => child[u] \in Thread /\ TidLock \in held[u]
  BY SynchAssumption, Zenon DEF TypeOK, Shape
<1>1. ASSUME TidLock \in held[cur], NEW u \in Thread, u # cur PROVE pc[u] # "tid"
  BY <1>0, <1>1 DEF Locks
<1>2. CASE LoadTid
  <2>1. /\ pc[cur] = "run" /\ TidLock \in held[cur] /\ next_tid' = next_tid /\ child' = child
        /\ pc' = [pc EXCEPT ![cur] = "tid"]
        /\ tid' = [tid EXCEPT ![child[cur]] = next_tid]
        /\ child[cur] \in Thread
    BY <1>2, <1>0, Zenon DEF LoadTid
  <2>2. \A t \in Thread : tid[t] < next_tid
    BY <1>0, <1>1, <2>1, Zenon DEF Tids
  <2>3. \A t \in Thread : tid'[t] = IF t = child[cur] THEN next_tid ELSE tid[t]
    BY <2>1, <1>0, Zenon
  <2>4. \A u \in Thread : pc'[u] = "tid" <=> u = cur
    BY <2>1, <1>0, <1>1, Zenon
  <2>5. ASSUME NEW t \in Thread
        PROVE  \/ tid'[t] < next_tid'
               \/ tid'[t] = next_tid' /\ \E u \in Thread : child'[u] = t /\ pc'[u] = "tid"
    BY <1>0, <2>1, <2>2, <2>3, <2>4, Zenon
  <2>6. \A u \in Thread : pc'[u] = "tid" => tid'[child'[u]] = next_tid'
    BY <2>1, <2>3, <2>4, Zenon
  <2>7. ASSUME NEW t \in Thread, NEW u \in Thread, tid'[t] = tid'[u], tid'[t] # 0
        PROVE  t = u
    <3>1. tid[t] # next_tid /\ tid[u] # next_tid
      BY <2>2, <1>0
    <3> QED
      BY <2>3, <2>7, <3>1, Zenon DEF Tids
  <2>8. next_tid' >= 1
    BY <2>1, Zenon DEF Tids
  <2> QED
    BY <2>5, <2>6, <2>7, <2>8, Zenon DEF Tids
<1>3. CASE StoreTid
  <2>1. /\ pc[cur] = "tid" /\ pc' = [pc EXCEPT ![cur] = "up"] /\ tid' = tid /\ child' = child
        /\ next_tid' = tid[child[cur]] + 1
    BY <1>3, Zenon DEF StoreTid, ClearHolder
  <2>2. next_tid' = next_tid + 1
    BY <2>1, <1>0, Zenon DEF Tids
  <2>3. \A u \in Thread : pc'[u] # "tid"
    BY <2>1, <1>0, <1>1, Zenon
  <2>4. \A t \in Thread : tid'[t] < next_tid'
    BY <2>1, <2>2, <1>0 DEF Tids
  <2>5. next_tid' >= 1
    BY <2>2, <1>0
  <2> QED
    BY <2>1, <2>3, <2>4, <2>5, Zenon DEF Tids
<1>4. CASE ~ LoadTid /\ ~ StoreTid
  <2>1. next_tid' = next_tid /\ (tid' = tid \/ ThreadExit)
    BY <1>4, Zenon DEF Frame
  <2>2. \A u \in Thread : pc'[u] = "tid" <=> pc[u] = "tid"
    BY <1>4, TidPlace, Zenon DEF OthersKept
  <2>3. \A u \in Thread : pc[u] = "tid" => child'[u] = child[u]
    <3>1. CASE child' = child
      BY <3>1, Zenon
    <3>2. CASE UnblockChild
      BY <3>2, <1>0, Zenon DEF UnblockChild
    <3>3. ASSUME NEW n \in Thread, ThreadCreate(n)
          PROVE  \A u \in Thread : pc[u] = "tid" => child'[u] = child[u]
      BY <3>3, <1>0, Zenon DEF ThreadCreate, Running
    <3> QED
      BY <3>1, <3>2, <3>3, Zenon DEF Frame
  <2>4. \A t \in Thread : tid'[t] = tid[t] \/ (t = cur /\ tid'[t] = 0 /\ ThreadExit)
    <3>1. CASE tid' = tid
      BY <3>1, Zenon
    <3>2. CASE ThreadExit
      BY <3>2, <1>0, Zenon DEF ThreadExit
    <3> QED
      BY <3>1, <3>2, <2>1, Zenon
  <2>5. ASSUME NEW t \in Thread
        PROVE  \/ tid'[t] < next_tid'
               \/ tid'[t] = next_tid' /\ \E u \in Thread : child'[u] = t /\ pc'[u] = "tid"
    <3>1. CASE tid'[t] = tid[t]
      BY <3>1, <2>1, <2>2, <2>3 DEF Tids
    <3>2. CASE tid'[t] = 0
      BY <3>2, <2>1, <1>0 DEF Tids
    <3> QED
      BY <3>1, <3>2, <2>4, Zenon
  <2>6. ASSUME NEW u \in Thread, pc'[u] = "tid"
        PROVE  tid'[child'[u]] = next_tid'
    <3>1. pc[u] = "tid" /\ child'[u] = child[u] /\ child[u] \in Thread /\ tid[child[u]] = next_tid
      BY <2>2, <2>3, <2>6, <1>0, Zenon DEF Tids
    <3>2. tid'[child[u]] = tid[child[u]]
      <4>1. SUFFICES ASSUME ThreadExit, child[u] = cur PROVE FALSE
        BY <2>4, <3>1, Zenon
      <4>2. pc[cur] = "run" /\ status[cur] = "blocked" /\ u \in Thread
        BY <3>1, <4>1, <1>0, SynchAssumption, Zenon DEF Creation
      <4> QED
        BY <4>2, <1>0, Zenon DEF Ready
    <3> QED
      BY <3>1, <3>2, <2>1, Zenon
  <2>7. ASSUME NEW t \in Thread, NEW u \in Thread, tid'[t] = tid'[u], tid'[t] # 0
        PROVE  t = u
    BY <2>4, <2>7, Zenon DEF Tids
  <2>8. next_tid' >= 1
    BY <2>1, Zenon DEF Tids
  <2> QED
    BY <2>5, <2>6, <2>7, <2>8, Zenon DEF Tids
<1> QED
  BY <1>2, <1>3, <1>4, Zenon

-----------------------------------------------------------------------------
(* Condition variables.                                                    *)

Waits(t) == {c \in Cond : t \in Range(cond_waiters[c])}

InWait(t) == obj[t] \in Cond /\ pc[t] \in {"up", "acquire", "down"}

\* A step that changes no condition's waiters, and the semaphore of no thread but
\* the running one's.
LEMMA CondStill ==
    ASSUME OthersKept, Conds, cond_waiters' = cond_waiters, NEW me \in Thread, me = cur,
           \A t \in Thread \ {me} : value'[t] = value[t],
           \/ InWait(me) /\ InWait(me)' /\ obj'[me] = obj[me] /\ value'[me] = value[me]
           \/ (InWait(me) => value[me] # 0) /\ ~ InWait(me)'
    PROVE  Conds'
<1>1. \A t \in Thread : Waits(t)' = Waits(t)
  BY Zenon DEF Waits
<1>2. ASSUME NEW t \in Thread
      PROVE  IF InWait(t)
             THEN (Waits(t) = {obj[t]} /\ value[t] = 0) \/ (Waits(t) = {} /\ value[t] = 1)
             ELSE Waits(t) = {}
  BY Zenon DEF Conds, SignalDelivered, Waits, InWait
<1>3. ASSUME NEW t \in Thread
      PROVE  IF InWait(t)'
             THEN (Waits(t)' = {obj'[t]} /\ value'[t] = 0) \/ (Waits(t)' = {} /\ value'[t] = 1)
             ELSE Waits(t)' = {}
  <2>1. CASE t = me
    BY <2>1, <1>1, <1>2, Zenon
  <2>2. CASE t # me
    <3>1. pc'[t] = pc[t] /\ obj'[t] = obj[t] /\ value'[t] = value[t]
      BY <2>2, Zenon DEF OthersKept
    <3>2. InWait(t)' <=> InWait(t)
      BY <3>1, Zenon DEF InWait
    <3> QED
      BY <3>1, <3>2, <1>1, <1>2, Zenon
  <2> QED
    BY <2>1, <2>2, Zenon
<1>4. SignalDelivered'
  BY <1>3, Zenon DEF SignalDelivered, Waits, InWait
<1> QED
  BY <1>4, Zenon DEF Conds

\* cond_wait puts the running thread among the waiters, its semaphore at 0.
LEMMA CondWaitNext ==
    ASSUME TypeOK, OthersKept, Conds, NEW me \in Thread, me = cur, Shape(me),
           NEW c \in Cond, CondWait(c)
    PROVE  Conds'
<1>0. /\ cond_waiters \in [Cond -> Seq(Thread)] /\ value \in [Semaphore -> Nat]
      /\ pc \in [Thread -> PC] /\ pc[me] = "run"
      /\ obj \in [Thread -> Sema \cup Lock \cup Cond \cup {None}]
      /\ Thread \subseteq Semaphore
  BY Zenon DEF TypeOK, CondWait, Running, Semaphore
<1>1. /\ cond_waiters' = [cond_waiters EXCEPT ![c] = Append(@, me)]
      /\ value' = [value EXCEPT ![me] = 0]
      /\ pc'[me] = "up" /\ obj'[me] = c
  BY <1>0, Zenon DEF CondWait, ClearHolder
<1>2. ~ InWait(me) /\ InWait(me)'
  BY <1>0, <1>1, Zenon DEF InWait
<1>3. ASSUME NEW t \in Thread
      PROVE  IF InWait(t)
             THEN (Waits(t) = {obj[t]} /\ value[t] = 0) \/ (Waits(t) = {} /\ value[t] = 1)
             ELSE Waits(t) = {}
  BY Zenon DEF Conds, SignalDelivered, Waits, InWait
<1>4. \A d \in Cond : me \notin Range(cond_waiters[d])
  BY <1>2, <1>3, Zenon DEF Waits
<1>5. ASSUME NEW d \in Cond
      PROVE  /\ IsInjective(cond_waiters'[d])
             /\ Range(cond_waiters'[d]) = IF d = c THEN Range(cond_waiters[d]) \cup {me}
                                          ELSE Range(cond_waiters[d])
  <2>1. CASE d = c
    BY <2>1, <1>0, <1>1, <1>4, AppendRange DEF Conds
  <2>2. CASE d # c
    BY <2>2, <1>0, <1>1, Zenon DEF Conds
  <2> QED
    BY <2>1, <2>2, Zenon
<1>6. Waits(me)' = {c} /\ \A t \in Thread \ {me} : Waits(t)' = Waits(t)
  BY <1>4, <1>5, Zenon DEF Waits
<1>7. ASSUME NEW t \in Thread
      PROVE  IF InWait(t)'
             THEN (Waits(t)' = {obj'[t]} /\ value'[t] = 0) \/ (Waits(t)' = {} /\ value'[t] = 1)
             ELSE Waits(t)' = {}
  <2>1. CASE t = me
    BY <2>1, <1>0, <1>1, <1>2, <1>6, Zenon
  <2>2. CASE t # me
    <3>1. pc'[t] = pc[t] /\ obj'[t] = obj[t] /\ value'[t] = value[t]
      BY <2>2, <1>0, <1>1, Zenon DEF OthersKept
    <3>2. InWait(t)' <=> InWait(t)
      BY <3>1, Zenon DEF InWait
    <3> QED
      BY <2>2, <3>1, <3>2, <1>3, <1>6, Zenon
  <2> QED
    BY <2>1, <2>2, Zenon
<1>8. SignalDelivered'
  BY <1>7, Zenon DEF SignalDelivered, Waits, InWait
<1> QED
  BY <1>5, <1>8, Zenon DEF Conds

\* cond_signal, and an iteration of cond_broadcast: the first waiter gets its unit.
LEMMA SignalNext ==
    ASSUME TypeOK, OthersKept, Conds, NEW me \in Thread, me = cur,
           ~ InWait(me), ~ InWait(me)',
           NEW c \in Cond, cond_waiters[c] # <<>>, Signal(c)
    PROVE  Conds'
<1>0. /\ cond_waiters \in [Cond -> Seq(Thread)] /\ value \in [Semaphore -> Nat]
      /\ Thread \subseteq Semaphore
  BY Zenon DEF TypeOK, Semaphore
<1>1. PICK h \in Thread : h = Head(cond_waiters[c])
  BY <1>0, HeadTail, Zenon
<1>2. /\ cond_waiters' = [cond_waiters EXCEPT ![c] = Tail(@)]
      /\ value' = [value EXCEPT ![h] = @ + 1]
  BY <1>1, Zenon DEF Signal, SemaUp
<1>3. ASSUME NEW t \in Thread
      PROVE  IF InWait(t)
             THEN (Waits(t) = {obj[t]} /\ value[t] = 0) \/ (Waits(t) = {} /\ value[t] = 1)
             ELSE Waits(t) = {}
  BY Zenon DEF Conds, SignalDelivered, Waits, InWait
<1>4. /\ h \in Range(cond_waiters[c])
      /\ Range(Tail(cond_waiters[c])) = Range(cond_waiters[c]) \ {h}
      /\ IsInjective(Tail(cond_waiters[c]))
  BY <1>0, <1>1, TailRange, Zenon DEF Conds
<1>5. c \in Waits(h)
  BY <1>4, Zenon DEF Waits
<1>6. InWait(h) /\ Waits(h) = {c} /\ obj[h] = c /\ value[h] = 0 /\ h # me
  BY <1>3, <1>5, Zenon
<1>7. ASSUME NEW d \in Cond
      PROVE  /\ IsInjective(cond_waiters'[d])
             /\ Range(cond_waiters'[d]) = Range(cond_waiters[d]) \ {h}
  <2>1. CASE d = c
    BY <2>1, <1>0, <1>2, <1>4, Zenon
  <2>2. CASE d # c
    <3>1. h \notin Range(cond_waiters[d])
      BY <1>6, <2>2, Zenon DEF Waits
    <3> QED
      BY <2>2, <3>1, <1>0, <1>2, Zenon DEF Conds
  <2> QED
    BY <2>1, <2>2, Zenon
<1>8. Waits(h)' = {} /\ \A t \in Thread \ {h} : Waits(t)' = Waits(t)
  BY <1>7, Zenon DEF Waits
<1>9. ASSUME NEW t \in Thread
      PROVE  IF InWait(t)'
             THEN (Waits(t)' = {obj'[t]} /\ value'[t] = 0) \/ (Waits(t)' = {} /\ value'[t] = 1)
             ELSE Waits(t)' = {}
  <2>1. CASE t = me
    BY <2>1, <1>3, <1>6, <1>8, Zenon
  <2>2. CASE t = h
    <3>1. value'[t] = 1
      BY <2>2, <1>0, <1>2, <1>6
    <3> QED
      BY <3>1, <2>2, <1>8, Zenon
  <2>3. CASE t # me /\ t # h
    <3>1. pc'[t] = pc[t] /\ obj'[t] = obj[t] /\ value'[t] = value[t]
      BY <2>3, <1>0, <1>2, Zenon DEF OthersKept
    <3>2. InWait(t)' <=> InWait(t)
      BY <3>1, Zenon DEF InWait
    <3> QED
      BY <2>3, <3>1, <3>2, <1>3, <1>8, Zenon
  <2> QED
    BY <2>1, <2>2, <2>3, Zenon
<1>10. SignalDelivered'
  BY <1>9, Zenon DEF SignalDelivered, Waits, InWait
<1> QED
  BY <1>7, <1>10, Zenon DEF Conds

\* Every step keeps what a condition's waiters were promised.
LEMMA CondsNext ==
    ASSUME TypeOK, TypeOK', OthersKept, \A t \in Thread : Shape(t), Conds, Next
    PROVE  Conds'
<1>1. PICK me \in Thread : me = cur
  BY Zenon DEF TypeOK
<1>0. /\ Shape(me) /\ value \in [Semaphore -> Nat] /\ Thread \subseteq Semaphore
      /\ Idle \in Thread /\ pc \in [Thread -> PC]
      /\ obj \in [Thread -> Sema \cup Lock \cup Cond \cup {None}]
      /\ CondLock \in [Cond -> Lock] /\ TidLock \in Lock /\ DeviceSema \subseteq Sema
  BY SynchAssumption, Zenon DEF TypeOK, Semaphore
<1>o. /\ Thread \cap (Lock \cup Sema \cup Cond) = {}
      /\ Lock \cap (Sema \cup Cond) = {}
      /\ Sema \cap Cond = {}
      /\ None \notin Lock \cup Sema \cup Cond
  BY ObjectAssumption, Zenon
<1>r. pc[me] \in {"run", "woken", "own", "tid", "broadcast"} => ~ InWait(me)
  BY Zenon DEF InWait
<1>s. ASSUME cond_waiters' = cond_waiters, value' = value, ~ InWait(me), ~ InWait(me)'
      PROVE  Conds'
  BY <1>s, <1>1, CondStill, Zenon
<1>u. ASSUME NEW s \in Semaphore, s \notin Thread, SemaUp(s) PROVE \A t \in Thread : value'[t] = value[t]
  BY <1>u, <1>0, Zenon DEF SemaUp
<1>i. ASSUME Interrupted, obj' = obj
      PROVE  InWait(me)' <=> InWait(me)
  <2>1. /\ pc'[me] = IF me = Idle THEN "woken" ELSE pc[me]
        /\ me = Idle => pc[me] \in {"run", "woken"}
    BY <1>i, <1>1, <1>0, Zenon DEF Interrupted, Shape
  <2> QED
    BY <2>1, <1>i, Zenon DEF InWait
<1>2. CASE SemaDown
  <2>1. pc[me] \in {"acquire", "down"} /\ cond_waiters' = cond_waiters
    BY <1>2, <1>1, Zenon DEF SemaDown
  <2>2. PICK s \in Semaphore : s = SemaOf(me)
    BY <2>1, <1>0, PlaceFacts, Zenon
  <2>3. CASE value[s] = 0
    <3>1. pc'[me] = "down" /\ obj' = obj /\ value' = value
      BY <1>2, <1>1, <1>0, <2>2, <2>3, Zenon DEF SemaDown
    <3>2. InWait(me)' <=> InWait(me)
      BY <3>1, <2>1, Zenon DEF InWait
    <3> QED
      BY <3>1, <3>2, <2>1, <1>1, CondStill, Zenon
  <2>4. CASE value[s] # 0
    <3>1. /\ obj'[me] = CASE s \in Sema -> None
                          [] s \in Lock -> s
                          [] s \in Thread -> CondLock[obj[me]]
          /\ value' = [value EXCEPT ![s] = @ - 1]
      BY <1>2, <1>1, <1>0, <2>2, <2>4, Zenon DEF SemaDown
    <3>2. s \in Thread => s = me /\ obj[me] \in Cond
      BY <2>2, <1>0, <1>o, SynchAssumption DEF SemaOf
    <3>3. \A t \in Thread \ {me} : value'[t] = value[t]
      BY <3>1, <3>2, <1>0, Zenon
    <3>4. obj'[me] \notin Cond
      BY <3>1, <3>2, <1>0, <1>o, Zenon DEF Semaphore
    <3>5. InWait(me) => value[me] # 0
      BY <2>2, <2>4, Zenon DEF InWait, SemaOf
    <3>6. ~ InWait(me)'
      BY <3>4, Zenon DEF InWait
    <3> QED
      BY <3>3, <3>5, <3>6, <2>1, <1>1, CondStill, Zenon
  <2> QED
    BY <2>3, <2>4, Zenon
<1>3. CASE SetHolder
  <2>1. pc[me] = "own" /\ pc'[me] = "run" /\ value' = value /\ cond_waiters' = cond_waiters
    BY <1>3, <1>1, <1>0, Zenon DEF SetHolder
  <2> QED
    BY <2>1, <1>r, <1>s, Zenon DEF InWait
<1>4. CASE ReleaseUp
  <2>1. /\ pc[me] = "up" /\ cond_waiters' = cond_waiters
        /\ pc'[me] = (IF obj[me] \in Cond THEN "acquire" ELSE "run")
        /\ obj'[me] = (IF obj[me] \in Cond THEN obj[me] ELSE None)
    BY <1>4, <1>1, <1>0, Zenon DEF ReleaseUp
  <2>2. LockOf(me) \in Lock /\ SemaUp(LockOf(me))
    BY <1>4, <1>1, <1>0, PlaceFacts, Zenon DEF ReleaseUp
  <2>3. \A t \in Thread : value'[t] = value[t]
    BY <2>2, <1>u, <1>o, Zenon DEF Semaphore
  <2>4. CASE obj[me] \in Cond
    <3>1. InWait(me) /\ InWait(me)' /\ obj'[me] = obj[me]
      BY <2>1, <2>4, Zenon DEF InWait
    <3> QED
      BY <3>1, <2>1, <2>3, <1>1, CondStill, Zenon
  <2>5. CASE obj[me] \notin Cond
    <3>1. ~ InWait(me) /\ ~ InWait(me)'
      BY <2>1, <2>5, Zenon DEF InWait
    <3> QED
      BY <3>1, <2>1, <2>3, <1>1, CondStill, Zenon
  <2> QED
    BY <2>4, <2>5, Zenon
<1>5. CASE Broadcast
  <2>1. PICK c \in Cond : c = obj[me] /\ cond_waiters[c] # <<>>
    BY <1>5, <1>1, <1>0, PlaceFacts, Zenon DEF Broadcast
  <2>2. pc[me] = "broadcast" /\ Signal(c) /\ pc'[me] \in {"run", "broadcast"}
    BY <1>5, <1>1, <1>0, <2>1, Zenon DEF Broadcast
  <2>3. ~ InWait(me) /\ ~ InWait(me)'
    BY <2>2, Zenon DEF InWait
  <2> QED
    BY <2>1, <2>2, <2>3, <1>1, SignalNext, Zenon
<1>6. CASE LoadTid
  <2>1. pc[me] = "run" /\ pc'[me] = "tid" /\ value' = value /\ cond_waiters' = cond_waiters
    BY <1>6, <1>1, <1>0, Zenon DEF LoadTid
  <2> QED
    BY <2>1, <1>r, <1>s, Zenon DEF InWait
<1>7. CASE StoreTid
  <2>1. /\ pc[me] = "tid" /\ obj'[me] = TidLock /\ value' = value /\ cond_waiters' = cond_waiters
    BY <1>7, <1>1, <1>0, Zenon DEF StoreTid
  <2>2. ~ InWait(me)'
    BY <2>1, <1>0, <1>o, Zenon DEF InWait
  <2> QED
    BY <2>1, <2>2, <1>r, <1>s, Zenon
<1>8. CASE UnblockChild
  <2>1. pc[me] = "run" /\ pc' = pc /\ value' = value /\ cond_waiters' = cond_waiters
    BY <1>8, <1>1, Zenon DEF UnblockChild
  <2> QED
    BY <2>1, <1>r, <1>s, Zenon DEF InWait
<1>9. CASE IdleBlock
  <2>1. pc[me] = "woken" /\ pc'[me] = "run" /\ value' = value /\ cond_waiters' = cond_waiters
    BY <1>9, <1>1, <1>0, Zenon DEF IdleBlock
  <2> QED
    BY <2>1, <1>r, <1>s, Zenon DEF InWait
<1>10. CASE \E o \in Sema \cup (Lock \ {TidLock}) : CallDown(o)
  <2>1. PICK o \in Sema \cup (Lock \ {TidLock}) : CallDown(o)
    BY <1>10, Zenon
  <2>2. pc[me] = "run" /\ obj'[me] = o /\ value' = value /\ cond_waiters' = cond_waiters
    BY <2>1, <1>1, <1>0, Zenon DEF CallDown, Running
  <2>3. ~ InWait(me)'
    BY <2>2, <1>o, Zenon DEF InWait
  <2> QED
    BY <2>2, <2>3, <1>r, <1>s, Zenon
<1>11. CASE \E o \in Sema \cup (Lock \ {TidLock}) : TryDown(o)
  <2>1. PICK o \in Sema \cup (Lock \ {TidLock}) : TryDown(o)
    BY <1>11, Zenon
  <2>2. /\ pc[me] = "run" /\ pc'[me] \in {"own", "run"} /\ cond_waiters' = cond_waiters
        /\ value' = [value EXCEPT ![o] = @ - 1]
    BY <2>1, <1>1, <1>0, Zenon DEF TryDown, Running
  <2>3. \A t \in Thread : value'[t] = value[t]
    BY <2>2, <1>0, <1>o, Zenon
  <2>4. ~ InWait(me) /\ ~ InWait(me)'
    BY <2>2, Zenon DEF InWait
  <2> QED
    BY <2>2, <2>3, <2>4, <1>1, CondStill, Zenon
<1>12. CASE \E s \in Sema : CallUp(s)
  <2>1. PICK s \in Sema : CallUp(s)
    BY <1>12, Zenon
  <2>2. pc[me] = "run" /\ pc' = pc /\ SemaUp(s) /\ cond_waiters' = cond_waiters
    BY <2>1, <1>1, Zenon DEF CallUp, Running
  <2>3. \A t \in Thread : value'[t] = value[t]
    BY <2>2, <1>u, <1>o, Zenon DEF Semaphore
  <2>4. ~ InWait(me) /\ ~ InWait(me)'
    BY <2>2, Zenon DEF InWait
  <2> QED
    BY <2>2, <2>3, <2>4, <1>1, CondStill, Zenon
<1>13. CASE \E l \in Lock \ {TidLock} : LockRelease(l)
  <2>1. PICK l \in Lock : LockRelease(l)
    BY <1>13, Zenon
  <2>2. pc[me] = "run" /\ obj'[me] = l /\ value' = value /\ cond_waiters' = cond_waiters
    BY <2>1, <1>1, <1>0, Zenon DEF LockRelease, Running
  <2>3. ~ InWait(me)'
    BY <2>2, <1>o, Zenon DEF InWait
  <2> QED
    BY <2>2, <2>3, <1>r, <1>s, Zenon
<1>14. CASE \E c \in Cond : CondWait(c)
  BY <1>14, <1>1, <1>0, CondWaitNext, Zenon
<1>15. CASE \E c \in Cond : CondSignal(c)
  <2>1. PICK c \in Cond : CondSignal(c)
    BY <1>15, Zenon
  <2>2. pc[me] = "run" /\ pc' = pc /\ Signal(c) /\ cond_waiters[c] # <<>>
    BY <2>1, <1>1, Zenon DEF CondSignal, Running
  <2>3. ~ InWait(me) /\ ~ InWait(me)'
    BY <2>2, Zenon DEF InWait
  <2> QED
    BY <2>2, <2>3, <1>1, SignalNext, Zenon
<1>16. CASE \E c \in Cond : CondBroadcast(c)
  <2>1. pc[me] = "run" /\ pc'[me] = "broadcast" /\ value' = value /\ cond_waiters' = cond_waiters
    BY <1>16, <1>1, <1>0, Zenon DEF CondBroadcast, Running
  <2> QED
    BY <2>1, <1>r, <1>s, Zenon DEF InWait
<1>17. CASE \E t \in Thread : ThreadCreate(t)
  <2>1. pc[me] = "run" /\ obj'[me] = TidLock /\ value' = value /\ cond_waiters' = cond_waiters
    BY <1>17, <1>1, <1>0, Zenon DEF ThreadCreate, Running
  <2>2. ~ InWait(me)'
    BY <2>1, <1>0, <1>o, Zenon DEF InWait
  <2> QED
    BY <2>1, <2>2, <1>r, <1>s, Zenon
<1>18. CASE ThreadExit \/ Yield
  <2>1. pc[me] = "run" /\ pc' = pc /\ value' = value /\ cond_waiters' = cond_waiters
    BY <1>18, <1>1, Zenon DEF ThreadExit, Yield, Running
  <2> QED
    BY <2>1, <1>r, <1>s, Zenon DEF InWait
<1>19. CASE TimerInterrupt
  <2>1. Interrupted /\ obj' = obj /\ value' = value /\ cond_waiters' = cond_waiters
    BY <1>19, Zenon DEF TimerInterrupt
  <2> QED
    BY <2>1, <1>i, <1>1, CondStill, Zenon
<1>20. CASE \E s \in DeviceSema : DeviceInterrupt(s)
  <2>1. PICK s \in Sema : DeviceInterrupt(s)
    BY <1>20, <1>0, Zenon
  <2>2. Interrupted /\ obj' = obj /\ SemaUp(s) /\ cond_waiters' = cond_waiters
    BY <2>1, Zenon DEF DeviceInterrupt
  <2>3. \A t \in Thread : value'[t] = value[t]
    BY <2>2, <1>u, <1>o, Zenon DEF Semaphore
  <2> QED
    BY <2>2, <2>3, <1>i, <1>1, CondStill, Zenon
<1> QED
  BY NextCases, <1>2, <1>3, <1>4, <1>5, <1>6, <1>7, <1>8, <1>9, <1>10, <1>11, <1>12, <1>13,
     <1>14, <1>15, <1>16, <1>17, <1>18, <1>19, <1>20, Zenon

-----------------------------------------------------------------------------
(* Creation of threads, and the places of the others.                      *)

LEMMA FrameNext ==
    ASSUME Next
    PROVE  Frame
<1>1. CASE SemaDown
  BY <1>1, Zenon DEF Frame, SemaDown
<1>2. CASE SetHolder
  BY <1>2, Zenon DEF Frame, SetHolder
<1>3. CASE ReleaseUp
  BY <1>3, Zenon DEF Frame, ReleaseUp
<1>4. CASE Broadcast
  <2>1. holder' = holder /\ child' = child /\ tid' = tid /\ next_tid' = next_tid /\ held' = held
    BY <1>4, Zenon DEF Broadcast
  <2> QED
    BY <2>1, <1>4, Zenon DEF Frame
<1>5. CASE LoadTid
  <2>1. /\ holder' = holder /\ child' = child /\ next_tid' = next_tid /\ held' = held
        /\ cond_waiters' = cond_waiters
    BY <1>5, Zenon DEF LoadTid
  <2> QED
    BY <2>1, <1>5, Zenon DEF Frame
<1>6. CASE StoreTid
  <2>1. child' = child /\ tid' = tid /\ cond_waiters' = cond_waiters
    BY <1>6, Zenon DEF StoreTid
  <2> QED
    BY <2>1, <1>6, Zenon DEF Frame
<1>7. CASE UnblockChild
  <2>1. /\ holder' = holder /\ tid' = tid /\ next_tid' = next_tid /\ held' = held
        /\ cond_waiters' = cond_waiters
    BY <1>7, Zenon DEF UnblockChild
  <2> QED
    BY <2>1, <1>7, Zenon DEF Frame
<1>8. CASE IdleBlock
  BY <1>8, Zenon DEF Frame, IdleBlock
<1>9. CASE \E o \in Sema \cup (Lock \ {TidLock}) : CallDown(o)
  BY <1>9, Zenon DEF Frame, CallDown
<1>10. CASE \E o \in Sema \cup (Lock \ {TidLock}) : TryDown(o)
  BY <1>10, Zenon DEF Frame, TryDown
<1>11. CASE \E s \in Sema : CallUp(s)
  BY <1>11, Zenon DEF Frame, CallUp
<1>12. CASE \E l \in Lock \ {TidLock} : LockRelease(l)
  <2>1. child' = child /\ tid' = tid /\ next_tid' = next_tid /\ cond_waiters' = cond_waiters
    BY <1>12, Zenon DEF LockRelease
  <2> QED
    BY <2>1, <1>12, Zenon DEF Frame
<1>13. CASE \E c \in Cond : CondWait(c)
  <2>1. child' = child /\ tid' = tid /\ next_tid' = next_tid
    BY <1>13, Zenon DEF CondWait
  <2> QED
    BY <2>1, <1>13, Zenon DEF Frame
<1>14. CASE \E c \in Cond : CondSignal(c)
  <2>1. holder' = holder /\ child' = child /\ tid' = tid /\ next_tid' = next_tid /\ held' = held
    BY <1>14, Zenon DEF CondSignal
  <2> QED
    BY <2>1, <1>14, Zenon DEF Frame
<1>15. CASE \E c \in Cond : CondBroadcast(c)
  BY <1>15, Zenon DEF Frame, CondBroadcast
<1>16. CASE \E t \in Thread : ThreadCreate(t)
  <2>1. /\ holder' = holder /\ tid' = tid /\ next_tid' = next_tid /\ held' = held
        /\ cond_waiters' = cond_waiters
    BY <1>16, Zenon DEF ThreadCreate
  <2> QED
    BY <2>1, <1>16, Zenon DEF Frame
<1>17. CASE ThreadExit
  <2>1. /\ holder' = holder /\ child' = child /\ next_tid' = next_tid /\ held' = held
        /\ cond_waiters' = cond_waiters
    BY <1>17, Zenon DEF ThreadExit
  <2> QED
    BY <2>1, <1>17, Zenon DEF Frame
<1>18. CASE Yield
  BY <1>18, Zenon DEF Frame, Yield
<1>19. CASE TimerInterrupt
  BY <1>19, Zenon DEF Frame, TimerInterrupt
<1>20. CASE \E s \in DeviceSema : DeviceInterrupt(s)
  BY <1>20, Zenon DEF Frame, DeviceInterrupt
<1> QED
  BY NextCases, <1>1, <1>2, <1>3, <1>4, <1>5, <1>6, <1>7, <1>8, <1>9, <1>10, <1>11, <1>12,
     <1>13, <1>14, <1>15, <1>16, <1>17, <1>18, <1>19, <1>20, Zenon

\* A thread that is being created has one creator, and does nothing yet.
LEMMA CreationNext ==
    ASSUME TypeOK, TypeOK', OthersKept, StatusKept, Frame, Ready, \A t \in Thread : Shape(t),
           Creation
    PROVE  Creation'
<1>0. /\ cur \in Thread /\ status[cur] = "running" /\ Idle \in Thread /\ None \notin Thread
      /\ child \in [Thread -> Thread \cup {None}]
  BY SynchAssumption, Zenon DEF TypeOK, Ready
<1>1. ASSUME NEW u \in Thread, child[u] # None, child'[u] = child[u]
      PROVE  LET t == child[u] IN
             /\ t # Idle
             /\ status'[t] = "blocked"
             /\ pc'[t] = "run"
             /\ child'[t] = None
             /\ held'[t] = {}
  <2>1. PICK t \in Thread : /\ t = child[u] /\ t # Idle /\ status[t] = "blocked"
                            /\ pc[t] = "run" /\ child[t] = None /\ held[t] = {}
    BY <1>0, <1>1, Zenon DEF Creation
  <2>2. t # cur
    BY <2>1, <1>0, Zenon
  <2>3. pc'[t] = "run" /\ child'[t] = None /\ held'[t] = {}
    BY <2>1, <2>2, Zenon DEF OthersKept
  <2>4. ~ (UnblockChild /\ t = child[cur])
    <3>1. SUFFICES ASSUME UnblockChild, t = child[cur] PROVE FALSE
      BY Zenon
    <3>2. u = cur
      BY <3>1, <2>1, <1>0, <1>1, Zenon DEF Creation
    <3>3. child'[cur] = None
      BY <3>1, <1>0, Zenon DEF UnblockChild
    <3> QED
      BY <3>2, <3>3, <1>1, Zenon
  <2>5. status'[t] = "blocked"
    BY <2>1, <2>4, Zenon DEF StatusKept
  <2> QED
    BY <2>1, <2>3, <2>5, Zenon
<1>2. CASE child' = child
  BY <1>1, <1>2, Zenon DEF Creation
<1>3. CASE UnblockChild
  <2>1. child' = [child EXCEPT ![cur] = None]
    BY <1>3, Zenon DEF UnblockChild
  <2>2. \A u \in Thread : child'[u] # None => child'[u] = child[u]
    BY <2>1, <1>0, Zenon
  <2> QED
    BY <2>2, <1>1 DEF Creation
<1>4. ASSUME NEW n \in Thread, ThreadCreate(n)
      PROVE  Creation'
  <2>1. /\ child' = [child EXCEPT ![cur] = n] /\ status' = [status EXCEPT ![n] = "blocked"]
        /\ status[n] = "free" /\ held' = held
    BY <1>4, Zenon DEF ThreadCreate, InitThread
  <2>2. /\ n # Idle /\ pc[n] = "run" /\ held[n] = {} /\ child[n] = None /\ n # cur
    BY <2>1, <1>0, Zenon DEF Shape
  <2>3. /\ status'[n] = "blocked" /\ pc'[n] = "run" /\ held'[n] = {} /\ child'[n] = None
    BY <2>1, <2>2, <1>0, Zenon DEF OthersKept, TypeOK
  <2>4. \A u \in Thread : child[u] # n
    BY <2>1, <1>0, Zenon DEF Creation
  <2>5. \A u \in Thread : child'[u] = IF u = cur THEN n ELSE child[u]
    BY <2>1, <1>0, Zenon
  <2>6. \A u, v \in Thread : child'[u] = child'[v] /\ child'[u] # None => u = v
    BY <2>4, <2>5 DEF Creation
  <2>7. ASSUME NEW u \in Thread, child'[u] # None
        PROVE  LET t == child'[u] IN
               t # Idle /\ status'[t] = "blocked" /\ pc'[t] = "run" /\ child'[t] = None /\ held'[t] = {}
    BY <2>2, <2>3, <2>5, <2>7, <1>1, Zenon
  <2> QED
    BY <2>6, <2>7, Zenon DEF Creation
<1> QED
  BY <1>2, <1>3, <1>4, Zenon DEF Frame

\* While a thread is in cond_broadcast it holds the condition's lock, so that
\* the other threads leave the condition's waiters to it.
LEMMA BroadcastKept ==
    ASSUME TypeOK, TypeOK', \A t \in Thread : Shape(t), Locks, Frame,
           NEW t \in Thread, t # cur, pc[t] = "broadcast"
    PROVE  cond_waiters'[obj[t]] # <<>>
<1>0. /\ cur \in Thread /\ Shape(cur) /\ cond_waiters \in [Cond -> Seq(Thread)]
      /\ obj[t] \in Cond /\ CondLock[obj[t]] \in held[t] /\ cond_waiters[obj[t]] # <<>>
      /\ CondLock \in [Cond -> Lock]
  BY SynchAssumption, Zenon DEF TypeOK, Shape
<1>1. CondLock[obj[t]] \notin held[cur]
  BY <1>0 DEF Locks
<1>2. CASE cond_waiters' = cond_waiters
  BY <1>0, <1>2, Zenon
<1>3. CASE Broadcast
  <2>1. obj[cur] \in Cond /\ CondLock[obj[cur]] \in held[cur]
    BY <1>0, <1>3, Zenon DEF Broadcast, Shape
  <2>2. cond_waiters' = [cond_waiters EXCEPT ![obj[cur]] = Tail(@)]
    BY <1>3, Zenon DEF Broadcast, Signal
  <2>3. obj[t] # obj[cur]
    BY <1>1, <2>1, Zenon
  <2> QED
    BY <1>0, <2>2, <2>3, Zenon
<1>4. ASSUME NEW c \in Cond, CondSignal(c)
      PROVE  cond_waiters'[obj[t]] # <<>>
  <2>1. CondLock[c] \in held[cur] /\ cond_waiters' = [cond_waiters EXCEPT ![c] = Tail(@)]
    BY <1>4, Zenon DEF CondSignal, Signal
  <2>2. obj[t] # c
    BY <1>1, <2>1, Zenon
  <2> QED
    BY <1>0, <2>1, <2>2, Zenon
<1>5. ASSUME NEW c \in Cond, CondWait(c)
      PROVE  cond_waiters'[obj[t]] # <<>>
  <2>1. CondLock[c] \in held[cur] /\ cond_waiters' = [cond_waiters EXCEPT ![c] = Append(@, cur)]
    BY <1>5, Zenon DEF CondWait
  <2>2. obj[t] # c
    BY <1>1, <2>1, Zenon
  <2> QED
    BY <1>0, <2>1, <2>2, Zenon
<1> QED
  BY <1>2, <1>3, <1>4, <1>5, Zenon DEF Frame

\* A thread that does not run keeps its shape.
LEMMA OtherShape ==
    ASSUME TypeOK, TypeOK', OthersKept, StatusKept, Frame, Ready, \A t \in Thread : Shape(t),
           Creation, Locks, NEW t \in Thread, t # cur
    PROVE  Shape(t)'
<1>0. /\ Shape(t) /\ cur \in Thread /\ tid \in [Thread -> Nat]
      /\ child \in [Thread -> Thread \cup {None}] /\ Idle \in Thread
  BY SynchAssumption, Zenon DEF TypeOK
<1>1. pc'[t] = pc[t] /\ obj'[t] = obj[t] /\ held'[t] = held[t] /\ child'[t] = child[t]
  BY Zenon DEF OthersKept
<1>2. LockOf(t)' = LockOf(t)
  BY <1>1, Zenon DEF LockOf
<1>3. status'[t] \in {"free", "dying"} => status'[t] = status[t]
  BY Zenon DEF StatusKept
<1>4. status'[t] = "free" => tid'[t] = tid[t]
  <2>1. CASE tid' = tid
    BY <2>1, Zenon
  <2>2. CASE LoadTid
    <3>1. child[cur] # None /\ tid' = [tid EXCEPT ![child[cur]] = next_tid]
      BY <2>2, Zenon DEF LoadTid
    <3>2. status'[t] = "free" => t # child[cur]
      BY <1>3, <3>1, <1>0, Zenon DEF Creation
    <3> QED
      BY <3>1, <3>2, <1>0, Zenon
  <2>3. CASE ThreadExit
    BY <2>3, <1>0, Zenon DEF ThreadExit
  <2> QED
    BY <2>1, <2>2, <2>3, Zenon DEF Frame
<1>5. pc[t] = "broadcast" => cond_waiters'[obj[t]] # <<>>
  BY BroadcastKept, Zenon
<1> QED
  BY <1>0, <1>1, <1>2, <1>3, <1>4, <1>5, Zenon DEF Shape

-----------------------------------------------------------------------------
(* Types.                                                                  *)

\* schedule keeps the types of the scheduler's state (thread.c, schedule).
LEMMA ScheduleType ==
    ASSUME SchedOK, NEW st \in {"ready", "blocked", "dying"}, NEW rl \in Seq(Thread),
           Schedule(st, rl)
    PROVE  SchedOK'
<1>1. rl # <<>> => Head(rl) \in Thread /\ Tail(rl) \in Seq(Thread)
  BY HeadTail, Zenon
<1>2. Idle \in Thread /\ 0 \in 0..(TimeSlice - 1)
  BY SynchAssumption
<1> QED
  BY <1>1, <1>2, Zenon DEF Schedule, SchedOK

\* So does thread_unblock.
LEMMA UnblockType ==
    ASSUME SchedOK, NEW t \in Thread, ThreadUnblock(t)
    PROVE  SchedOK'
  BY AppendElement, Zenon DEF ThreadUnblock, SchedOK

\* And sema_up, on any semaphore.
LEMMA SemaUpType ==
    ASSUME SchedOK, SemaOK, NEW s \in Semaphore, SemaUp(s)
    PROVE  SchedOK' /\ SemaOK'
<1>1. waiters[s] # <<>> => Head(waiters[s]) \in Thread /\ Tail(waiters[s]) \in Seq(Thread)
  BY HeadTail, Zenon DEF SemaOK
<1>2. value' \in [Semaphore -> Nat]
  BY DEF SemaUp, SemaOK
<1>3. CASE waiters[s] = <<>>
  BY <1>2, <1>3, Zenon DEF SemaUp, SemaOK, SchedOK, sched
<1>4. CASE waiters[s] # <<>>
  <2>1. ThreadUnblock(Head(waiters[s])) /\ waiters' = [waiters EXCEPT ![s] = Tail(@)]
    BY <1>4, Zenon DEF SemaUp
  <2>2. SchedOK'
    BY <2>1, <1>1, <1>4, UnblockType, Zenon
  <2>3. waiters' \in [Semaphore -> Seq(Thread)]
    BY <2>1, <1>1, <1>4, Zenon DEF SemaOK
  <2> QED
    BY <2>2, <2>3, <1>2, Zenon DEF SemaOK
<1> QED
  BY <1>3, <1>4, Zenon

\* TypeOK, by the parts that an action changes together.
LEMMA TypeParts ==
    /\ TypeOK <=> SchedOK /\ SemaOK /\ PlaceOK /\ LockOK /\ TidOK /\ CondOK
    /\ TypeOK' <=> SchedOK' /\ SemaOK' /\ PlaceOK' /\ LockOK' /\ TidOK' /\ CondOK'
  BY Zenon DEF TypeOK, SchedOK, SemaOK, PlaceOK, LockOK, TidOK, CondOK

\* Every step keeps the types, and the places of the threads that do not run.
LEMMA TypeNext ==
    ASSUME TypeOK, \A t \in Thread : Shape(t), Next
    PROVE  TypeOK' /\ OthersKept
<1>0. /\ SchedOK /\ SemaOK /\ PlaceOK /\ LockOK /\ TidOK /\ CondOK
      /\ cur \in Thread
      /\ Shape(cur)
      /\ PC = {"run", "woken", "acquire", "own", "up", "down", "tid", "broadcast"}
      /\ Sema \subseteq Semaphore /\ Lock \subseteq Semaphore /\ Thread \subseteq Semaphore
      /\ Idle \in Thread /\ TidLock \in Lock /\ DeviceSema \subseteq Sema
      /\ CondLock \in [Cond -> Lock]
  BY TypeParts, SynchAssumption, Zenon DEF SchedOK, PC, Semaphore
<1> DEFINE Goal == TypeOK' /\ OthersKept
<1>1. CASE SemaDown
  <2>1. PICK s \in Semaphore : s = SemaOf(cur)
    BY <1>0, <1>1, PlaceFacts, Zenon DEF SemaDown
  <2>2. CASE value[s] = 0
    <3>1. /\ waiters' = [waiters EXCEPT ![s] = Append(@, cur)]
          /\ Schedule("blocked", ready_list)
          /\ pc' = [pc EXCEPT ![cur] = "down"]
          /\ UNCHANGED <<value, obj>>
      BY <1>1, <2>1, <2>2, Zenon DEF SemaDown, ThreadBlock
    <3>2. SchedOK'
      BY <3>1, <1>0, ScheduleType, Zenon DEF SchedOK
    <3>3. SemaOK'
      BY <3>1, <1>0, AppendElement, Zenon DEF SemaOK
    <3>4. PlaceOK'
      BY <3>1, <1>0, Zenon DEF PlaceOK
    <3>5. LockOK' /\ TidOK' /\ CondOK'
      BY <1>1, <1>0, Zenon DEF SemaDown, LockOK, TidOK, CondOK
    <3>6. OthersKept
      BY <1>1, <3>1, <1>0, Zenon DEF SemaDown, OthersKept, PlaceOK
    <3> QED
      BY <3>2, <3>3, <3>4, <3>5, <3>6, TypeParts, Zenon
  <2>3. CASE value[s] # 0
    <3>1. /\ value' = [value EXCEPT ![s] = @ - 1]
          /\ pc' = [pc EXCEPT ![cur] = CASE s \in Sema -> "run"
                                         [] s \in Lock -> "own"
                                         [] s \in Thread -> "acquire"]
          /\ obj' = [obj EXCEPT ![cur] = CASE s \in Sema -> None
                                           [] s \in Lock -> s
                                           [] s \in Thread -> CondLock[@]]
          /\ UNCHANGED <<sched, waiters>>
      BY <1>1, <2>1, <2>3, Zenon DEF SemaDown
    <3>2. SchedOK' /\ SemaOK'
      BY <3>1, <1>0, <2>3 DEF SchedOK, SemaOK, sched
    <3>3. s \in Thread => obj[cur] \in Cond
      BY <2>1, <1>0, ObjectAssumption, SynchAssumption, Zenon DEF SemaOf, PlaceOK
    <3>4. PlaceOK'
      <4>1. CASE s \in Sema
        BY <4>1, <3>1, <1>0, ObjectAssumption, Zenon DEF PlaceOK
      <4>2. CASE s \in Lock
        BY <4>2, <3>1, <1>0, ObjectAssumption, Zenon DEF PlaceOK
      <4>3. CASE s \in Thread
        BY <4>3, <3>3, <3>1, <1>0, ObjectAssumption, Zenon DEF PlaceOK
      <4> QED
        BY <4>1, <4>2, <4>3, Zenon DEF Semaphore
    <3>5. LockOK' /\ TidOK' /\ CondOK'
      BY <1>1, <1>0, Zenon DEF SemaDown, LockOK, TidOK, CondOK
    <3>6. OthersKept
      BY <1>1, <3>1, <1>0, Zenon DEF SemaDown, OthersKept, PlaceOK
    <3> QED
      BY <3>2, <3>4, <3>5, <3>6, TypeParts, Zenon
  <2> QED
    BY <2>2, <2>3, Zenon
<1>2. CASE SetHolder
  <2>1. obj[cur] \in Lock
    BY <1>0, <1>2, PlaceFacts, Zenon DEF SetHolder
  <2>2. SchedOK' /\ SemaOK' /\ TidOK' /\ CondOK'
    BY <1>2, <1>0, Zenon DEF SetHolder, SchedOK, SemaOK, TidOK, CondOK, sched
  <2>3. PlaceOK' /\ LockOK'
    BY <1>2, <1>0, <2>1, Zenon DEF SetHolder, PlaceOK, LockOK
  <2>4. OthersKept
    BY <1>2, <1>0, Zenon DEF SetHolder, PlaceOK, LockOK, OthersKept
  <2> QED
    BY <2>2, <2>3, <2>4, TypeParts, Zenon
<1>3. CASE ReleaseUp
  <2>1. LockOf(cur) \in Semaphore /\ SemaUp(LockOf(cur))
    BY <1>0, <1>3, PlaceFacts, Zenon DEF ReleaseUp
  <2>2. SchedOK' /\ SemaOK'
    BY <2>1, <1>0, SemaUpType, Zenon
  <2>3. PlaceOK'
    BY <1>3, <1>0, Zenon DEF ReleaseUp, PlaceOK
  <2>4. LockOK' /\ TidOK' /\ CondOK'
    BY <1>3, <1>0, Zenon DEF ReleaseUp, LockOK, TidOK, CondOK
  <2>5. OthersKept
    BY <1>3, <1>0, Zenon DEF ReleaseUp, PlaceOK, OthersKept
  <2> QED
    BY <2>2, <2>3, <2>4, <2>5, TypeParts, Zenon
<1>4. CASE Broadcast
  <2>1. PICK c \in Cond : c = obj[cur] /\ cond_waiters[c] # <<>> /\ Head(cond_waiters[c]) \in Thread
    BY <1>0, <1>4, PlaceFacts, Zenon DEF Broadcast
  <2>2. SemaUp(Head(cond_waiters[c])) /\ cond_waiters' = [cond_waiters EXCEPT ![c] = Tail(@)]
    BY <1>4, <2>1, Zenon DEF Broadcast, Signal
  <2>3. SchedOK' /\ SemaOK'
    BY <2>1, <2>2, <1>0, SemaUpType, Zenon
  <2>4. Tail(cond_waiters[c]) \in Seq(Thread)
    BY <2>1, <1>0, HeadTail, Zenon DEF CondOK
  <2>5. CondOK'
    BY <2>2, <2>4, <1>0, Zenon DEF CondOK
  <2>6. PlaceOK' /\ LockOK' /\ TidOK'
    BY <1>4, <1>0, <2>1, Zenon DEF Broadcast, PlaceOK, LockOK, TidOK
  <2>7. OthersKept
    BY <1>4, <1>0, Zenon DEF Broadcast, PlaceOK, OthersKept
  <2> QED
    BY <2>3, <2>5, <2>6, <2>7, TypeParts, Zenon
<1>5. CASE LoadTid
  <2>1. child[cur] \in Thread
    BY <1>0, <1>5, Zenon DEF LoadTid, TidOK
  <2>2. SchedOK' /\ SemaOK' /\ LockOK' /\ CondOK'
    BY <1>5, <1>0, Zenon DEF LoadTid, SchedOK, SemaOK, LockOK, CondOK, sched
  <2>3. PlaceOK' /\ TidOK'
    BY <1>5, <1>0, <2>1, Zenon DEF LoadTid, PlaceOK, TidOK
  <2>4. OthersKept
    BY <1>5, <1>0, Zenon DEF LoadTid, PlaceOK, OthersKept
  <2> QED
    BY <2>2, <2>3, <2>4, TypeParts, Zenon
<1>6. CASE StoreTid
  <2>1. child[cur] \in Thread
    BY <1>0, <1>6, PlaceFacts, Zenon DEF StoreTid
  <2>2. SchedOK' /\ SemaOK' /\ CondOK'
    BY <1>6, <1>0, Zenon DEF StoreTid, SchedOK, SemaOK, CondOK, sched
  <2>3. PlaceOK' /\ LockOK' /\ TidOK'
    BY <1>6, <1>0, <2>1 DEF StoreTid, ClearHolder, PlaceOK, LockOK, TidOK
  <2>4. OthersKept
    BY <1>6, <1>0, Zenon DEF StoreTid, ClearHolder, PlaceOK, LockOK, OthersKept
  <2> QED
    BY <2>2, <2>3, <2>4, TypeParts, Zenon
<1>7. CASE UnblockChild
  <2>1. child[cur] \in Thread
    BY <1>0, <1>7, Zenon DEF UnblockChild, TidOK
  <2>2. SchedOK'
    BY <2>1, <1>0, <1>7, UnblockType, Zenon DEF UnblockChild
  <2>3. SemaOK' /\ PlaceOK' /\ LockOK' /\ CondOK' /\ TidOK'
    BY <1>7, <1>0, Zenon DEF UnblockChild, SemaOK, PlaceOK, LockOK, CondOK, TidOK
  <2>4. OthersKept
    BY <1>7, <1>0, Zenon DEF UnblockChild, TidOK, OthersKept
  <2> QED
    BY <2>2, <2>3, <2>4, TypeParts, Zenon
<1>8. CASE IdleBlock
  <2>1. SchedOK'
    BY <1>8, <1>0, ScheduleType, Zenon DEF IdleBlock, ThreadBlock, SchedOK
  <2>2. SemaOK' /\ PlaceOK' /\ LockOK' /\ CondOK' /\ TidOK'
    BY <1>8, <1>0, Zenon DEF IdleBlock, SemaOK, PlaceOK, LockOK, CondOK, TidOK
  <2>3. OthersKept
    BY <1>8, <1>0, Zenon DEF IdleBlock, PlaceOK, OthersKept
  <2> QED
    BY <2>1, <2>2, <2>3, TypeParts, Zenon
<1>9. CASE \E o \in Sema \cup (Lock \ {TidLock}) : CallDown(o)
  <2>1. PICK o \in Sema \cup (Lock \ {TidLock}) : CallDown(o)
    BY <1>9, Zenon
  <2>2. SchedOK' /\ SemaOK' /\ LockOK' /\ CondOK' /\ TidOK'
    BY <2>1, <1>0, Zenon DEF CallDown, SchedOK, SemaOK, LockOK, CondOK, TidOK, sched
  <2>3. PlaceOK'
    BY <2>1, <1>0, Zenon DEF CallDown, PlaceOK
  <2>4. OthersKept
    BY <2>1, <1>0, Zenon DEF CallDown, PlaceOK, OthersKept
  <2> QED
    BY <2>2, <2>3, <2>4, TypeParts, Zenon
<1>10. CASE \E o \in Sema \cup (Lock \ {TidLock}) : TryDown(o)
  <2>1. PICK o \in Sema \cup (Lock \ {TidLock}) : TryDown(o)
    BY <1>10, Zenon
  <2>2. SchedOK' /\ LockOK' /\ CondOK' /\ TidOK'
    BY <2>1, <1>0, Zenon DEF TryDown, SchedOK, LockOK, CondOK, TidOK, sched
  <2>3. PlaceOK' /\ SemaOK'
    BY <2>1, <1>0 DEF TryDown, PlaceOK, SemaOK
  <2>4. OthersKept
    BY <2>1, <1>0, Zenon DEF TryDown, PlaceOK, OthersKept
  <2> QED
    BY <2>2, <2>3, <2>4, TypeParts, Zenon
<1>11. CASE \E s \in Sema : CallUp(s)
  <2>1. PICK s \in Semaphore : CallUp(s)
    BY <1>11, <1>0, Zenon
  <2>2. SchedOK' /\ SemaOK'
    BY <2>1, <1>0, SemaUpType, Zenon DEF CallUp
  <2>3. PlaceOK' /\ LockOK' /\ CondOK' /\ TidOK'
    BY <2>1, <1>0, Zenon DEF CallUp, PlaceOK, LockOK, CondOK, TidOK
  <2>4. OthersKept
    BY <2>1, Zenon DEF CallUp, OthersKept
  <2> QED
    BY <2>2, <2>3, <2>4, TypeParts, Zenon
<1>12. CASE \E l \in Lock \ {TidLock} : LockRelease(l)
  <2>1. PICK l \in Lock : LockRelease(l)
    BY <1>12, Zenon
  <2>2. SchedOK' /\ SemaOK' /\ CondOK' /\ TidOK'
    BY <2>1, <1>0, Zenon DEF LockRelease, SchedOK, SemaOK, CondOK, TidOK, sched
  <2>3. PlaceOK' /\ LockOK'
    BY <2>1, <1>0, Zenon DEF LockRelease, ClearHolder, PlaceOK, LockOK
  <2>4. OthersKept
    BY <2>1, <1>0, Zenon DEF LockRelease, ClearHolder, PlaceOK, LockOK, OthersKept
  <2> QED
    BY <2>2, <2>3, <2>4, TypeParts, Zenon
<1>13. CASE \E c \in Cond : CondWait(c)
  <2>1. PICK c \in Cond : CondWait(c)
    BY <1>13, Zenon
  <2>2. SchedOK' /\ TidOK'
    BY <2>1, <1>0, Zenon DEF CondWait, SchedOK, TidOK, sched
  <2>3. PlaceOK' /\ LockOK'
    BY <2>1, <1>0, Zenon DEF CondWait, ClearHolder, PlaceOK, LockOK
  <2>4. SemaOK' /\ CondOK'
    BY <2>1, <1>0, AppendElement, EmptySequence, Zenon DEF CondWait, SemaOK, CondOK
  <2>5. OthersKept
    BY <2>1, <1>0, Zenon DEF CondWait, ClearHolder, PlaceOK, LockOK, OthersKept
  <2> QED
    BY <2>2, <2>3, <2>4, <2>5, TypeParts, Zenon
<1>14. CASE \E c \in Cond : CondSignal(c)
  <2>1. PICK c \in Cond : CondSignal(c)
    BY <1>14, Zenon
  <2>2. /\ cond_waiters[c] # <<>> /\ cond_waiters[c] \in Seq(Thread)
        /\ SemaUp(Head(cond_waiters[c]))
        /\ cond_waiters' = [cond_waiters EXCEPT ![c] = Tail(@)]
    BY <2>1, <1>0, Zenon DEF CondSignal, Signal, CondOK
  <2>3. Head(cond_waiters[c]) \in Thread /\ Tail(cond_waiters[c]) \in Seq(Thread)
    BY <2>2, HeadTail, Zenon
  <2>4. SchedOK' /\ SemaOK'
    BY <2>2, <2>3, <1>0, SemaUpType, Zenon
  <2>5. CondOK'
    BY <2>2, <2>3, <1>0, Zenon DEF CondOK
  <2>6. PlaceOK' /\ LockOK' /\ TidOK' /\ OthersKept
    BY <2>1, <1>0, Zenon DEF CondSignal, PlaceOK, LockOK, TidOK, OthersKept
  <2> QED
    BY <2>4, <2>5, <2>6, TypeParts, Zenon
<1>15. CASE \E c \in Cond : CondBroadcast(c)
  <2>1. PICK c \in Cond : CondBroadcast(c)
    BY <1>15, Zenon
  <2>2. SchedOK' /\ SemaOK' /\ LockOK' /\ CondOK' /\ TidOK'
    BY <2>1, <1>0, Zenon DEF CondBroadcast, SchedOK, SemaOK, LockOK, CondOK, TidOK, sched
  <2>3. PlaceOK'
    BY <2>1, <1>0, Zenon DEF CondBroadcast, PlaceOK
  <2>4. OthersKept
    BY <2>1, <1>0, Zenon DEF CondBroadcast, PlaceOK, OthersKept
  <2> QED
    BY <2>2, <2>3, <2>4, TypeParts, Zenon
<1>16. CASE \E t \in Thread : ThreadCreate(t)
  <2>1. PICK t \in Thread : ThreadCreate(t)
    BY <1>16, Zenon
  <2>2. SchedOK'
    BY <2>1, <1>0, Zenon DEF ThreadCreate, InitThread, SchedOK
  <2>3. SemaOK' /\ LockOK' /\ CondOK'
    BY <2>1, <1>0, Zenon DEF ThreadCreate, SemaOK, LockOK, CondOK
  <2>4. PlaceOK' /\ TidOK'
    BY <2>1, <1>0, Zenon DEF ThreadCreate, PlaceOK, TidOK
  <2>5. OthersKept
    BY <2>1, <1>0, Zenon DEF ThreadCreate, PlaceOK, TidOK, OthersKept
  <2> QED
    BY <2>2, <2>3, <2>4, <2>5, TypeParts, Zenon
<1>17. CASE ThreadExit
  <2>1. SchedOK'
    BY <1>17, <1>0, ScheduleType, Zenon DEF ThreadExit, SchedOK
  <2>2. SemaOK' /\ PlaceOK' /\ LockOK' /\ CondOK' /\ OthersKept
    BY <1>17, <1>0, Zenon DEF ThreadExit, SemaOK, PlaceOK, LockOK, CondOK, OthersKept
  <2>3. TidOK'
    BY <1>17, <1>0, Zenon DEF ThreadExit, TidOK
  <2> QED
    BY <2>1, <2>2, <2>3, TypeParts, Zenon
<1>18. CASE Yield
  <2>1. PICK rl \in Seq(Thread) : Schedule("ready", rl)
    BY <1>18, <1>0, AppendElement, Zenon DEF Yield, ThreadYield, SchedOK
  <2>2. SchedOK'
    BY <2>1, <1>0, ScheduleType, Zenon
  <2>3. SemaOK' /\ PlaceOK' /\ LockOK' /\ CondOK' /\ TidOK' /\ OthersKept
    BY <1>18, <1>0, Zenon DEF Yield, SemaOK, PlaceOK, LockOK, CondOK, TidOK, OthersKept
  <2> QED
    BY <2>2, <2>3, TypeParts, Zenon
<1>19. CASE TimerInterrupt
  <2>1. /\ Interrupted
        /\ IF thread_ticks + 1 >= TimeSlice
           THEN ThreadYield
           ELSE thread_ticks' = thread_ticks + 1 /\ UNCHANGED <<status, cur, ready_list>>
        /\ UNCHANGED <<value, waiters, holder, cond_waiters, obj, child, tid, next_tid, held>>
    BY <1>19, Zenon DEF TimerInterrupt
  <2>2. ASSUME thread_ticks + 1 >= TimeSlice
        PROVE  SchedOK'
    <3>1. PICK rl \in Seq(Thread) : Schedule("ready", rl)
      BY <2>1, <2>2, <1>0, AppendElement, Zenon DEF ThreadYield, SchedOK
    <3> QED
      BY <3>1, <1>0, ScheduleType, Zenon
  <2>3. ASSUME ~ (thread_ticks + 1 >= TimeSlice)
        PROVE  SchedOK'
    BY <2>1, <2>3, <1>0, SynchAssumption DEF SchedOK
  <2>4. SemaOK' /\ LockOK' /\ CondOK' /\ TidOK'
    BY <2>1, <1>0, Zenon DEF SemaOK, LockOK, CondOK, TidOK
  <2>5. PlaceOK' /\ OthersKept
    BY <2>1, <1>0, Zenon DEF Interrupted, PlaceOK, OthersKept
  <2> QED
    BY <2>2, <2>3, <2>4, <2>5, TypeParts, Zenon
<1>20. CASE \E s \in DeviceSema : DeviceInterrupt(s)
  <2>1. PICK s \in Semaphore : DeviceInterrupt(s)
    BY <1>20, <1>0, Zenon
  <2>2. SchedOK' /\ SemaOK'
    BY <2>1, <1>0, SemaUpType, Zenon DEF DeviceInterrupt
  <2>3. LockOK' /\ CondOK' /\ TidOK'
    BY <2>1, <1>0, Zenon DEF DeviceInterrupt, LockOK, CondOK, TidOK
  <2>4. PlaceOK' /\ OthersKept
    BY <2>1, <1>0, Zenon DEF DeviceInterrupt, Interrupted, PlaceOK, OthersKept
  <2> QED
    BY <2>2, <2>3, <2>4, TypeParts, Zenon
<1> HIDE DEF Goal
<1> QED
  BY NextCases, <1>1, <1>2, <1>3, <1>4, <1>5, <1>6, <1>7, <1>8, <1>9, <1>10, <1>11, <1>12,
     <1>13, <1>14, <1>15, <1>16, <1>17, <1>18, <1>19, <1>20, Zenon

=============================================================================
