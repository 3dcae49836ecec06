------------------------------- MODULE Synch -------------------------------
(***************************************************************************)
(* Kernel threads, the scheduler, semaphores, locks and condition          *)
(* variables of pintos (threads/thread.c, threads/synch.c).                *)
(*                                                                         *)
(* There is one processor: only thread cur takes steps, and code that runs *)
(* with interrupts off is one step.  Everywhere else a timer or a device   *)
(* may interrupt.  A thread that slept in sema_down comes back with        *)
(* interrupts off and tests the value again before it enables them.        *)
(*                                                                         *)
(* A semaphore is one of its own (Sema), the one inside a lock (Lock), or  *)
(* the one that a thread puts on its stack in cond_wait (Thread).          *)
(***************************************************************************)
EXTENDS Naturals, Sequences, FiniteSets, Functions

CONSTANTS
    Thread,     \* pages that hold a struct thread
    Main,       \* initial_thread
    Idle,       \* idle_thread
    Lock,       \* locks
    TidLock,    \* the lock of allocate_tid
    Sema,       \* semaphores used by threads
    DeviceSema, \* those that an interrupt handler may up
    Cond,       \* condition variables
    CondLock,   \* the lock that goes with each of them
    None,
    TimeSlice,  \* TIME_SLICE
    MaxValue,   \* bound on the values of semaphores
    MaxTid      \* bound on thread identifiers

ASSUME SynchAssumption ==
    /\ {Main, Idle} \subseteq Thread
    /\ Main # Idle
    /\ None \notin Thread
    /\ IsFiniteSet(Thread)
    /\ TidLock \in Lock
    /\ DeviceSema \subseteq Sema
    /\ CondLock \in [Cond -> Lock \ {TidLock}]
    /\ TimeSlice \in Nat \ {0}
    /\ MaxValue \in Nat \ {0}
    /\ MaxTid \in Nat

\* The four kinds of object are different things.
ASSUME ObjectAssumption ==
    /\ Thread \cap (Lock \cup Sema \cup Cond) = {}
    /\ Lock \cap (Sema \cup Cond) = {}
    /\ Sema \cap Cond = {}
    /\ None \notin Lock \cup Sema \cup Cond

VARIABLES
    status,         \* status of each thread, "free" if the page is not in use
    cur,            \* the running thread
    ready_list,
    thread_ticks,
    value, waiters, \* fields of each semaphore
    holder,         \* field of each lock
    cond_waiters,   \* waiters of each condition variable
    pc,             \* where each thread is
    obj,            \* the object its current call is about
    child,          \* the thread that it is creating, or None
    tid, next_tid,
    held            \* history: locks that each thread has acquired and not begun to release

sched == <<status, cur, ready_list, thread_ticks>>
vars == <<sched, value, waiters, holder, cond_waiters, pc, obj, child, tid, next_tid, held>>

-----------------------------------------------------------------------------

Semaphore == Sema \cup Lock \cup Thread

PC == {"run",        \* in its own code (idle: halted)
       "woken",      \* idle after an interrupt
       "acquire",    \* entering sema_down
       "own",        \* lock_acquire: after sema_down, before holder is set
       "up",         \* lock_release: after holder is cleared, before sema_up
       "down",       \* in the loop of sema_down, interrupts off
       "tid",        \* allocate_tid: next_tid read, not yet incremented
       "broadcast"}  \* in the loop of cond_broadcast

\* The semaphore that the current call of t works on: in cond_wait, first its own.
SemaOf(t) == IF obj[t] \in Cond THEN t ELSE obj[t]

Init ==
    /\ status = [t \in Thread |-> IF t = Main THEN "running"
                                  ELSE IF t = Idle THEN "blocked" ELSE "free"]
    /\ cur = Main
    /\ ready_list = <<>>
    /\ thread_ticks = 0
    /\ value = [s \in Semaphore |-> IF s \in Lock THEN 1 ELSE 0]
    /\ waiters = [s \in Semaphore |-> <<>>]
    /\ holder = [l \in Lock |-> None]
    /\ cond_waiters = [c \in Cond |-> <<>>]
    /\ pc = [t \in Thread |-> "run"]
    /\ obj = [t \in Thread |-> None]
    /\ child = [t \in Thread |-> None]
    /\ tid = [t \in Thread |-> IF t = Main THEN 1 ELSE IF t = Idle THEN 2 ELSE 0]
    /\ next_tid = 3
    /\ held = [t \in Thread |-> {}]

-----------------------------------------------------------------------------
(* Scheduling.                                                             *)

\* schedule, with the running thread's status st and the ready list rl: switch to
\* the first ready thread (or idle), whose thread_schedule_tail starts a time
\* slice and frees the page of a thread that was dying.
Schedule(st, rl) ==
    LET next == IF rl = <<>> THEN Idle ELSE Head(rl) IN
    /\ status' = [status EXCEPT
                     ![cur] = IF st = "dying" /\ cur # Main THEN "free" ELSE st,
                     ![next] = "running"]
    /\ cur' = next
    /\ ready_list' = IF rl = <<>> THEN rl ELSE Tail(rl)
    /\ thread_ticks' = 0

ThreadBlock == Schedule("blocked", ready_list)

ThreadUnblock(t) ==
    /\ status' = [status EXCEPT ![t] = "ready"]
    /\ ready_list' = Append(ready_list, t)
    /\ UNCHANGED <<cur, thread_ticks>>

\* Mutant of ThreadYield: idle goes on the ready list too.
ThreadYieldIdle == Schedule("ready", Append(ready_list, cur))

\* Mutant of ThreadYield: the thread goes to the front of the list.
ThreadYieldFront ==
    Schedule("ready", IF cur = Idle THEN ready_list ELSE <<cur>> \o ready_list)

ThreadYield ==
    Schedule("ready", IF cur = Idle THEN ready_list ELSE Append(ready_list, cur))

InterruptsOn == pc[cur] # "down"


\* An interrupt takes idle out of hlt.
Interrupted == pc' = IF cur = Idle THEN [pc EXCEPT ![Idle] = "woken"] ELSE pc

TimerInterrupt ==
    /\ InterruptsOn
    /\ Interrupted
    /\ IF thread_ticks + 1 >= TimeSlice
       THEN ThreadYield
       ELSE thread_ticks' = thread_ticks + 1 /\ UNCHANGED <<status, cur, ready_list>>
    /\ UNCHANGED <<value, waiters, holder, cond_waiters, obj, child, tid, next_tid, held>>

\* The running thread is in its own code and may call anything.
Running == cur # Idle /\ pc[cur] = "run" /\ child[cur] = None

Yield ==
    /\ Running
    /\ ThreadYield
    /\ UNCHANGED <<value, waiters, holder, cond_waiters, pc, obj, child, tid, next_tid, held>>

\* The loop of idle.
IdleBlock ==
    /\ cur = Idle
    /\ pc[Idle] = "woken"
    /\ ThreadBlock
    /\ pc' = [pc EXCEPT ![Idle] = "run"]
    /\ UNCHANGED <<value, waiters, holder, cond_waiters, obj, child, tid, next_tid, held>>

-----------------------------------------------------------------------------
(* Semaphores and locks.                                                   *)

\* Mutant of SemaUp: nobody is woken when the value was not 0.
SemaUpFromZero(s) ==
    /\ value' = [value EXCEPT ![s] = @ + 1]
    /\ IF waiters[s] = <<>> \/ value[s] > 0
       THEN UNCHANGED <<sched, waiters>>
       ELSE /\ ThreadUnblock(Head(waiters[s]))
            /\ waiters' = [waiters EXCEPT ![s] = Tail(@)]

SemaUp(s) ==
    /\ value' = [value EXCEPT ![s] = @ + 1]
    /\ IF waiters[s] = <<>>
       THEN UNCHANGED <<sched, waiters>>
       ELSE /\ ThreadUnblock(Head(waiters[s]))
            /\ waiters' = [waiters EXCEPT ![s] = Tail(@)]

\* An iteration of the loop of sema_down.  What follows it is the caller's:
\* lock_acquire sets the holder, cond_wait acquires its lock again.
SemaDown ==
    LET s == SemaOf(cur) IN
    /\ pc[cur] \in {"acquire", "down"}
    /\ IF value[s] = 0
       THEN /\ waiters' = [waiters EXCEPT ![s] = Append(@, cur)]
            /\ ThreadBlock
            /\ pc' = [pc EXCEPT ![cur] = "down"]
            /\ UNCHANGED <<value, obj>>
       ELSE /\ value' = [value EXCEPT ![s] = @ - 1]
            /\ pc' = [pc EXCEPT ![cur] = CASE s \in Sema -> "run"
                                           [] s \in Lock -> "own"
                                           [] s \in Thread -> "acquire"]
            /\ obj' = [obj EXCEPT ![cur] = CASE s \in Sema -> None
                                             [] s \in Lock -> s
                                             [] s \in Thread -> CondLock[@]]
            /\ UNCHANGED <<sched, waiters>>
    /\ UNCHANGED <<holder, cond_waiters, child, tid, next_tid, held>>

\* Calls of sema_down and of lock_acquire, which asserts that the caller does
\* not hold the lock.
CallDown(o) ==
    /\ Running
    /\ o \in Lock => o \notin held[cur]
    /\ pc' = [pc EXCEPT ![cur] = "acquire"]
    /\ obj' = [obj EXCEPT ![cur] = o]
    /\ UNCHANGED <<sched, value, waiters, holder, cond_waiters, child, tid, next_tid, held>>

\* Mutant of TryDown: the value is tested and not decremented.
TryDownFree(o) ==
    /\ Running
    /\ o \in Lock => o \notin held[cur]
    /\ value[o] > 0
    /\ pc' = [pc EXCEPT ![cur] = IF o \in Lock THEN "own" ELSE "run"]
    /\ obj' = [obj EXCEPT ![cur] = IF o \in Lock THEN o ELSE None]
    /\ UNCHANGED <<sched, value, waiters, holder, cond_waiters, child, tid, next_tid, held>>

\* sema_try_down and lock_try_acquire, where the value is not 0: otherwise they
\* change nothing.
TryDown(o) ==
    /\ Running
    /\ o \in Lock => o \notin held[cur]
    /\ value[o] > 0
    /\ value' = [value EXCEPT ![o] = @ - 1]
    /\ pc' = [pc EXCEPT ![cur] = IF o \in Lock THEN "own" ELSE "run"]
    /\ obj' = [obj EXCEPT ![cur] = IF o \in Lock THEN o ELSE None]
    /\ UNCHANGED <<sched, waiters, holder, cond_waiters, child, tid, next_tid, held>>

\* The end of lock_acquire and of lock_try_acquire.
SetHolder ==
    /\ pc[cur] = "own"
    /\ holder' = [holder EXCEPT ![obj[cur]] = cur]
    /\ held' = [held EXCEPT ![cur] = @ \cup {obj[cur]}]
    /\ pc' = [pc EXCEPT ![cur] = "run"]
    /\ obj' = [obj EXCEPT ![cur] = None]
    /\ UNCHANGED <<sched, value, waiters, cond_waiters, child, tid, next_tid>>

CallUp(s) ==
    /\ Running
    /\ value[s] < MaxValue
    /\ SemaUp(s)
    /\ UNCHANGED <<holder, cond_waiters, pc, obj, child, tid, next_tid, held>>

\* The first statement of lock_release.
ClearHolder(l) ==
    /\ holder' = [holder EXCEPT ![l] = None]
    /\ held' = [held EXCEPT ![cur] = @ \ {l}]
    /\ pc' = [pc EXCEPT ![cur] = "up"]

LockRelease(l) ==
    /\ Running
    /\ l \in held[cur]
    /\ ClearHolder(l)
    /\ obj' = [obj EXCEPT ![cur] = l]
    /\ UNCHANGED <<sched, value, waiters, cond_waiters, child, tid, next_tid>>

\* The second; in cond_wait, sema_down follows.
ReleaseUp ==
    /\ pc[cur] = "up"
    /\ SemaUp(IF obj[cur] \in Cond THEN CondLock[obj[cur]] ELSE obj[cur])
    /\ pc' = [pc EXCEPT ![cur] = IF obj[cur] \in Cond THEN "acquire" ELSE "run"]
    /\ obj' = [obj EXCEPT ![cur] = IF @ \in Cond THEN @ ELSE None]
    /\ UNCHANGED <<holder, cond_waiters, child, tid, next_tid, held>>

-----------------------------------------------------------------------------
(* Condition variables.                                                    *)

\* cond_wait, up to the first statement of its lock_release.
CondWait(c) ==
    /\ Running
    /\ CondLock[c] \in held[cur]
    /\ cond_waiters' = [cond_waiters EXCEPT ![c] = Append(@, cur)]
    /\ value' = [value EXCEPT ![cur] = 0]
    /\ waiters' = [waiters EXCEPT ![cur] = <<>>]
    /\ ClearHolder(CondLock[c])
    /\ obj' = [obj EXCEPT ![cur] = c]
    /\ UNCHANGED <<sched, child, tid, next_tid>>

\* Mutant of Signal: the waiter stays on the list.
SignalKeep(c) ==
    /\ SemaUp(Head(cond_waiters[c]))
    /\ UNCHANGED cond_waiters

\* cond_signal, where someone waits, and an iteration of cond_broadcast.
Signal(c) ==
    /\ SemaUp(Head(cond_waiters[c]))
    /\ cond_waiters' = [cond_waiters EXCEPT ![c] = Tail(@)]

CondSignal(c) ==
    /\ Running
    /\ CondLock[c] \in held[cur]
    /\ cond_waiters[c] # <<>>
    /\ Signal(c)
    /\ UNCHANGED <<holder, pc, obj, child, tid, next_tid, held>>

CondBroadcast(c) ==
    /\ Running
    /\ CondLock[c] \in held[cur]
    /\ cond_waiters[c] # <<>>
    /\ pc' = [pc EXCEPT ![cur] = "broadcast"]
    /\ obj' = [obj EXCEPT ![cur] = c]
    /\ UNCHANGED <<sched, value, waiters, holder, cond_waiters, child, tid, next_tid, held>>

Broadcast ==
    LET c == obj[cur] IN
    /\ pc[cur] = "broadcast"
    /\ Signal(c)
    /\ pc' = [pc EXCEPT ![cur] = IF Len(cond_waiters[c]) = 1 THEN "run" ELSE @]
    /\ obj' = [obj EXCEPT ![cur] = IF Len(cond_waiters[c]) = 1 THEN None ELSE @]
    /\ UNCHANGED <<holder, child, tid, next_tid, held>>

-----------------------------------------------------------------------------
(* Creation and end of threads.                                            *)

\* init_thread: a thread starts blocked.
InitThread(t) == status' = [status EXCEPT ![t] = "blocked"]

\* thread_create, up to lock_acquire in allocate_tid.
ThreadCreate(t) ==
    /\ Running
    /\ status[t] = "free"
    /\ next_tid <= MaxTid
    /\ InitThread(t)
    /\ child' = [child EXCEPT ![cur] = t]
    /\ pc' = [pc EXCEPT ![cur] = "acquire"]
    /\ obj' = [obj EXCEPT ![cur] = TidLock]
    /\ UNCHANGED <<cur, ready_list, thread_ticks, value, waiters, holder, cond_waiters,
                   tid, next_tid, held>>

\* tid = next_tid++ is a load and a store, the lock is released after it.
LoadTid ==
    /\ cur # Idle
    /\ pc[cur] = "run"
    /\ child[cur] # None
    /\ TidLock \in held[cur]
    /\ tid' = [tid EXCEPT ![child[cur]] = next_tid]
    /\ pc' = [pc EXCEPT ![cur] = "tid"]
    /\ UNCHANGED <<sched, value, waiters, holder, cond_waiters, obj, child, next_tid, held>>

StoreTid ==
    /\ pc[cur] = "tid"
    /\ next_tid' = tid[child[cur]] + 1
    /\ ClearHolder(TidLock)
    /\ obj' = [obj EXCEPT ![cur] = TidLock]
    /\ UNCHANGED <<sched, value, waiters, cond_waiters, child, tid>>

\* The rest of thread_create.
UnblockChild ==
    /\ cur # Idle
    /\ pc[cur] = "run"
    /\ child[cur] # None
    /\ TidLock \notin held[cur]
    /\ ThreadUnblock(child[cur])
    /\ child' = [child EXCEPT ![cur] = None]
    /\ UNCHANGED <<value, waiters, holder, cond_waiters, pc, obj, tid, next_tid, held>>

\* A thread that holds no lock ends.
ThreadExit ==
    /\ Running
    /\ held[cur] = {}
    /\ Schedule("dying", ready_list)
    /\ tid' = [tid EXCEPT ![cur] = IF cur = Main THEN @ ELSE 0]
    /\ UNCHANGED <<value, waiters, holder, cond_waiters, pc, obj, child, next_tid, held>>

-----------------------------------------------------------------------------

\* The handler of a device ups a semaphore.
DeviceInterrupt(s) ==
    /\ InterruptsOn
    /\ value[s] < MaxValue
    /\ Interrupted
    /\ SemaUp(s)
    /\ UNCHANGED <<holder, cond_waiters, obj, child, tid, next_tid, held>>

\* What a thread, once it has called, does next.
Continue ==
    \/ SemaDown
    \/ SetHolder
    \/ ReleaseUp
    \/ Broadcast
    \/ LoadTid
    \/ StoreTid
    \/ UnblockChild
    \/ IdleBlock

Call ==
    \/ \E o \in Sema \cup (Lock \ {TidLock}) : CallDown(o) \/ TryDown(o)
    \/ \E s \in Sema : CallUp(s)
    \/ \E l \in Lock \ {TidLock} : LockRelease(l)
    \/ \E c \in Cond : CondWait(c) \/ CondSignal(c) \/ CondBroadcast(c)
    \/ \E t \in Thread : ThreadCreate(t)
    \/ ThreadExit
    \/ Yield

Next ==
    \/ Continue
    \/ Call
    \/ TimerInterrupt
    \/ \E s \in DeviceSema : DeviceInterrupt(s)

\* The processor runs, and the timer interrupts it for ever.
Fairness == WF_vars(Continue) /\ WF_vars(TimerInterrupt)

Spec == Init /\ [][Next]_vars /\ Fairness

-----------------------------------------------------------------------------
(* Properties.                                                             *)

\* Every variable holds a value of its kind (thread.c, synch.c).
TypeOK ==
    /\ status \in [Thread -> {"free", "blocked", "ready", "running", "dying"}]
    /\ cur \in Thread
    /\ ready_list \in Seq(Thread)
    /\ thread_ticks \in 0..(TimeSlice - 1)
    /\ value \in [Semaphore -> Nat]
    /\ waiters \in [Semaphore -> Seq(Thread)]
    /\ holder \in [Lock -> Thread \cup {None}]
    /\ cond_waiters \in [Cond -> Seq(Thread)]
    /\ pc \in [Thread -> PC]
    /\ obj \in [Thread -> Sema \cup Lock \cup Cond \cup {None}]
    /\ child \in [Thread -> Thread \cup {None}]
    /\ tid \in [Thread -> Nat]
    /\ next_tid \in Nat
    /\ held \in [Thread -> SUBSET Lock]

\* The state is well typed, and a thread's elem is in one list at a time: the ready list when it is ready, the
\* waiters of one semaphore when it sleeps, none when it runs.  list_push_back on
\* an element of another list would break both (thread.h, struct thread).
ListsConsistent ==
    /\ TypeOK
    /\ \A t \in Thread : status[t] = "running" <=> t = cur
    /\ IsInjective(ready_list)
    /\ \A t \in Thread \ {Idle} :
          /\ status[t] = "ready" <=> t \in Range(ready_list)
          /\ status[t] = "blocked" /\ (\A u \in Thread : child[u] # t)
             <=> \E s \in Semaphore : t \in Range(waiters[s])
    /\ \A s \in Semaphore :
          /\ IsInjective(waiters[s])
          /\ \A t \in Range(waiters[s]) : pc[t] = "down" /\ s = SemaOf(t)
    /\ Idle \notin Range(ready_list)

\* Threads that took the semaphore of lock l and have not put it back.
Inside(l) ==
    {t \in Thread :
        \/ l \in held[t]
        \/ pc[t] = "own" /\ obj[t] = l
        \/ pc[t] = "up" /\ obj[t] \in {l} \cup {c \in Cond : CondLock[c] = l}}

\* Locks exclude: a lock has one holder at a time, the thread that acquired it,
\* and its semaphore is 1 only when nobody has it (lock_acquire, lock_release);
\* and what a lock protects is right: the identifiers are unique (allocate_tid).
MutualExclusion ==
    /\ \A l \in Lock :
          /\ Cardinality(Inside(l)) + value[l] = 1
          /\ \A t \in Thread : l \in held[t] <=> holder[l] = t
    /\ \A t, u \in {v \in Thread : status[v] # "free" /\ tid[v] # 0} :
          tid[t] = tid[u] => t = u

\* Threads that sema_up has woken on s and that have not run since.
Woken(s) == {t \in Thread : pc[t] = "down" /\ SemaOf(t) = s /\ status[t] # "blocked"}

\* No wakeup is lost: while threads sleep on a semaphore whose value is not 0, as
\* many have been woken to take it (sema_up, and the loop of sema_down).
NoLostWakeup ==
    \A s \in Semaphore : waiters[s] # <<>> => value[s] <= Cardinality(Woken(s))

\* A thread in cond_wait is still among the condition's waiters or has been
\* signalled, and not both: a signal between the release of the lock and the
\* sleep is kept, and none is delivered twice (cond_wait, cond_signal).
SignalDelivered ==
    \A t \in Thread :
        LET waits == {c \in Cond : t \in Range(cond_waiters[c])} IN
        IF obj[t] \in Cond /\ pc[t] \in {"up", "acquire", "down"}
        THEN \/ waits = {obj[t]} /\ value[t] = 0
             \/ waits = {} /\ value[t] = 1
        ELSE waits = {}

\* Round robin is fair: a ready thread runs, whatever the others do
\* (thread_tick, thread_yield, next_thread_to_run).
ReadyRuns ==
    \A t \in Thread \ {Idle} : status[t] = "ready" ~> status[t] = "running"
=============================================================================
