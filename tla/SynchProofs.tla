----------------------------- MODULE SynchProofs ----------------------------
(***************************************************************************)
(* The safety properties of Synch hold for every set of threads, locks,    *)
(* semaphores and condition variables: what every step does to the ready   *)
(* list and to the waiters of the semaphores, and the theorems.            *)
(***************************************************************************)
EXTENDS SynchLocks, FiniteSetTheorems

\* schedule: one thread runs, the ready list holds the others that are ready.
LEMMA ScheduleReady ==
    ASSUME SchedOK, Ready, NEW st \in {"ready", "blocked", "dying"}, NEW rl,
           \/ rl = Append(ready_list, cur) /\ cur # Idle /\ st = "ready"
           \/ rl = ready_list /\ (st = "ready" => cur = Idle),
           Schedule(st, rl)
    PROVE  /\ Ready'
           /\ cur' # Idle /\ cur' # cur => status[cur'] = "ready"
           /\ cur # Idle /\ st # "ready" => cur' # cur
           /\ \A t \in Thread : status'[t] = IF t = cur' THEN "running"
                                             ELSE IF t = cur THEN After(st) ELSE status[t]
<1>0. /\ status \in [Thread -> {"free", "blocked", "ready", "running", "dying"}]
      /\ cur \in Thread /\ Idle \in Thread
      /\ ready_list \in Seq(Thread)
      /\ status[cur] = "running"
      /\ \A t \in Thread : status[t] = "running" => t = cur
      /\ IsInjective(ready_list)
      /\ Idle \notin Range(ready_list)
      /\ \A t \in Thread \ {Idle} : status[t] = "ready" <=> t \in Range(ready_list)
  BY SynchAssumption, Zenon DEF SchedOK, Ready
<1>1. /\ rl \in Seq(Thread)
      /\ IsInjective(rl)
      /\ Range(rl) = IF cur # Idle /\ st = "ready" THEN Range(ready_list) \cup {cur}
                     ELSE Range(ready_list)
  <2>1. CASE rl = Append(ready_list, cur) /\ cur # Idle /\ st = "ready"
    <3>1. cur \notin Range(ready_list)
      BY <1>0, <2>1, Zenon
    <3> QED
      BY <3>1, <1>0, <2>1, AppendRange, AppendElement
  <2>2. CASE rl = ready_list /\ (st = "ready" => cur = Idle)
    BY <2>2, <1>0, Zenon
  <2> QED
    BY <2>1, <2>2, Zenon
<1>2. Range(rl) \subseteq Thread \ {Idle}
  BY <1>0, <1>1, RangeOfSequence
<1>3. /\ cur' = IF rl = <<>> THEN Idle ELSE Head(rl)
      /\ ready_list' = IF rl = <<>> THEN rl ELSE Tail(rl)
      /\ status' = [status EXCEPT ![cur] = After(st), ![cur'] = "running"]
  BY Zenon DEF Schedule, After
<1>4. /\ cur' \in Thread
      /\ cur' # Idle => cur' \in Range(rl)
      /\ IsInjective(ready_list')
      /\ Range(ready_list') = Range(rl) \ {cur'}
  <2>1. CASE rl = <<>>
    <3>1. Range(rl) = {}
      BY <2>1 DEF Range
    <3> QED
      BY <3>1, <2>1, <1>3, <1>1, <1>0, Zenon
  <2>2. CASE rl # <<>>
    <3>1. /\ Head(rl) \in Range(rl)
          /\ Range(Tail(rl)) = Range(rl) \ {Head(rl)}
          /\ IsInjective(Tail(rl))
      BY <2>2, <1>1, TailRange, Zenon
    <3> QED
      BY <3>1, <2>2, <1>2, <1>3, Zenon
  <2> QED
    BY <2>1, <2>2, Zenon
<1>5. \A t \in Thread : status'[t] = IF t = cur' THEN "running"
                                     ELSE IF t = cur THEN After(st) ELSE status[t]
  BY <1>0, <1>3, <1>4, Zenon
<1>6. After(st) \in {"free", "blocked", "ready", "dying"} /\ (After(st) = "ready" <=> st = "ready")
  BY Zenon DEF After
<1>7. \A t \in Thread : status'[t] = "running" <=> t = cur'
  BY <1>0, <1>5, <1>6, Zenon
<1>8. \A t \in Thread \ {Idle} : status'[t] = "ready" <=> t \in Range(ready_list')
  BY <1>0, <1>1, <1>4, <1>5, <1>6, Zenon
<1>9. cur' # Idle /\ cur' # cur => status[cur'] = "ready"
  BY <1>0, <1>1, <1>4, Zenon
<1>10. cur # Idle /\ st # "ready" => cur' # cur
  BY <1>0, <1>1, <1>4, Zenon
<1> QED
  BY <1>2, <1>4, <1>5, <1>7, <1>8, <1>9, <1>10, Zenon DEF Ready

\* thread_unblock puts a sleeping thread at the end of the list.
LEMMA UnblockReady ==
    ASSUME SchedOK, Ready, NEW t \in Thread, t # Idle, status[t] = "blocked", ThreadUnblock(t)
    PROVE  /\ Ready'
           /\ cur' = cur
           /\ \A u \in Thread : status'[u] = IF u = t THEN "ready" ELSE status[u]
<1>0. /\ status \in [Thread -> {"free", "blocked", "ready", "running", "dying"}]
      /\ ready_list \in Seq(Thread)
      /\ t \notin Range(ready_list)
  BY Zenon DEF SchedOK, Ready
<1>1. /\ cur' = cur
      /\ \A u \in Thread : status'[u] = IF u = t THEN "ready" ELSE status[u]
  BY <1>0, Zenon DEF ThreadUnblock
<1>2. Range(ready_list') = Range(ready_list) \cup {t} /\ IsInjective(ready_list')
  BY <1>0, AppendRange DEF ThreadUnblock, Ready
<1> QED
  BY <1>1, <1>2, Zenon DEF Ready

\* A thread that sleeps on a semaphore is not the running one, so that it keeps
\* its place.
LEMMA Sleeper ==
    ASSUME TypeOK, Ready, Sleep, \A t \in Thread : Shape(t), OthersKept,
           NEW s \in Semaphore, NEW t \in Range(waiters[s])
    PROVE  /\ t \in Thread /\ t # cur /\ t # Idle
           /\ status[t] = "blocked" /\ pc[t] = "down" /\ pc'[t] = "down"
           /\ SemaOf(t) = s /\ SemaOf(t)' = s
<1>1. waiters[s] \in Seq(Thread) /\ Idle \in Thread
  BY SynchAssumption, Zenon DEF TypeOK
<1>2. t \in Thread
  BY <1>1, RangeOfSequence, Zenon
<1>3. status[t] = "blocked" /\ pc[t] = "down" /\ SemaOf(t) = s
  BY Zenon DEF Sleep
<1>4. t # cur
  BY <1>2, <1>3, Zenon DEF Ready
<1>5. t # Idle
  BY <1>1, <1>3, Zenon DEF Shape
<1>6. pc'[t] = pc[t] /\ obj'[t] = obj[t]
  BY <1>2, <1>4, Zenon DEF OthersKept
<1> QED
  BY <1>2, <1>3, <1>4, <1>5, <1>6, Zenon DEF SemaOf

\* The semaphores of a step that wakes nobody and puts nobody to sleep.
LEMMA QuietSleep ==
    ASSUME TypeOK, Ready, Sleep, \A t \in Thread : Shape(t), OthersKept,
           waiters' = waiters, child' = child,
           \A t \in Thread \ {Idle} : status'[t] = "blocked" <=> status[t] = "blocked"
    PROVE  Sleep'
<1>1. ASSUME NEW s \in Semaphore
      PROVE  /\ IsInjective(waiters'[s])
             /\ \A t \in Range(waiters'[s]) :
                   status'[t] = "blocked" /\ pc'[t] = "down" /\ s = SemaOf(t)'
  BY Sleeper, Zenon DEF Sleep
<1>2. ASSUME NEW t \in Thread \ {Idle}, status'[t] = "blocked"
      PROVE  \/ \E u \in Thread : child'[u] = t
             \/ \E s \in Semaphore : t \in Range(waiters'[s])
  BY <1>2, Zenon DEF Sleep
<1> QED
  BY <1>1, <1>2, Zenon DEF Sleep

LEMMA QuietWoken ==
    ASSUME TypeOK, Ready, \A t \in Thread : Shape(t), OthersKept,
           pc[cur] # "down", pc'[cur] # "down",
           waiters' = waiters,
           \A s \in Semaphore : value'[s] <= value[s],
           \A t \in Thread \ {Idle} : status'[t] = "blocked" <=> status[t] = "blocked",
           value' \in [Semaphore -> Nat], NoLostWakeup
    PROVE  NoLostWakeup'
<1>1. ASSUME NEW s \in Semaphore PROVE Woken(s)' = Woken(s)
  <2>1. ASSUME NEW t \in Thread
        PROVE  /\ pc'[t] = "down" <=> pc[t] = "down"
               /\ pc[t] = "down" => /\ SemaOf(t)' = SemaOf(t)
                                    /\ status'[t] = "blocked" <=> status[t] = "blocked"
    <3>1. CASE t = cur
      BY <3>1, Zenon
    <3>2. CASE t # cur
      <4>1. pc'[t] = pc[t] /\ obj'[t] = obj[t]
        BY <3>2, Zenon DEF OthersKept
      <4>2. pc[t] = "down" => t # Idle
        BY Zenon DEF Shape
      <4> QED
        BY <4>1, <4>2, Zenon DEF SemaOf
    <3> QED
      BY <3>1, <3>2, Zenon
  <2> QED
    BY <2>1, Zenon DEF Woken
<1>2. \A s \in Semaphore : value[s] \in Nat /\ value'[s] \in Nat
  BY Zenon DEF TypeOK
<1>3. \A s \in Semaphore : Cardinality(Woken(s)) \in Nat
  <2>1. \A s \in Semaphore : Woken(s) \subseteq Thread
    BY Zenon DEF Woken
  <2> QED
    BY <2>1, SynchAssumption, FS_Subset, FS_CardinalityType, Zenon
<1> QED
  BY <1>1, <1>2, <1>3 DEF NoLostWakeup

\* The woken threads of a semaphore are finitely many.
LEMMA WokenFinite ==
    ASSUME NEW s
    PROVE  /\ IsFiniteSet(Woken(s)) /\ Cardinality(Woken(s)) \in Nat
           /\ Cardinality(Woken(s)') \in Nat
<1>1. Woken(s) \subseteq Thread /\ Woken(s)' \subseteq Thread
  BY Zenon DEF Woken
<1> QED
  BY <1>1, SynchAssumption, FS_Subset, FS_CardinalityType, Zenon

\* sema_up with a sleeper: the first one is ready, the others sleep on.
LEMMA UpEffect ==
    ASSUME TypeOK, Ready, Sleep, \A t \in Thread : Shape(t), OthersKept,
           NEW s \in Semaphore, SemaUp(s), waiters[s] # <<>>, child' = child
    PROVE  LET t == Head(waiters[s]) IN
           /\ t \in Range(waiters[s])
           /\ Ready' /\ Sleep'
           /\ cur' = cur
           /\ \A u \in Thread : status'[u] = IF u = t THEN "ready" ELSE status[u]
           /\ waiters' = [waiters EXCEPT ![s] = Tail(@)]
<1> DEFINE t == Head(waiters[s])
<1>0. waiters \in [Semaphore -> Seq(Thread)] /\ SchedOK
  BY TypeParts, Zenon DEF SemaOK
<1>1. ThreadUnblock(t) /\ waiters' = [waiters EXCEPT ![s] = Tail(@)]
  BY Zenon DEF SemaUp
<1>2. /\ t \in Range(waiters[s])
      /\ Range(Tail(waiters[s])) = Range(waiters[s]) \ {t}
      /\ IsInjective(Tail(waiters[s]))
  BY <1>0, TailRange, Zenon DEF Sleep
<1>3. t \in Thread /\ t # Idle /\ status[t] = "blocked" /\ SemaOf(t) = s
  BY <1>2, Sleeper, Zenon
<1> HIDE DEF t
<1>4. /\ Ready' /\ cur' = cur
      /\ \A u \in Thread : status'[u] = IF u = t THEN "ready" ELSE status[u]
  BY <1>0, <1>1, <1>3, UnblockReady, Zenon
<1>5. ASSUME NEW r \in Semaphore
      PROVE  /\ IsInjective(waiters'[r])
             /\ Range(waiters'[r]) = Range(waiters[r]) \ {t}
  <2>1. CASE r = s
    BY <2>1, <1>0, <1>1, <1>2, Zenon
  <2>2. CASE r # s
    <3>1. t \notin Range(waiters[r])
      BY <1>3, <2>2, Sleeper, Zenon
    <3> QED
      BY <2>2, <3>1, <1>0, <1>1, Zenon DEF Sleep
  <2> QED
    BY <2>1, <2>2, Zenon
<1>6. ASSUME NEW r \in Semaphore, NEW u \in Range(waiters'[r])
      PROVE  status'[u] = "blocked" /\ pc'[u] = "down" /\ r = SemaOf(u)'
  BY <1>4, <1>5, Sleeper, Zenon
<1>7. ASSUME NEW u \in Thread \ {Idle}, status'[u] = "blocked"
      PROVE  \/ \E v \in Thread : child'[v] = u
             \/ \E r \in Semaphore : u \in Range(waiters'[r])
  <2>1. status[u] = "blocked" /\ u # t
    BY <1>4, <1>7, Zenon
  <2> QED
    BY <2>1, <1>5, Zenon DEF Sleep
<1>8. Sleep'
  BY <1>5, <1>6, <1>7, Zenon DEF Sleep
<1> QED
  BY <1>1, <1>2, <1>4, <1>8, Zenon DEF t

\* sema_up keeps the lists, and counts for each unit of the value a woken thread.
LEMMA UpNext ==
    ASSUME TypeOK, Ready, Sleep, \A t \in Thread : Shape(t), OthersKept, NoLostWakeup,
           NEW s \in Semaphore, SemaUp(s), child' = child,
           pc[cur] # "down", pc'[cur] # "down"
    PROVE  /\ Ready' /\ Sleep' /\ NoLostWakeup'
           /\ cur' = cur
           /\ \A t \in Thread : status'[t] # status[t] =>
                 status[t] = "blocked" /\ status'[t] = "ready" /\ pc[t] = "down"
           /\ \A r \in Semaphore : value'[r] = IF r = s THEN value[r] + 1 ELSE value[r]
<1>0. value \in [Semaphore -> Nat] /\ value' = [value EXCEPT ![s] = @ + 1]
  BY Zenon DEF TypeOK, SemaUp
<1>1. \A r \in Semaphore : value'[r] = IF r = s THEN value[r] + 1 ELSE value[r]
  BY <1>0, Zenon
<1>2. CASE waiters[s] = <<>>
  <2>1. status' = status /\ cur' = cur /\ ready_list' = ready_list /\ waiters' = waiters
    BY <1>2, Zenon DEF SemaUp, sched
  <2>2. Ready'
    BY <2>1, Zenon DEF Ready
  <2>3. Sleep'
    BY <2>1, QuietSleep, Zenon
  <2>4. ASSUME NEW r \in Semaphore, waiters'[r] # <<>>
        PROVE  value'[r] <= Cardinality(Woken(r))'
    <3>1. r # s /\ value'[r] = value[r] /\ waiters[r] # <<>>
      BY <1>1, <1>2, <2>1, <2>4, Zenon
    <3>2. Woken(r)' = Woken(r)
      BY <2>1, Zenon DEF Woken, SemaOf, OthersKept
    <3> QED
      BY <3>1, <3>2, Zenon DEF NoLostWakeup
  <2> QED
    BY <1>1, <2>1, <2>2, <2>3, <2>4, Zenon DEF NoLostWakeup
<1>3. CASE waiters[s] # <<>>
  <2>1. PICK t \in Range(waiters[s]) :
           /\ Ready' /\ Sleep' /\ cur' = cur
           /\ \A u \in Thread : status'[u] = IF u = t THEN "ready" ELSE status[u]
           /\ waiters' = [waiters EXCEPT ![s] = Tail(@)]
    BY <1>3, UpEffect, Zenon
  <2>2. /\ t \in Thread /\ t # cur /\ status[t] = "blocked" /\ pc[t] = "down" /\ pc'[t] = "down"
        /\ SemaOf(t) = s /\ SemaOf(t)' = s
    BY Sleeper, Zenon
  <2>3. ASSUME NEW r \in Semaphore, waiters'[r] # <<>>
        PROVE  value'[r] <= Cardinality(Woken(r))'
    <3>1. \A u \in Thread \ {t} : u \in Woken(r)' <=> u \in Woken(r)
      BY <2>1, Zenon DEF Woken, SemaOf, OthersKept
    <3>2. t \in Woken(r)' <=> r = s
      BY <2>1, <2>2, Zenon DEF Woken
    <3>3. t \notin Woken(r)
      BY <2>2, Zenon DEF Woken
    <3>4. Woken(r) \subseteq Thread /\ Woken(r)' \subseteq Thread
      BY Zenon DEF Woken
    <3>5. CASE r # s
      <4>1. Woken(r)' = Woken(r)
        BY <3>1, <3>2, <3>3, <3>4, <3>5
      <4>2. value'[r] = value[r] /\ waiters'[r] = waiters[r]
        BY <1>1, <2>1, <3>5, Zenon DEF TypeOK
      <4> QED
        BY <4>1, <4>2, <2>3, Zenon DEF NoLostWakeup
    <3>6. CASE r = s
      <4>1. Woken(s)' = Woken(s) \cup {t}
        BY <3>1, <3>2, <3>4, <3>6, <2>2, Zenon
      <4>2. Cardinality(Woken(s) \cup {t}) = Cardinality(Woken(s)) + 1
        BY <3>3, <3>6, WokenFinite, FS_AddElement, Zenon
      <4>3. value[s] <= Cardinality(Woken(s)) /\ value[s] \in Nat
        BY <1>0, <1>3, Zenon DEF NoLostWakeup
      <4>4. value'[s] = value[s] + 1 /\ Cardinality(Woken(s)) \in Nat
        BY <1>1, WokenFinite, Zenon
      <4> HIDE DEF Woken
      <4>5. value'[s] <= Cardinality(Woken(s) \cup {t})
        BY <4>2, <4>3, <4>4
      <4> QED
        BY <4>1, <4>5, <3>6, Zenon
    <3> QED
      BY <3>5, <3>6, Zenon
  <2> QED
    BY <1>1, <2>1, <2>2, <2>3, Zenon DEF NoLostWakeup
<1> QED
  BY <1>2, <1>3, Zenon

\* A thread that yields or ends, or idle that blocks: nobody else's sleep changes.
LEMMA SwitchNext ==
    ASSUME TypeOK, Ready, Sleep, \A t \in Thread : Shape(t), OthersKept, NoLostWakeup,
           NEW st \in {"ready", "blocked", "dying"}, NEW rl,
           \/ rl = Append(ready_list, cur) /\ cur # Idle /\ st = "ready"
           \/ rl = ready_list /\ (st = "ready" => cur = Idle),
           Schedule(st, rl), st = "blocked" => cur = Idle,
           pc[cur] # "down", pc'[cur] # "down",
           waiters' = waiters, value' = value, child' = child
    PROVE  /\ Ready' /\ Sleep' /\ NoLostWakeup'
           /\ \A t \in Thread : status'[t] = IF t = cur' THEN "running"
                                             ELSE IF t = cur THEN After(st) ELSE status[t]
<1>0. /\ SchedOK /\ cur \in Thread
      /\ \A r \in Semaphore : value[r] \in Nat
      /\ value' \in [Semaphore -> Nat]
  BY TypeParts, Zenon DEF TypeOK
<1>1. /\ Ready'
      /\ cur' # Idle /\ cur' # cur => status[cur'] = "ready"
      /\ \A t \in Thread : status'[t] = IF t = cur' THEN "running"
                                        ELSE IF t = cur THEN After(st) ELSE status[t]
  BY <1>0, ScheduleReady, Zenon
<1>2. status[cur] = "running" /\ (After(st) = "blocked" => cur = Idle)
  BY <1>0, Zenon DEF Ready, After
<1>3. \A t \in Thread \ {Idle} : status'[t] = "blocked" <=> status[t] = "blocked"
  BY <1>1, <1>2, Zenon
<1>4. Sleep'
  BY <1>3, QuietSleep, Zenon
<1>5. NoLostWakeup'
  BY <1>0, <1>3, QuietWoken
<1> QED
  BY <1>1, <1>4, <1>5, Zenon

\* sema_down that finds 0: the running thread sleeps on the semaphore.
LEMMA BlockNext ==
    ASSUME TypeOK, Ready, Sleep, \A t \in Thread : Shape(t), OthersKept, NoLostWakeup,
           SemaDown, value[SemaOf(cur)] = 0
    PROVE  /\ Ready' /\ Sleep' /\ NoLostWakeup'
           /\ \A t \in Thread : status'[t] = IF t = cur' THEN "running"
                                             ELSE IF t = cur THEN "blocked" ELSE status[t]
<1>0. /\ SchedOK /\ cur \in Thread /\ pc[cur] \in {"acquire", "down"} /\ Shape(cur)
      /\ pc \in [Thread -> PC] /\ waiters \in [Semaphore -> Seq(Thread)]
      /\ status[cur] = "running"
  BY TypeParts, Zenon DEF TypeOK, Ready, SemaDown
<1>1. PICK s \in Semaphore : s = SemaOf(cur)
  BY <1>0, PlaceFacts, Zenon
<1>2. /\ value[s] = 0
      /\ waiters' = [waiters EXCEPT ![s] = Append(@, cur)]
      /\ Schedule("blocked", ready_list)
      /\ pc' = [pc EXCEPT ![cur] = "down"]
      /\ value' = value /\ obj' = obj /\ child' = child
  BY <1>1, Zenon DEF SemaDown, ThreadBlock
<1>3. cur # Idle
  BY <1>0, Zenon DEF Shape
<1>4. After("blocked") = "blocked"
  BY Zenon DEF After
<1>5. /\ Ready'
      /\ cur' # Idle /\ cur' # cur => status[cur'] = "ready"
      /\ cur' # cur
      /\ \A t \in Thread : status'[t] = IF t = cur' THEN "running"
                                        ELSE IF t = cur THEN "blocked" ELSE status[t]
  BY <1>0, <1>2, <1>3, <1>4, ScheduleReady, Zenon
<1>6. PICK me \in Thread : me = cur
  BY <1>0, Zenon
<1>7. status'[me] = "blocked" /\ pc'[me] = "down" /\ SemaOf(me)' = s
  <2>1. status'[me] = "blocked" /\ pc'[me] = "down"
    BY <1>0, <1>2, <1>5, <1>6, Zenon
  <2> QED
    BY <2>1, <1>1, <1>2, <1>6, Zenon DEF SemaOf
<1>8. \A t \in Thread \ {Idle, me} : status'[t] = "blocked" <=> status[t] = "blocked"
  BY <1>5, <1>6, Zenon
<1>9. me \notin Range(waiters[s])
  BY <1>0, <1>6, Zenon DEF Sleep
<1>10. ASSUME NEW r \in Semaphore
       PROVE  /\ IsInjective(waiters'[r])
              /\ Range(waiters'[r]) = IF r = s THEN Range(waiters[r]) \cup {me} ELSE Range(waiters[r])
  <2>1. CASE r = s
    BY <2>1, <1>0, <1>2, <1>6, <1>9, AppendRange DEF Sleep
  <2>2. CASE r # s
    BY <2>2, <1>0, <1>2, Zenon DEF Sleep
  <2> QED
    BY <2>1, <2>2, Zenon
<1>11. Sleep'
  <2>1. ASSUME NEW r \in Semaphore, NEW t \in Range(waiters'[r])
        PROVE  status'[t] = "blocked" /\ pc'[t] = "down" /\ r = SemaOf(t)'
    <3>1. CASE t \in Range(waiters[r])
      BY <3>1, <1>6, <1>8, Sleeper, Zenon
    <3>2. CASE r = s /\ t = me
      BY <3>2, <1>7, Zenon
    <3> QED
      BY <3>1, <3>2, <1>10, Zenon
  <2>2. ASSUME NEW t \in Thread \ {Idle}, status'[t] = "blocked"
        PROVE  \/ \E u \in Thread : child'[u] = t
               \/ \E r \in Semaphore : t \in Range(waiters'[r])
    <3>1. CASE t = me
      <4>1. me \in Range(waiters'[s])
        BY <1>10, Zenon
      <4> QED
        BY <4>1, <3>1, Zenon
    <3>2. CASE t # me
      <4>1. (\E u \in Thread : child[u] = t) \/ (\E r \in Semaphore : t \in Range(waiters[r]))
        BY <2>2, <3>2, <1>8, Zenon DEF Sleep
      <4>2. \A r \in Semaphore : Range(waiters[r]) \subseteq Range(waiters'[r])
        BY <1>10, Zenon
      <4> QED
        BY <4>1, <4>2, <1>2, Zenon
    <3> QED
      BY <3>1, <3>2, Zenon
  <2> QED
    BY <2>1, <2>2, <1>10, Zenon DEF Sleep
<1>12. NoLostWakeup'
  <2>1. ASSUME NEW r \in Semaphore, waiters'[r] # <<>>
        PROVE  value'[r] <= Cardinality(Woken(r)')
    <3>1. CASE r = s
      BY <3>1, <1>2, WokenFinite
    <3>2. CASE r # s
      <4>1. me \notin Woken(r) /\ me \notin Woken(r)'
        BY <3>2, <1>1, <1>6, <1>7, Zenon DEF Woken
      <4>2. ASSUME NEW t \in Thread \ {me} PROVE t \in Woken(r)' <=> t \in Woken(r)
        <5>1. pc'[t] = pc[t] /\ obj'[t] = obj[t]
          BY <1>6, Zenon DEF OthersKept
        <5>2. pc[t] = "down" => t # Idle
          BY Zenon DEF Shape
        <5> QED
          BY <5>1, <5>2, <1>8, Zenon DEF Woken, SemaOf
      <4>3. Woken(r)' = Woken(r)
        BY <4>1, <4>2, Zenon DEF Woken
      <4>4. value'[r] = value[r] /\ waiters'[r] = waiters[r]
        BY <1>0, <1>2, <3>2, Zenon
      <4> QED
        BY <4>3, <4>4, <2>1, Zenon DEF NoLostWakeup
    <3> QED
      BY <3>1, <3>2, Zenon
  <2> QED
    BY <2>1, Zenon DEF NoLostWakeup
<1> QED
  BY <1>5, <1>11, <1>12, Zenon

\* sema_down that finds a unit: one unit less, and one woken thread less at most.
LEMMA TakeNext ==
    ASSUME TypeOK, Ready, Sleep, \A t \in Thread : Shape(t), OthersKept, NoLostWakeup,
           SemaDown, value[SemaOf(cur)] # 0
    PROVE  Ready' /\ Sleep' /\ NoLostWakeup'
<1>0. /\ cur \in Thread /\ pc[cur] \in {"acquire", "down"} /\ Shape(cur)
      /\ pc \in [Thread -> PC] /\ value \in [Semaphore -> Nat]
  BY Zenon DEF TypeOK, SemaDown
<1>1. PICK s \in Semaphore : s = SemaOf(cur)
  BY <1>0, PlaceFacts, Zenon
<1>2. /\ value' = [value EXCEPT ![s] = @ - 1]
      /\ pc' = [pc EXCEPT ![cur] = CASE s \in Sema -> "run"
                                     [] s \in Lock -> "own"
                                     [] s \in Thread -> "acquire"]
      /\ status' = status /\ cur' = cur /\ ready_list' = ready_list /\ waiters' = waiters
      /\ child' = child
  BY <1>1, Zenon DEF SemaDown, sched
<1>3. value[s] \in Nat \ {0}
  BY <1>0, <1>1, Zenon
<1>4. pc'[cur] # "down"
  BY <1>0, <1>2, Zenon DEF Semaphore
<1>5. Ready'
  BY <1>2, Zenon DEF Ready
<1>6. Sleep'
  BY <1>2, QuietSleep, Zenon
<1>7. \A r \in Semaphore : /\ \A t \in Thread \ {cur} : t \in Woken(r)' <=> t \in Woken(r)
                           /\ cur \notin Woken(r)'
                           /\ r # s => cur \notin Woken(r)
  BY <1>0, <1>1, <1>2, <1>4, Zenon DEF Woken, SemaOf, OthersKept
<1>8. NoLostWakeup'
  <2>1. ASSUME NEW r \in Semaphore, waiters'[r] # <<>>
        PROVE  value'[r] <= Cardinality(Woken(r)')
    <3>0. Woken(r) \subseteq Thread /\ Woken(r)' \subseteq Thread
      BY Zenon DEF Woken
    <3>1. value[r] <= Cardinality(Woken(r)) /\ value[r] \in Nat
      BY <2>1, <1>0, <1>2, Zenon DEF NoLostWakeup
    <3>2. CASE cur \notin Woken(r)
      <4>1. Woken(r)' = Woken(r)
        BY <3>0, <3>2, <1>7
      <4>2. value'[r] \in Nat /\ value'[r] <= value[r]
        BY <1>0, <1>2, <1>3
      <4> QED
        BY <4>1, <4>2, <3>1, WokenFinite
    <3>3. CASE cur \in Woken(r)
      <4>1. Woken(r)' = Woken(r) \ {cur} /\ r = s
        BY <3>0, <3>3, <1>7, Zenon
      <4>2. Cardinality(Woken(r) \ {cur}) = Cardinality(Woken(r)) - 1
        BY <3>3, WokenFinite, FS_RemoveElement, Zenon
      <4>3. value'[r] = value[r] - 1
        BY <4>1, <1>0, <1>2, Zenon
      <4>4. Cardinality(Woken(r)) \in Nat
        BY WokenFinite, Zenon
      <4> QED
        BY <4>1, <4>2, <4>3, <4>4, <3>1
    <3> QED
      BY <3>2, <3>3, Zenon
  <2> QED
    BY <2>1, Zenon DEF NoLostWakeup
<1> QED
  BY <1>5, <1>6, <1>8, Zenon

\* thread_create: the new thread sleeps until its creator unblocks it.
LEMMA CreateNext ==
    ASSUME TypeOK, Ready, Sleep, \A t \in Thread : Shape(t), OthersKept, NoLostWakeup,
           NEW n \in Thread, ThreadCreate(n)
    PROVE  Ready' /\ Sleep' /\ NoLostWakeup'
<1>0. /\ cur \in Thread /\ Shape(n) /\ pc[n] = "run" /\ status[n] = "free" /\ n # Idle
      /\ pc[cur] # "down" /\ pc'[cur] # "down" /\ child[cur] = None /\ child'[cur] = n
      /\ pc \in [Thread -> PC] /\ child \in [Thread -> Thread \cup {None}]
      /\ status \in [Thread -> {"free", "blocked", "ready", "running", "dying"}]
  BY Zenon DEF TypeOK, ThreadCreate, Running, Shape
<1>1. /\ \A t \in Thread : status'[t] = IF t = n THEN "blocked" ELSE status[t]
      /\ cur' = cur /\ ready_list' = ready_list /\ waiters' = waiters /\ value' = value
  BY <1>0, Zenon DEF ThreadCreate, InitThread
<1>2. Ready'
  BY <1>0, <1>1 DEF Ready
<1>3. ASSUME NEW s \in Semaphore, NEW t \in Range(waiters[s])
      PROVE  status'[t] = "blocked" /\ pc'[t] = "down" /\ SemaOf(t)' = s
  <2>1. /\ t \in Thread /\ status[t] = "blocked" /\ pc'[t] = "down" /\ SemaOf(t)' = s
    BY Sleeper, Zenon
  <2> QED
    BY <2>1, <1>1, Zenon
<1>4. ASSUME NEW t \in Thread \ {Idle}, status'[t] = "blocked"
      PROVE  \/ \E u \in Thread : child'[u] = t
             \/ \E s \in Semaphore : t \in Range(waiters'[s])
  <2>1. CASE t = n
    BY <2>1, <1>0, Zenon
  <2>2. CASE t # n
    <3>1. (\E u \in Thread : child[u] = t) \/ (\E s \in Semaphore : t \in Range(waiters[s]))
      BY <2>2, <1>1, <1>4, Zenon DEF Sleep
    <3>2. \A u \in Thread : child[u] = t => child'[u] = t
      BY <1>0, SynchAssumption, Zenon DEF OthersKept
    <3> QED
      BY <3>1, <3>2, <1>1, Zenon
  <2> QED
    BY <2>1, <2>2, Zenon
<1>5. Sleep'
  BY <1>1, <1>3, <1>4, Zenon DEF Sleep
<1>6. ASSUME NEW s \in Semaphore PROVE Woken(s)' = Woken(s)
  <2>1. ASSUME NEW t \in Thread PROVE t \in Woken(s)' <=> t \in Woken(s)
    <3>1. CASE t = cur
      BY <3>1, <1>0, Zenon DEF Woken
    <3>2. CASE t # cur
      <4>1. pc'[t] = pc[t] /\ obj'[t] = obj[t]
        BY <3>2, Zenon DEF OthersKept
      <4> QED
        BY <4>1, <1>0, <1>1, Zenon DEF Woken, SemaOf
    <3> QED
      BY <3>1, <3>2, Zenon
  <2> QED
    BY <2>1, Zenon DEF Woken
<1>7. NoLostWakeup'
  BY <1>1, <1>6, Zenon DEF NoLostWakeup
<1> QED
  BY <1>2, <1>5, <1>7, Zenon

\* The end of thread_create: the new thread is ready.
LEMMA UnblockChildNext ==
    ASSUME TypeOK, Ready, Sleep, \A t \in Thread : Shape(t), Creation, OthersKept, NoLostWakeup,
           UnblockChild
    PROVE  /\ Ready' /\ Sleep' /\ NoLostWakeup'
           /\ cur' = cur
           /\ \A t \in Thread : status'[t] = IF t = child[cur] THEN "ready" ELSE status[t]
<1>0. /\ SchedOK /\ cur \in Thread /\ pc[cur] = "run" /\ pc' = pc /\ obj' = obj
      /\ child \in [Thread -> Thread \cup {None}]
      /\ child[cur] # None
      /\ waiters' = waiters /\ value' = value /\ child' = [child EXCEPT ![cur] = None]
  BY TypeParts, Zenon DEF TypeOK, UnblockChild
<1>1. PICK n \in Thread : n = child[cur] /\ n # Idle /\ status[n] = "blocked" /\ pc[n] = "run"
  BY <1>0, Zenon DEF Creation
<1>2. ThreadUnblock(n)
  BY <1>1, Zenon DEF UnblockChild
<1>3. /\ Ready' /\ cur' = cur
      /\ \A t \in Thread : status'[t] = IF t = n THEN "ready" ELSE status[t]
  BY <1>0, <1>1, <1>2, UnblockReady, Zenon
<1>4. ASSUME NEW s \in Semaphore, NEW t \in Range(waiters[s])
      PROVE  status'[t] = "blocked" /\ pc'[t] = "down" /\ SemaOf(t)' = s
  <2>1. /\ t \in Thread /\ status[t] = "blocked" /\ pc[t] = "down" /\ pc'[t] = "down"
        /\ SemaOf(t)' = s
    BY Sleeper, Zenon
  <2> QED
    BY <2>1, <1>1, <1>3, Zenon
<1>5. ASSUME NEW t \in Thread \ {Idle}, status'[t] = "blocked"
      PROVE  \/ \E u \in Thread : child'[u] = t
             \/ \E s \in Semaphore : t \in Range(waiters'[s])
  <2>1. status[t] = "blocked" /\ t # n
    BY <1>3, <1>5, Zenon
  <2>2. (\E u \in Thread : child[u] = t) \/ (\E s \in Semaphore : t \in Range(waiters[s]))
    BY <2>1, Zenon DEF Sleep
  <2>3. \A u \in Thread : child[u] = t => child'[u] = t
    BY <2>1, <1>0, <1>1, Zenon
  <2> QED
    BY <2>2, <2>3, <1>0, Zenon
<1>6. Sleep'
  <2>1. \A s \in Semaphore : IsInjective(waiters'[s])
    BY <1>0, Zenon DEF Sleep
  <2> QED
    BY <1>0, <1>4, <1>5, <2>1, Zenon DEF Sleep
<1>7. \A s \in Semaphore : Woken(s)' = Woken(s)
  BY <1>0, <1>1, <1>3, Zenon DEF Woken, SemaOf
<1>8. NoLostWakeup'
  BY <1>0, <1>7, Zenon DEF NoLostWakeup
<1> QED
  BY <1>1, <1>3, <1>6, <1>8, Zenon

\* A step that leaves the scheduler and the waiters alone.
LEMMA StillNext ==
    ASSUME TypeOK, TypeOK', Ready, Sleep, \A t \in Thread : Shape(t), OthersKept, NoLostWakeup,
           status' = status, cur' = cur, ready_list' = ready_list,
           waiters' = waiters, child' = child,
           pc[cur] # "down", pc'[cur] # "down",
           \A s \in Semaphore : value'[s] <= value[s]
    PROVE  Ready' /\ Sleep' /\ NoLostWakeup' /\ StatusKept
<1>1. Ready'
  BY Zenon DEF Ready
<1>2. Sleep'
  BY QuietSleep, Zenon
<1>3. value' \in [Semaphore -> Nat]
  BY Zenon DEF TypeOK
<1>4. NoLostWakeup'
  BY <1>3, QuietWoken, Zenon
<1>5. StatusKept
  BY Zenon DEF StatusKept
<1> QED
  BY <1>1, <1>2, <1>4, <1>5, Zenon

\* Every step keeps the lists, and loses no wakeup.
LEMMA ListNext ==
    ASSUME TypeOK, TypeOK', OthersKept, Ready, Sleep, \A t \in Thread : Shape(t), Creation,
           NoLostWakeup, Next
    PROVE  Ready' /\ Sleep' /\ NoLostWakeup' /\ StatusKept
<1>0. /\ cur \in Thread /\ Shape(cur) /\ status[cur] = "running"
      /\ pc \in [Thread -> PC] /\ child \in [Thread -> Thread \cup {None}]
      /\ value \in [Semaphore -> Nat] /\ waiters \in [Semaphore -> Seq(Thread)]
      /\ Sema \subseteq Semaphore /\ Lock \subseteq Semaphore /\ Thread \subseteq Semaphore
      /\ Idle \in Thread /\ TidLock \in Lock /\ DeviceSema \subseteq Sema
      /\ CondLock \in [Cond -> Lock]
      /\ pc[Idle] \in {"run", "woken"}
  BY SynchAssumption, Zenon DEF TypeOK, Semaphore, Ready, Shape
<1>a. value' = value => \A s \in Semaphore : value'[s] <= value[s]
  BY <1>0
<1>b. ASSUME NEW s \in Semaphore, SemaUp(s), child' = child, pc[cur] # "down", pc'[cur] # "down"
      PROVE  Ready' /\ Sleep' /\ NoLostWakeup' /\ StatusKept
  <2>1. /\ Ready' /\ Sleep' /\ NoLostWakeup'
        /\ \A t \in Thread : status'[t] # status[t] =>
              status[t] = "blocked" /\ status'[t] = "ready" /\ pc[t] = "down"
    BY <1>b, UpNext, Zenon
  <2>2. StatusKept
    BY <2>1, Zenon DEF StatusKept
  <2> QED
    BY <2>1, <2>2, Zenon
<1>c. ASSUME ThreadYield, pc[cur] # "down", pc'[cur] # "down",
             waiters' = waiters, value' = value, child' = child
      PROVE  Ready' /\ Sleep' /\ NoLostWakeup' /\ StatusKept
  <2>1. PICK rl : /\ Schedule("ready", rl)
                  /\ \/ rl = Append(ready_list, cur) /\ cur # Idle
                     \/ rl = ready_list /\ cur = Idle
    BY <1>c, Zenon DEF ThreadYield
  <2>2. /\ Ready' /\ Sleep' /\ NoLostWakeup'
        /\ \A t \in Thread : status'[t] = IF t = cur' THEN "running"
                                          ELSE IF t = cur THEN After("ready") ELSE status[t]
    BY <2>1, <1>c, SwitchNext, Zenon
  <2>3. After("ready") = "ready"
    BY Zenon DEF After
  <2>4. cur' # Idle /\ cur' # cur => status[cur'] = "ready"
    <3>1. SchedOK
      BY TypeParts, Zenon
    <3> QED
      BY <3>1, <2>1, ScheduleReady, Zenon
  <2>5. StatusKept
    BY <2>2, <2>3, <2>4, <1>0, Zenon DEF StatusKept
  <2> QED
    BY <2>2, <2>5, Zenon
<1> DEFINE Goal == Ready' /\ Sleep' /\ NoLostWakeup' /\ StatusKept
<1>1. CASE SemaDown
  <2>0. pc[cur] \in {"acquire", "down"}
    BY <1>1, Zenon DEF SemaDown
  <2>1. CASE value[SemaOf(cur)] = 0
    <3>1. /\ Ready' /\ Sleep' /\ NoLostWakeup'
          /\ \A t \in Thread : status'[t] = IF t = cur' THEN "running"
                                            ELSE IF t = cur THEN "blocked" ELSE status[t]
      BY <1>1, <2>1, BlockNext, Zenon
    <3>2. cur' # Idle /\ cur' # cur => status[cur'] = "ready"
      <4>1. SchedOK /\ Schedule("blocked", ready_list)
        BY <1>1, <2>1, TypeParts, Zenon DEF SemaDown, ThreadBlock
      <4> QED
        BY <4>1, ScheduleReady, Zenon
    <3>3. StatusKept
      BY <3>1, <3>2, <1>0, Zenon DEF StatusKept
    <3> QED
      BY <3>1, <3>3, Zenon
  <2>2. CASE value[SemaOf(cur)] # 0
    <3>1. Ready' /\ Sleep' /\ NoLostWakeup'
      BY <1>1, <2>2, TakeNext, Zenon
    <3>2. status' = status
      BY <1>1, <2>2, Zenon DEF SemaDown, sched
    <3>3. StatusKept
      BY <3>2, Zenon DEF StatusKept
    <3> QED
      BY <3>1, <3>3, Zenon
  <2> QED
    BY <2>1, <2>2, Zenon
<1>2. CASE SetHolder
  <2>1. /\ status' = status /\ cur' = cur /\ ready_list' = ready_list
        /\ waiters' = waiters /\ child' = child /\ value' = value
        /\ pc[cur] # "down" /\ pc'[cur] # "down"
    BY <1>2, <1>0, Zenon DEF SetHolder, sched
  <2> QED
    BY <2>1, <1>a, StillNext, Zenon
<1>3. CASE ReleaseUp
  <2>1. LockOf(cur) \in Semaphore /\ SemaUp(LockOf(cur))
    BY <1>0, <1>3, PlaceFacts, Zenon DEF ReleaseUp
  <2>2. child' = child /\ pc[cur] # "down" /\ pc'[cur] # "down"
    BY <1>0, <1>3, Zenon DEF ReleaseUp
  <2> QED
    BY <2>1, <2>2, <1>b, Zenon
<1>4. CASE Broadcast
  <2>1. obj[cur] \in Cond /\ Head(cond_waiters[obj[cur]]) \in Semaphore
    BY <1>0, <1>4, PlaceFacts, Zenon DEF Broadcast
  <2>2. SemaUp(Head(cond_waiters[obj[cur]])) /\ child' = child /\ pc[cur] # "down" /\ pc'[cur] # "down"
    BY <1>0, <1>4, Zenon DEF Broadcast, Signal
  <2> QED
    BY <2>1, <2>2, <1>b, Zenon
<1>5. CASE LoadTid
  <2>1. /\ status' = status /\ cur' = cur /\ ready_list' = ready_list
        /\ waiters' = waiters /\ child' = child /\ value' = value
        /\ pc[cur] # "down" /\ pc'[cur] # "down"
    BY <1>5, <1>0, Zenon DEF LoadTid, sched
  <2> QED
    BY <2>1, <1>a, StillNext, Zenon
<1>6. CASE StoreTid
  <2>1. /\ status' = status /\ cur' = cur /\ ready_list' = ready_list
        /\ waiters' = waiters /\ child' = child /\ value' = value
        /\ pc[cur] # "down" /\ pc'[cur] # "down"
    BY <1>6, <1>0, Zenon DEF StoreTid, ClearHolder, sched
  <2> QED
    BY <2>1, <1>a, StillNext, Zenon
<1>7. CASE UnblockChild
  <2>1. /\ Ready' /\ Sleep' /\ NoLostWakeup'
        /\ \A t \in Thread : status'[t] = IF t = child[cur] THEN "ready" ELSE status[t]
    BY <1>7, UnblockChildNext, Zenon
  <2>2. StatusKept
    BY <2>1, <1>7, Zenon DEF StatusKept
  <2> QED
    BY <2>1, <2>2, Zenon
<1>8. CASE IdleBlock
  <2>1. /\ Schedule("blocked", ready_list) /\ cur = Idle
        /\ pc[cur] # "down" /\ pc'[cur] # "down"
        /\ waiters' = waiters /\ value' = value /\ child' = child
    BY <1>8, <1>0, Zenon DEF IdleBlock, ThreadBlock
  <2>2. /\ Ready' /\ Sleep' /\ NoLostWakeup'
        /\ \A t \in Thread : status'[t] = IF t = cur' THEN "running"
                                          ELSE IF t = cur THEN After("blocked") ELSE status[t]
    BY <2>1, SwitchNext, Zenon
  <2>3. cur' # Idle /\ cur' # cur => status[cur'] = "ready"
    BY <2>1, TypeParts, ScheduleReady, Zenon
  <2>4. After("blocked") = "blocked"
    BY Zenon DEF After
  <2>5. StatusKept
    BY <2>2, <2>3, <2>4, <1>0, Zenon DEF StatusKept
  <2> QED
    BY <2>2, <2>5, Zenon
<1>9. CASE \E o \in Sema \cup (Lock \ {TidLock}) : CallDown(o)
  <2>1. PICK o \in Sema \cup (Lock \ {TidLock}) : CallDown(o)
    BY <1>9, Zenon
  <2>2. /\ status' = status /\ cur' = cur /\ ready_list' = ready_list
        /\ waiters' = waiters /\ child' = child /\ value' = value
        /\ pc[cur] # "down" /\ pc'[cur] # "down"
    BY <2>1, <1>0, Zenon DEF CallDown, Running, sched
  <2> QED
    BY <2>2, <1>a, StillNext, Zenon
<1>10. CASE \E o \in Sema \cup (Lock \ {TidLock}) : TryDown(o)
  <2>1. PICK o \in Semaphore : TryDown(o)
    BY <1>10, <1>0, Zenon
  <2>2. /\ status' = status /\ cur' = cur /\ ready_list' = ready_list
        /\ waiters' = waiters /\ child' = child
        /\ pc[cur] # "down" /\ pc'[cur] # "down"
    BY <2>1, <1>0, Zenon DEF TryDown, Running, sched
  <2>3. \A s \in Semaphore : value'[s] <= value[s]
    BY <2>1, <1>0 DEF TryDown
  <2> QED
    BY <2>2, <2>3, StillNext, Zenon
<1>11. CASE \E s \in Sema : CallUp(s)
  <2>1. PICK s \in Semaphore : CallUp(s)
    BY <1>11, <1>0, Zenon
  <2>2. SemaUp(s) /\ child' = child /\ pc[cur] # "down" /\ pc'[cur] # "down"
    BY <2>1, Zenon DEF CallUp, Running
  <2> QED
    BY <2>2, <1>b, Zenon
<1>12. CASE \E l \in Lock \ {TidLock} : LockRelease(l)
  <2>1. PICK l \in Lock : LockRelease(l)
    BY <1>12, Zenon
  <2>2. /\ status' = status /\ cur' = cur /\ ready_list' = ready_list
        /\ waiters' = waiters /\ child' = child /\ value' = value
        /\ pc[cur] # "down" /\ pc'[cur] # "down"
    BY <2>1, <1>0, Zenon DEF LockRelease, Running, ClearHolder, sched
  <2> QED
    BY <2>2, <1>a, StillNext, Zenon
<1>13. CASE \E c \in Cond : CondWait(c)
  <2>1. PICK c \in Cond : CondWait(c)
    BY <1>13, Zenon
  <2>2. waiters[cur] = <<>>
    <3>1. SUFFICES ASSUME waiters[cur] # <<>> PROVE FALSE
      BY Zenon
    <3>2. Head(waiters[cur]) \in Range(waiters[cur])
      BY <3>1, <1>0, TailRange, Zenon DEF Sleep
    <3>3. PICK t \in Thread : t # cur /\ SemaOf(t) = cur
      BY <3>2, <1>0, Sleeper, Zenon
    <3> QED
      BY <3>3, <1>0, ObjectAssumption, SynchAssumption, Zenon DEF SemaOf, TypeOK
  <2>3. /\ status' = status /\ cur' = cur /\ ready_list' = ready_list
        /\ waiters' = waiters /\ child' = child
        /\ pc[cur] # "down" /\ pc'[cur] # "down"
    BY <2>1, <2>2, <1>0, Zenon DEF CondWait, Running, ClearHolder, sched
  <2>4. \A s \in Semaphore : value'[s] <= value[s]
    BY <2>1, <1>0 DEF CondWait
  <2> QED
    BY <2>3, <2>4, StillNext, Zenon
<1>14. CASE \E c \in Cond : CondSignal(c)
  <2>1. PICK c \in Cond : CondSignal(c)
    BY <1>14, Zenon
  <2>2. /\ cond_waiters[c] \in Seq(Thread) /\ cond_waiters[c] # <<>>
        /\ SemaUp(Head(cond_waiters[c])) /\ child' = child /\ pc[cur] # "down" /\ pc'[cur] # "down"
    BY <2>1, Zenon DEF CondSignal, Signal, Running, TypeOK
  <2>3. Head(cond_waiters[c]) \in Semaphore
    BY <2>2, <1>0, HeadTail, Zenon
  <2> QED
    BY <2>2, <2>3, <1>b, Zenon
<1>15. CASE \E c \in Cond : CondBroadcast(c)
  <2>1. PICK c \in Cond : CondBroadcast(c)
    BY <1>15, Zenon
  <2>2. /\ status' = status /\ cur' = cur /\ ready_list' = ready_list
        /\ waiters' = waiters /\ child' = child /\ value' = value
        /\ pc[cur] # "down" /\ pc'[cur] # "down"
    BY <2>1, <1>0, Zenon DEF CondBroadcast, Running, sched
  <2> QED
    BY <2>2, <1>a, StillNext, Zenon
<1>16. CASE \E t \in Thread : ThreadCreate(t)
  <2>1. PICK n \in Thread : ThreadCreate(n)
    BY <1>16, Zenon
  <2>2. Ready' /\ Sleep' /\ NoLostWakeup'
    BY <2>1, CreateNext, Zenon
  <2>3. \A t \in Thread : status'[t] = IF t = n THEN "blocked" ELSE status[t]
    BY <2>1, Zenon DEF ThreadCreate, InitThread, TypeOK
  <2>4. StatusKept
    BY <2>3, Zenon DEF StatusKept
  <2> QED
    BY <2>2, <2>4, Zenon
<1>17. CASE ThreadExit
  <2>1. /\ Schedule("dying", ready_list) /\ cur # Idle
        /\ pc[cur] # "down" /\ pc'[cur] # "down"
        /\ waiters' = waiters /\ value' = value /\ child' = child
    BY <1>17, Zenon DEF ThreadExit, Running
  <2>2. /\ Ready' /\ Sleep' /\ NoLostWakeup'
        /\ \A t \in Thread : status'[t] = IF t = cur' THEN "running"
                                          ELSE IF t = cur THEN After("dying") ELSE status[t]
    BY <2>1, SwitchNext, Zenon
  <2>3. cur' # Idle /\ cur' # cur => status[cur'] = "ready"
    BY <2>1, TypeParts, ScheduleReady, Zenon
  <2>4. StatusKept
    BY <2>2, <2>3, <1>17, <1>0, Zenon DEF StatusKept
  <2> QED
    BY <2>2, <2>4, Zenon
<1>18. CASE Yield
  <2>1. /\ ThreadYield /\ pc[cur] # "down" /\ pc'[cur] # "down"
        /\ waiters' = waiters /\ value' = value /\ child' = child
    BY <1>18, Zenon DEF Yield, Running
  <2> QED
    BY <2>1, <1>c, Zenon
<1>19. CASE TimerInterrupt
  <2>1. /\ Interrupted /\ pc[cur] # "down"
        /\ IF thread_ticks + 1 >= TimeSlice
           THEN ThreadYield
           ELSE UNCHANGED <<status, cur, ready_list>>
        /\ waiters' = waiters /\ value' = value /\ child' = child
    BY <1>19, Zenon DEF TimerInterrupt, InterruptsOn
  <2>2. pc'[cur] # "down"
    BY <2>1, <1>0, Zenon DEF Interrupted
  <2>3. CASE thread_ticks + 1 >= TimeSlice
    BY <2>1, <2>2, <2>3, <1>c, Zenon
  <2>4. CASE ~ (thread_ticks + 1 >= TimeSlice)
    <3>1. status' = status /\ cur' = cur /\ ready_list' = ready_list
      BY <2>1, <2>4, Zenon
    <3> QED
      BY <3>1, <2>1, <2>2, <1>a, StillNext, Zenon
  <2> QED
    BY <2>3, <2>4, Zenon
<1>20. CASE \E s \in DeviceSema : DeviceInterrupt(s)
  <2>1. PICK s \in Semaphore : DeviceInterrupt(s)
    BY <1>20, <1>0, Zenon
  <2>2. SemaUp(s) /\ child' = child /\ pc[cur] # "down" /\ Interrupted
    BY <2>1, Zenon DEF DeviceInterrupt, InterruptsOn
  <2>3. pc'[cur] # "down"
    BY <2>2, <1>0, Zenon DEF Interrupted
  <2> QED
    BY <2>2, <2>3, <1>b, Zenon
<1> HIDE DEF Goal
<1> QED
  BY NextCases, <1>1, <1>2, <1>3, <1>4, <1>5, <1>6, <1>7, <1>8, <1>9, <1>10, <1>11, <1>12,
     <1>13, <1>14, <1>15, <1>16, <1>17, <1>18, <1>19, <1>20, Zenon

-----------------------------------------------------------------------------
(* The theorems.                                                           *)

\* The kernel starts in the invariant (thread_init, thread_start).
LEMMA InvInit ==
    ASSUME Init
    PROVE  IInv
<1>0. /\ Main \in Thread /\ Idle \in Thread /\ Main # Idle /\ None \notin Thread
      /\ 0 \in 0..(TimeSlice - 1) /\ <<>> \in Seq(Thread)
  BY SynchAssumption, EmptySequence
<1>1. TypeOK
  BY <1>0, Zenon DEF Init, TypeOK, PC, Semaphore
<1>2. Range(<<>>) = {} /\ IsInjective(<<>>)
  BY DEF Range, IsInjective
<1>3. Ready
  BY <1>0, <1>2, Zenon DEF Init, Ready
<1>4. Sleep
  BY <1>0, <1>2, Zenon DEF Init, Sleep
<1>5. \A t \in Thread : Shape(t)
  BY <1>0, Zenon DEF Init, Shape
<1>6. Creation
  BY <1>0, Zenon DEF Init, Creation
<1>7. Locks
  <2>1. ASSUME NEW l \in Lock PROVE Inside(l) = {} /\ value[l] = 1
    BY Zenon DEF Init, Inside, Semaphore
  <2>2. \A l \in Lock, t \in Thread : l \notin held[t] /\ holder[l] # t
    BY <1>0, Zenon DEF Init
  <2> QED
    BY <2>1, <2>2, Zenon DEF Locks
<1>8. Tids
  BY <1>0 DEF Init, Tids
<1>9. Conds
  <2>1. \A c \in Cond : IsInjective(cond_waiters[c]) /\ Range(cond_waiters[c]) = {}
    BY <1>2, Zenon DEF Init
  <2>2. \A t \in Thread : pc[t] = "run"
    BY Zenon DEF Init
  <2> QED
    BY <2>1, <2>2, Zenon DEF Conds, SignalDelivered
<1>10. NoLostWakeup
  BY Zenon DEF Init, NoLostWakeup
<1> QED
  BY <1>1, <1>3, <1>4, <1>5, <1>6, <1>7, <1>8, <1>9, <1>10, Zenon DEF IInv

\* Every step keeps the invariant.
LEMMA InvNext ==
    ASSUME IInv, [Next]_vars
    PROVE  IInv'
<1>0. /\ TypeOK /\ Ready /\ Sleep /\ \A t \in Thread : Shape(t)
      /\ Creation /\ Locks /\ Tids /\ Conds /\ NoLostWakeup
  BY Zenon DEF IInv
<1>1. CASE Next
  <2>1. TypeOK' /\ OthersKept
    BY <1>0, <1>1, TypeNext, Zenon
  <2>2. Ready' /\ Sleep' /\ NoLostWakeup' /\ StatusKept
    BY <1>0, <1>1, <2>1, ListNext, Zenon
  <2>3. Frame
    BY <1>1, FrameNext, Zenon
  <2>4. Creation'
    BY <1>0, <2>1, <2>2, <2>3, CreationNext, Zenon
  <2>5. ASSUME NEW t \in Thread PROVE Shape(t)'
    <3>1. CASE t = cur
      BY <3>1, <1>0, <1>1, <2>1, <2>2, <2>3, RunnerShape, Zenon
    <3>2. CASE t # cur
      BY <3>2, <1>0, <2>1, <2>2, <2>3, OtherShape, Zenon
    <3> QED
      BY <3>1, <3>2, Zenon
  <2>6. Locks'
    BY <1>0, <1>1, <2>1, <2>3, <2>5, LocksNext, Zenon
  <2>7. Tids'
    BY <1>0, <1>1, <2>1, <2>3, TidsNext, Zenon
  <2>8. Conds'
    BY <1>0, <1>1, <2>1, CondsNext, Zenon
  <2> QED
    BY <2>1, <2>2, <2>4, <2>5, <2>6, <2>7, <2>8, Zenon DEF IInv
<1>2. CASE UNCHANGED vars
  <2>1. /\ status' = status /\ cur' = cur /\ ready_list' = ready_list
        /\ thread_ticks' = thread_ticks /\ value' = value /\ waiters' = waiters
        /\ holder' = holder /\ cond_waiters' = cond_waiters /\ pc' = pc /\ obj' = obj
        /\ child' = child /\ tid' = tid /\ next_tid' = next_tid /\ held' = held
    BY <1>2, Zenon DEF vars, sched
  <2>2. TypeOK' /\ Ready' /\ Creation'
    BY <1>0, <2>1, Zenon DEF TypeOK, Ready, Creation
  <2>3. Sleep' /\ \A t \in Thread : Shape(t)'
    BY <1>0, <2>1 DEF Sleep, SemaOf, Shape, LockOf
  <2>4. Locks' /\ Tids'
    BY <1>0, <2>1 DEF Locks, Inside, Tids
  <2>5. Conds' /\ NoLostWakeup'
    BY <1>0, <2>1, Zenon DEF Conds, SignalDelivered, NoLostWakeup, Woken, SemaOf
  <2> QED
    BY <2>2, <2>3, <2>4, <2>5, Zenon DEF IInv
<1> QED
  BY <1>1, <1>2, Zenon

\* The invariant holds in every state of the kernel's threads.
THEOREM Invariance == Spec => []IInv
<1>1. Init => IInv
  BY InvInit, Zenon
<1>2. IInv /\ [Next]_vars => IInv'
  BY InvNext, Zenon
<1> QED
  BY <1>1, <1>2, PTL DEF Spec

\* Every thread is in one list at a time, whatever threads, locks and semaphores
\* there are: ready, asleep on one semaphore, or running (thread.c, synch.c).
THEOREM ListsCorrect == Spec => []ListsConsistent
<1>1. ASSUME IInv PROVE ListsConsistent
  <2>0. TypeOK /\ Ready /\ Sleep /\ Creation /\ None \notin Thread /\ Idle \in Thread
    BY <1>1, SynchAssumption, Zenon DEF IInv
  <2>1. ASSUME NEW t \in Thread \ {Idle}
        PROVE  status[t] = "blocked" /\ (\A u \in Thread : child[u] # t)
               <=> \E s \in Semaphore : t \in Range(waiters[s])
    <3>1. ASSUME NEW s \in Semaphore, t \in Range(waiters[s]), NEW u \in Thread, child[u] = t
          PROVE  FALSE
      BY <3>1, <2>0, Zenon DEF Sleep, Creation
    <3> QED
      BY <3>1, <2>0, Zenon DEF Sleep
  <2> QED
    BY <2>0, <2>1, Zenon DEF ListsConsistent, Ready, Sleep
<1> QED
  BY <1>1, Invariance, PTL

\* Locks exclude, and what the lock of allocate_tid protects is right: no two
\* threads have one identifier (lock_acquire, lock_release, allocate_tid).
THEOREM LocksCorrect == Spec => []MutualExclusion
<1>1. ASSUME IInv PROVE MutualExclusion
  <2>1. Locks /\ Tids
    BY <1>1, Zenon DEF IInv
  <2>2. ASSUME NEW l \in Lock PROVE Cardinality(Inside(l)) + value[l] = 1
    <3>1. CASE value[l] = 1 /\ Inside(l) = {}
      <4>1. Cardinality({}) = 0
        BY FS_EmptySet, Zenon
      <4> QED
        BY <3>1, <4>1
    <3>2. ASSUME NEW t \in Thread, value[l] = 0, Inside(l) = {t}
          PROVE  Cardinality(Inside(l)) + value[l] = 1
      <4>1. Cardinality({t}) = 1
        BY FS_Singleton, Zenon
      <4> QED
        BY <3>2, <4>1
    <3> QED
      BY <3>1, <3>2, <2>1, Zenon DEF Locks
  <2> QED
    BY <2>1, <2>2, Zenon DEF MutualExclusion, Locks, Tids
<1> QED
  BY <1>1, Invariance, PTL

\* No wakeup is lost: while threads sleep on a semaphore that is not 0, as many
\* have been woken to take it (sema_up, sema_down).
THEOREM WakeupCorrect == Spec => []NoLostWakeup
<1>1. IInv => NoLostWakeup
  BY Zenon DEF IInv
<1> QED
  BY <1>1, Invariance, PTL

\* A thread in cond_wait is among the condition's waiters or has been signalled,
\* and not both (cond_wait, cond_signal, cond_broadcast).
THEOREM SignalCorrect == Spec => []SignalDelivered
<1>1. IInv => SignalDelivered
  BY Zenon DEF IInv, Conds
<1> QED
  BY <1>1, Invariance, PTL

=============================================================================
