--------------------------- MODULE ProcessProofs ----------------------------
(***************************************************************************)
(* The safety properties of Process hold for every set of processes: the   *)
(* inductive invariant, what every step does to the types, the loading of  *)
(* a child, the tree of statuses, the exit codes and the counts of users.  *)
(***************************************************************************)
EXTENDS Process, SequenceLemmas, TLAPS

Children(p) == Range(child_processes[p])

\* p is past the first loop of process_exit.
Exited(p) == pc[p] \in {"delete", "leave", "leaving", "notify", "free", "dead"}
\* p is in that loop.
Looping(p) == pc[p] \in {"exit", "counting", "counted"}

\* Before its load returns nothing of a process's load_status or wait_status is
\* used; process_execute waits for its own child, which has no status yet.
LoadInv ==
    /\ \A c \in Proc : pc[c] \in {"none", "load"} =>
          /\ load_sema[c] = 0
          /\ wait_status_create[c] = 0
          /\ ~success[c]
          /\ ws[c] = "none"
    /\ \A p \in Proc : pc[p] = "execute" =>
          /\ on[p] \in Proc \ {p}
          /\ pc[on[p]] # "none"
          /\ parent[on[p]] = p
          /\ ws[on[p]] = "none"

\* The statuses that exist are those in the lists of the parents, except for the
\* ones a parent has freed.
TreeInv ==
    /\ \A p \in Proc : IsInjective(child_processes[p])
    /\ \A p \in Proc : \A c \in Children(p) : parent[c] = p /\ ws[c] # "none"
    /\ \A c \in Proc :
          /\ has_parent_status[c] <=> ws[c] # "none"
          /\ ws[c] # "none" => parent[c] \in Proc \ {c}
          /\ ws[c] # "none" /\ c \notin Children(parent[c]) =>
                ws[c] = "freed" /\ Exited(parent[c])
    /\ \A p \in Proc : Looping(p) => at[p] >= 1
    /\ \A p \in Proc : pc[p] \in {"counting", "counted"} => at[p] \in DOMAIN child_processes[p]

Statuses ==
    \A c \in Proc :
        /\ ws[c] # "none" =>
              count[c] = (IF ChildLeft(c) THEN 0 ELSE 1) + (IF ParentLeft(c) THEN 0 ELSE 1)
        /\ ws[c] = "freed" => count[c] = 0
        /\ ws[c] = "live" /\ count[c] = 0 =>
              (pc[c] = "free") # (c \in Range(delete_children[parent[c]]))

\* What is in delete_children, and what is about to be freed by the child, has
\* count 0 and is live.
DeleteInv ==
    /\ \A p \in Proc : IsInjective(delete_children[p])
    /\ \A p \in Proc : delete_children[p] # <<>> => Looping(p) \/ pc[p] = "delete"
    /\ \A p \in Proc : \A c \in Range(delete_children[p]) :
          c \in Children(p) /\ ws[c] = "live" /\ count[c] = 0
    /\ \A c \in Proc : pc[c] = "free" => ws[c] = "live" /\ count[c] = 0
    /\ \A c \in Proc : pc[c] \in {"leaving", "notify"} => ws[c] # "none"

\* The exit code goes from the child to child_exit_code, and from there to the
\* parent, once: child_exit_sem is 1, the parent has downed it, or it has the code.
Waiter(p) ==
    /\ pc[p] \in {"wait", "waited"} => on[p] \in Children(p)
    /\ pc[p] = "waited" => /\ pc[on[p]] = "dead"
                           /\ child_exit_sem[on[p]] = 0
                           /\ waited[on[p]] = <<>>
Coded(c) == ws[c] # "none" /\ (Looping(c) \/ Exited(c)) =>
               (waited[c] = <<>> => child_exit_code[c] = exited[c])
Upped(c) == child_exit_sem[c] = 1 => pc[c] = "dead" /\ waited[c] = <<>> /\ ws[c] # "none"
Taken(c) == waited[c] # <<>> => waited[c] = <<exited[c]>> /\ pc[c] = "dead"

WaitInv == \A p \in Proc : Waiter(p) /\ Coded(p) /\ Upped(p) /\ Taken(p)

IInv ==
    /\ TypeOK
    /\ ChildAwaitsStatus
    /\ Intact => LoadInv /\ TreeInv /\ Statuses /\ DeleteInv /\ WaitInv

\* A step of p outside process_execute and start_process.
Quiet(p) ==
    /\ pc[p] \notin {"none", "load", "start", "execute"}
    /\ \E l \in PC \ {"none", "load", "start", "execute"} : pc' = [pc EXCEPT ![p] = l]
    /\ \A q \in Proc \ {p} : on'[q] = on[q]
    /\ UNCHANGED <<loadVars, has_parent_status>>
    /\ \A c \in Proc : ws'[c] = ws[c] \/ (ws[c] = "live" /\ ws'[c] = "freed")

\* The child that process_execute waits for, when its semaphore is up.
LEMMA LoadedFacts ==
    ASSUME IInv, Intact, NEW p \in Proc, pc[p] = "execute", load_sema[on[p]] > 0
    PROVE  /\ on[p] \in Proc /\ on[p] # p
           /\ parent[on[p]] = p
           /\ ws[on[p]] = "none"
           /\ load_sema[on[p]] = 1
           /\ pc[on[p]] \notin {"none", "load"}
           /\ success[on[p]] => pc[on[p]] = "start" /\ wait_status_create[on[p]] = 0
<1>1. /\ on[p] \in Proc \ {p}
      /\ pc[on[p]] # "none"
      /\ parent[on[p]] = p
      /\ ws[on[p]] = "none"
  BY Zenon DEF IInv, LoadInv
<1>2. load_sema[on[p]] = 1
  BY <1>1 DEF IInv, TypeOK
<1>3. pc[on[p]] # "load"
  BY <1>1, <1>2 DEF IInv, LoadInv
<1>4. success[on[p]] => pc[on[p]] = "start" /\ wait_status_create[on[p]] = 0
  BY <1>1, <1>2, <1>3, Zenon DEF IInv, ChildAwaitsStatus
<1> QED
  BY <1>1, <1>2, <1>3, <1>4, Zenon

\* An element of a list of children is a status that its parent shares.
LEMMA ChildFacts ==
    ASSUME IInv, Intact, NEW p \in Proc
    PROVE  /\ child_processes[p] \in Seq(Proc)
           /\ DOMAIN child_processes[p] = 1..Len(child_processes[p])
           /\ Len(child_processes[p]) \in Nat
           /\ \A i \in DOMAIN child_processes[p] : child_processes[p][i] \in Children(p)
           /\ \A c \in Children(p) :
                 /\ c \in Proc
                 /\ \E i \in DOMAIN child_processes[p] : child_processes[p][i] = c
                 /\ parent[c] = p
                 /\ ws[c] # "none"
           /\ \A i, j \in DOMAIN child_processes[p] :
                 child_processes[p][i] = child_processes[p][j] => i = j
<1>1. child_processes[p] \in Seq(Proc)
  BY Zenon DEF IInv, TypeOK
<1>2. /\ Len(child_processes[p]) \in Nat
      /\ DOMAIN child_processes[p] = 1..Len(child_processes[p])
      /\ Children(p) \subseteq Proc
      /\ \A x : x \in Children(p) <=>
            \E j \in 1..Len(child_processes[p]) : child_processes[p][j] = x
  BY <1>1, RangeOfSequence, Zenon DEF Children
<1>3. \A c \in Children(p) : parent[c] = p /\ ws[c] # "none"
  BY Zenon DEF IInv, TreeInv
<1>4. \A i, j \in DOMAIN child_processes[p] :
         child_processes[p][i] = child_processes[p][j] => i = j
  BY Zenon DEF IInv, TreeInv, IsInjective
<1> QED
  BY <1>1, <1>2, <1>3, <1>4, Zenon

\* The status that process_exit is about to count down is still used by the parent,
\* so its count is not 0 and it is in no list of statuses to free.
LEMMA CountingFacts ==
    ASSUME IInv, Intact, NEW p \in Proc, pc[p] = "counting"
    PROVE  /\ at[p] \in DOMAIN child_processes[p]
           /\ Current(p) \in Proc
           /\ Current(p) \in Children(p)
           /\ Current(p) # p
           /\ parent[Current(p)] = p
           /\ ws[Current(p)] # "none"
           /\ ~ParentLeft(Current(p))
           /\ count[Current(p)] = IF ChildLeft(Current(p)) THEN 1 ELSE 2
           /\ pc[Current(p)] # "free"
           /\ Current(p) \notin Range(delete_children[p])
<1>1. at[p] \in DOMAIN child_processes[p]
  BY Zenon DEF IInv, TreeInv
<1>2. /\ Current(p) \in Children(p)
      /\ Current(p) \in Proc
      /\ parent[Current(p)] = p
      /\ ws[Current(p)] # "none"
  BY <1>1, ChildFacts DEF Current
<1>3. ~ParentLeft(Current(p))
  BY <1>1, <1>2, ChildFacts DEF ParentLeft, Current
<1>4. count[Current(p)] = IF ChildLeft(Current(p)) THEN 1 ELSE 2
  BY <1>2, <1>3 DEF IInv, Statuses
<1>5. pc[Current(p)] # "free" /\ Current(p) \notin Range(delete_children[p])
  BY <1>2, <1>4 DEF IInv, DeleteInv
<1>6. Current(p) # p
  BY <1>2, Zenon DEF IInv, TreeInv
<1> QED
  BY <1>1, <1>2, <1>3, <1>4, <1>5, <1>6, Zenon

\* A process that counts itself off has not left its status before.
LEMMA LeavingFacts ==
    ASSUME IInv, Intact, NEW p \in Proc, pc[p] = "leaving"
    PROVE  /\ ws[p] # "none"
           /\ count[p] = IF ParentLeft(p) THEN 1 ELSE 2
<1>1. ws[p] # "none"
  BY Zenon DEF IInv, DeleteInv
<1> QED
  BY <1>1 DEF IInv, Statuses, ChildLeft

\* A status in delete_children is an element of the list of children, and freeing
\* it takes exactly it out of both lists.
LEMMA DeletingFacts ==
    ASSUME IInv, Intact, NEW p \in Proc, pc[p] = "delete", delete_children[p] # <<>>
    PROVE  LET c == Head(delete_children[p])
               l == Without(child_processes[p], Position(p, c))
               d == Tail(delete_children[p])
           IN  /\ c \in Proc
               /\ c \in Children(p)
               /\ c \in Range(delete_children[p])
               /\ l \in Seq(Proc)
               /\ d \in Seq(Proc)
               /\ IsInjective(l)
               /\ IsInjective(d)
               /\ Range(l) = Children(p) \ {c}
               /\ Range(d) = Range(delete_children[p]) \ {c}
<1> DEFINE c == Head(delete_children[p])
<1>1. /\ delete_children[p] \in Seq(Proc)
      /\ IsInjective(delete_children[p])
      /\ IsInjective(child_processes[p])
      /\ \A x \in Range(delete_children[p]) : x \in Children(p)
  BY Zenon DEF IInv, TypeOK, DeleteInv, TreeInv
<1>2. /\ Tail(delete_children[p]) \in Seq(Proc)
      /\ c \in Range(delete_children[p])
      /\ Range(Tail(delete_children[p])) = Range(delete_children[p]) \ {c}
      /\ IsInjective(Tail(delete_children[p]))
  BY <1>1, HeadTail, TailRange, Zenon
<1> HIDE DEF c
<1>3. c \in Children(p)
  BY <1>1, <1>2, Zenon
<1>4. /\ c \in Proc
      /\ Position(p, c) \in 1..Len(child_processes[p])
      /\ child_processes[p][Position(p, c)] = c
  BY <1>3, ChildFacts DEF Position
<1>5. child_processes[p] \in Seq(Proc)
  BY ChildFacts, Zenon
<1>6. LET l == Without(child_processes[p], Position(p, c))
      IN  l \in Seq(Proc) /\ Range(l) = Children(p) \ {c} /\ IsInjective(l)
  BY <1>1, <1>4, <1>5, WithoutRange DEF Children
<1> QED
  BY <1>2, <1>3, <1>4, <1>6, Zenon DEF c

\* Every step keeps the state well typed: semaphores stay 0 or 1 and the count of
\* users between 0 and 2.
LEMMA TypeNext ==
    ASSUME IInv, [Next]_vars
    PROVE  TypeOK'
<1> USE DEF TypeOK, PC, Freed, Goto, loadVars, statusVars, exitVars
<1>0. TypeOK
  BY Zenon DEF IInv
<1>a. pc \in [Proc -> PC] /\ at \in [Proc -> Nat] /\ count_lock \in [Proc -> Proc \cup {None}]
  BY <1>0, Zenon
<1>b. load_sema \in [Proc -> 0..1] /\ wait_status_create \in [Proc -> {Freed, 0, 1}]
      /\ success \in [Proc -> BOOLEAN] /\ child_exit_sem \in [Proc -> 0..1]
  BY <1>0, Zenon
<1>c. child_processes \in [Proc -> Seq(Proc)] /\ delete_children \in [Proc -> Seq(Proc)]
  BY <1>0, Zenon
<1>1. ASSUME NEW p \in Proc, NEW c \in Proc, ProcessExecute(p, c)
      PROVE  TypeOK'
  BY <1>0, <1>1, Zenon DEF ProcessExecute
<1>2. ASSUME NEW p \in Proc, NEW c \in Proc, ProcessWait(p, c)
      PROVE  TypeOK'
  BY <1>0, <1>2, Zenon DEF ProcessWait
<1>3. ASSUME NEW p \in Proc, NEW code \in Code, Exit(p, code)
      PROVE  TypeOK'
  BY <1>0, <1>3, Zenon DEF Exit
<1>4. ASSUME NEW p \in Proc, Load(p)
      PROVE  TypeOK'
  <2>1. load_sema[p] = 0
    BY <1>4, Zenon DEF Load, IInv, LoadInv
  <2>2. load_sema' \in [Proc -> 0..1]
    BY <1>b, <1>4, <2>1 DEF Load
  <2>3. /\ success' \in [Proc -> BOOLEAN]
        /\ wait_status_create' \in [Proc -> {Freed, 0, 1}]
    BY <1>b, <1>4, Zenon DEF Load
  <2>4. pc' \in [Proc -> PC] /\ at' \in [Proc -> Nat]
    BY <1>a, <1>4 DEF Load
  <2> QED
    BY <1>0, <1>4, <2>2, <2>3, <2>4, Zenon DEF Load
<1>5. ASSUME NEW p \in Proc, Loaded(p)
      PROVE  TypeOK'
  <2> DEFINE c == on[p]
  <2>1. /\ c \in Proc
        /\ load_sema[c] = 1
        /\ success[c] => wait_status_create[c] = 0
    BY <1>5, LoadedFacts, Zenon DEF Loaded
  <2>2. Append(child_processes[p], c) \in Seq(Proc)
    BY <1>0, <2>1, AppendElement
  <2>3. load_sema' = [load_sema EXCEPT ![c] = 0]
    BY <1>5, <2>1 DEF Loaded
  <2>4. wait_status_create' \in [Proc -> {Freed, 0, 1}]
    BY <1>0, <1>5, <2>1 DEF Loaded
  <2>5. child_processes' \in [Proc -> Seq(Proc)]
    <3>1. \/ child_processes' = child_processes
          \/ child_processes' = [child_processes EXCEPT ![p] = Append(child_processes[p], c)]
      BY <1>5, Zenon DEF Loaded
    <3> QED
      BY <1>c, <2>2, <3>1, Zenon
  <2>6. ws' \in [Proc -> {"none", "live", "freed"}] /\ count' \in [Proc -> 0..2]
    <3>1. ws \in [Proc -> {"none", "live", "freed"}] /\ count \in [Proc -> 0..2]
      BY <1>0, Zenon
    <3>2. \/ ws' = ws /\ count' = count
          \/ ws' = [ws EXCEPT ![c] = "live"] /\ count' = [count EXCEPT ![c] = 2]
      BY <1>5, Zenon DEF Loaded
    <3> QED
      BY <3>1, <3>2
  <2>7. has_parent_status' \in [Proc -> BOOLEAN]
    BY <1>0, <1>5, Zenon DEF Loaded
  <2>8. load_sema' \in [Proc -> 0..1]
    <3>1. load_sema \in [Proc -> 0..1]
      BY <1>0, Zenon
    <3>2. 0 \in 0..1
      OBVIOUS
    <3> QED
      BY <2>3, <3>1, <3>2, Zenon
  <2> QED
    BY <1>0, <1>5, <2>4, <2>5, <2>6, <2>7, <2>8, Zenon DEF Loaded
<1>6. ASSUME NEW p \in Proc, StartProcess(p)
      PROVE  TypeOK'
  BY <1>0, <1>6, Zenon DEF StartProcess
<1>7. ASSUME NEW p \in Proc, WaitDown(p)
      PROVE  TypeOK'
  <2>1. on[p] \in Proc
    BY <1>7, ChildFacts, Zenon DEF WaitDown, IInv, WaitInv, Waiter
  <2>2. child_exit_sem[on[p]] = 1
    BY <1>0, <1>7, <2>1 DEF WaitDown
  <2>3. child_exit_sem' \in [Proc -> 0..1]
    BY <1>b, <1>7, <2>1, <2>2 DEF WaitDown
  <2> QED
    BY <1>0, <1>7, <2>3, Zenon DEF WaitDown
<1>8. ASSUME NEW p \in Proc, WaitReturn(p)
      PROVE  TypeOK'
  <2>1. on[p] \in Proc
    BY <1>8, ChildFacts, Zenon DEF WaitReturn, IInv, WaitInv, Waiter
  <2>2. Append(waited[on[p]], child_exit_code[on[p]]) \in Seq(Code \cup {-1, -2})
    BY <1>0, <2>1, AppendElement, Zenon
  <2>3. waited' \in [Proc -> Seq(Code \cup {-1, -2})]
    BY <1>0, <1>8, <2>2, Zenon DEF WaitReturn
  <2>4. child_exit_code' \in [Proc -> Code \cup {-1, -2}]
    BY <1>0, <1>8, Zenon DEF WaitReturn
  <2> QED
    BY <1>0, <1>8, <2>3, <2>4, Zenon DEF WaitReturn
<1>9. ASSUME NEW p \in Proc, ExitLoop(p)
      PROVE  TypeOK'
  <2>1. count_lock' \in [Proc -> Proc \cup {None}]
    BY <1>a, <1>9, Zenon DEF ExitLoop
  <2>2. pc' \in [Proc -> PC]
    BY <1>a, <1>9, Zenon DEF ExitLoop
  <2> QED
    BY <1>0, <1>9, <2>1, <2>2, Zenon DEF ExitLoop
<1>10. ASSUME NEW p \in Proc, ExitCount(p)
       PROVE  TypeOK'
  <2>1. Current(p) \in Proc /\ count[Current(p)] \in 1..2
    BY <1>10, CountingFacts DEF ExitCount
  <2>2. Append(delete_children[p], Current(p)) \in Seq(Proc)
    BY <1>0, <2>1, AppendElement
  <2>3. delete_children' \in [Proc -> Seq(Proc)]
    BY <1>0, <1>10, <2>2, Zenon DEF ExitCount
  <2>4. count' \in [Proc -> 0..2]
    BY <1>0, <1>10, <2>1 DEF ExitCount
  <2>5. count_lock' \in [Proc -> Proc \cup {None}] /\ pc' \in [Proc -> PC]
    BY <1>0, <1>10, Zenon DEF ExitCount
  <2> QED
    BY <1>0, <1>10, <2>3, <2>4, <2>5, Zenon DEF ExitCount
<1>11. ASSUME NEW p \in Proc, ExitNext(p)
       PROVE  TypeOK'
  <2>1. pc' \in [Proc -> PC]
    BY <1>a, <1>11, Zenon DEF ExitNext
  <2>2. at' \in [Proc -> Nat]
    BY <1>a, <1>11 DEF ExitNext
  <2> QED
    BY <1>0, <1>11, <2>1, <2>2, Zenon DEF ExitNext
<1>12. ASSUME NEW p \in Proc, ExitDelete(p)
       PROVE  TypeOK'
  <2> DEFINE c == Head(delete_children[p])
             l == Without(child_processes[p], Position(p, c))
             d == Tail(delete_children[p])
  <2>1. pc' \in [Proc -> PC]
    BY <1>a, <1>12, Zenon DEF ExitDelete
  <2>2. ws' \in [Proc -> {"none", "live", "freed"}]
    BY <1>0, <1>12, Zenon DEF ExitDelete
  <2>3. delete_children[p] # <<>> => l \in Seq(Proc) /\ d \in Seq(Proc)
    BY <1>12, DeletingFacts, Zenon DEF ExitDelete
  <2>4. /\ child_processes' = child_processes
           \/ /\ delete_children[p] # <<>>
              /\ child_processes' = [child_processes EXCEPT ![p] = l]
        /\ delete_children' = delete_children
           \/ /\ delete_children[p] # <<>>
              /\ delete_children' = [delete_children EXCEPT ![p] = d]
    BY <1>12, Zenon DEF ExitDelete
  <2> HIDE DEF l, d
  <2>5. child_processes' \in [Proc -> Seq(Proc)] /\ delete_children' \in [Proc -> Seq(Proc)]
    BY <1>c, <2>3, <2>4, Zenon
  <2> QED
    BY <1>0, <1>12, <2>1, <2>2, <2>5, Zenon DEF ExitDelete
<1>13. ASSUME NEW p \in Proc, Leave(p)
       PROVE  TypeOK'
  <2>1. pc' \in [Proc -> PC]
    BY <1>a, <1>13, Zenon DEF Leave
  <2>2. count_lock' \in [Proc -> Proc \cup {None}]
    BY <1>a, <1>13, Zenon DEF Leave
  <2> QED
    BY <1>0, <1>13, <2>1, <2>2, Zenon DEF Leave
<1>14. ASSUME NEW p \in Proc, LeaveCount(p)
       PROVE  TypeOK'
  <2>1. count[p] \in 1..2
    BY <1>14, LeavingFacts DEF LeaveCount
  <2>2. count' \in [Proc -> 0..2]
    BY <1>0, <1>14, <2>1 DEF LeaveCount
  <2>3. pc' \in [Proc -> PC]
    BY <1>0, <1>14, Zenon DEF LeaveCount
  <2> QED
    BY <1>0, <1>14, <2>2, <2>3, Zenon DEF LeaveCount
<1>15. ASSUME NEW p \in Proc, LeaveFree(p)
       PROVE  TypeOK'
  BY <1>0, <1>15, Zenon DEF LeaveFree
<1>16. ASSUME NEW p \in Proc, LeaveNotify(p)
       PROVE  TypeOK'
  <2>1. child_exit_sem[p] = 0
    BY <1>0, <1>16 DEF LeaveNotify, IInv, WaitInv, Upped
  <2>2. child_exit_sem' \in [Proc -> 0..1]
    BY <1>b, <1>16, <2>1 DEF LeaveNotify
  <2>3. pc' \in [Proc -> PC]
    BY <1>a, <1>16, Zenon DEF LeaveNotify
  <2> QED
    BY <1>0, <1>16, <2>2, <2>3, Zenon DEF LeaveNotify
<1>17. CASE UNCHANGED vars
  BY <1>0, <1>17, Zenon DEF vars
<1> QED
  BY <1>1, <1>2, <1>3, <1>4, <1>5, <1>6, <1>7, <1>8, <1>9, <1>10, <1>11, <1>12, <1>13, <1>14,
     <1>15, <1>16, <1>17, Zenon DEF Next, Step

\* All actions but those of process_execute and start_process are quiet.
LEMMA QuietSteps ==
    ASSUME IInv, NEW p \in Proc,
           \/ \E c \in Proc : ProcessWait(p, c)
           \/ \E code \in Code : Exit(p, code)
           \/ WaitDown(p) \/ WaitReturn(p)
           \/ ExitLoop(p) \/ ExitCount(p) \/ ExitNext(p) \/ ExitDelete(p)
           \/ Leave(p) \/ LeaveCount(p) \/ LeaveFree(p) \/ LeaveNotify(p)
    PROVE  Intact /\ Quiet(p)
<1> USE DEF Quiet, PC, Goto, loadVars, statusVars, exitVars
<1>0. /\ pc \in [Proc -> PC]
      /\ on \in [Proc -> Proc \cup {None}]
      /\ ws \in [Proc -> {"none", "live", "freed"}]
  BY Zenon DEF IInv, TypeOK
<1>1. ASSUME NEW c \in Proc, ProcessWait(p, c)
      PROVE  Intact /\ Quiet(p)
  BY <1>0, <1>1, Zenon DEF ProcessWait
<1>2. ASSUME NEW code \in Code, Exit(p, code)
      PROVE  Intact /\ Quiet(p)
  BY <1>0, <1>2, Zenon DEF Exit
<1>3. CASE WaitDown(p)
  BY <1>0, <1>3, Zenon DEF WaitDown
<1>4. CASE WaitReturn(p)
  BY <1>0, <1>4, Zenon DEF WaitReturn
<1>5. CASE ExitLoop(p)
  BY <1>0, <1>5, Zenon DEF ExitLoop
<1>6. CASE ExitCount(p)
  BY <1>0, <1>6, Zenon DEF ExitCount
<1>7. CASE ExitNext(p)
  BY <1>0, <1>7, Zenon DEF ExitNext
<1>8. CASE ExitDelete(p)
  <2>1. CASE delete_children[p] = <<>>
    BY <1>0, <1>8, <2>1, Zenon DEF ExitDelete
  <2>2. CASE delete_children[p] # <<>>
    <3> DEFINE c == Head(delete_children[p])
    <3>1. c \in Range(delete_children[p])
      BY <1>8, <2>2, DeletingFacts, Zenon DEF ExitDelete
    <3>2. c \in Proc /\ ws[c] = "live"
      BY <1>8, <2>2, <3>1, DeletingFacts, Zenon DEF ExitDelete, IInv, DeleteInv
    <3>3. /\ \/ pc' = [pc EXCEPT ![p] = "corrupt"] /\ ws' = ws
             \/ pc' = pc /\ ws' = [ws EXCEPT ![c] = "freed"]
          /\ pc[p] = "delete"
          /\ Intact
          /\ UNCHANGED <<on, loadVars, has_parent_status>>
      BY <1>8, <2>2, Zenon DEF ExitDelete
    <3> HIDE DEF c
    <3> QED
      BY <1>0, <3>2, <3>3
  <2> QED
    BY <2>1, <2>2, Zenon
<1>9. CASE Leave(p)
  BY <1>0, <1>9, Zenon DEF Leave
<1>10. CASE LeaveCount(p)
  BY <1>0, <1>10, Zenon DEF LeaveCount
<1>11. CASE LeaveFree(p)
  <2>1. ws[p] = "live"
    BY <1>11, Zenon DEF LeaveFree, IInv, DeleteInv
  <2> QED
    BY <1>0, <1>11, <2>1, Zenon DEF LeaveFree
<1>12. CASE LeaveNotify(p)
  BY <1>0, <1>12, Zenon DEF LeaveNotify
<1> QED
  BY <1>1, <1>2, <1>3, <1>4, <1>5, <1>6, <1>7, <1>8, <1>9, <1>10, <1>11, <1>12, Zenon

\* A quiet step keeps what is known of the processes that are being started.
LEMMA QuietLoad ==
    ASSUME IInv, Intact, NEW p \in Proc, Quiet(p)
    PROVE  ChildAwaitsStatus' /\ LoadInv'
<1>0. pc \in [Proc -> PC]
  BY Zenon DEF IInv, TypeOK
<1>1. PICK l \in PC \ {"none", "load", "start", "execute"} : pc' = [pc EXCEPT ![p] = l]
  BY Zenon DEF Quiet
<1>2. \A q \in Proc : pc[q] \in {"none", "load", "start", "execute"}
                       \/ pc'[q] \in {"none", "load", "start", "execute"} => pc'[q] = pc[q]
  BY <1>0, <1>1, Zenon DEF Quiet
<1>3. \A q \in Proc : pc'[q] = "execute" => pc[q] = "execute" /\ on'[q] = on[q]
  BY <1>0, <1>1, Zenon DEF Quiet
<1>4. ChildAwaitsStatus'
  BY <1>2, <1>3 DEF IInv, ChildAwaitsStatus, Quiet, loadVars
<1>5. LoadInv'
  BY <1>2, <1>3 DEF IInv, LoadInv, Quiet, loadVars
<1> QED
  BY <1>4, <1>5, Zenon

\* start_process and process_execute meet at the two semaphores in this order: the
\* child's load, the parent's allocation, the child's start.
LEMMA LoadNext ==
    ASSUME IInv, [Next]_vars
    PROVE  ChildAwaitsStatus' /\ (Intact' => LoadInv')
<1> USE DEF Goto, loadVars, statusVars, exitVars
<1>0. /\ pc \in [Proc -> PC]
      /\ load_sema \in [Proc -> 0..1]
      /\ wait_status_create \in [Proc -> {Freed, 0, 1}]
      /\ success \in [Proc -> BOOLEAN]
      /\ on \in [Proc -> Proc \cup {None}]
      /\ parent \in [Proc -> Proc \cup {None}]
      /\ ws \in [Proc -> {"none", "live", "freed"}]
  BY Zenon DEF IInv, TypeOK
<1>1. ASSUME NEW p \in Proc, NEW c \in Proc, ProcessExecute(p, c)
      PROVE  ChildAwaitsStatus' /\ LoadInv'
  <2>1. c # p /\ Intact
    BY <1>1, Zenon DEF ProcessExecute
  <2>2. /\ load_sema[c] = 0
        /\ wait_status_create[c] = 0
        /\ ~success[c]
        /\ ws[c] = "none"
    BY <1>1, <2>1, Zenon DEF ProcessExecute, IInv, LoadInv
  <2>3. \A q \in Proc : pc[q] = "execute" => on[q] # c
    BY <1>1, <2>1 DEF ProcessExecute, IInv, LoadInv
  <2>4. ChildAwaitsStatus'
    BY <1>0, <1>1, <2>1, <2>2, <2>3, Zenon DEF ProcessExecute, IInv, ChildAwaitsStatus
  <2>5. LoadInv'
    BY <1>0, <1>1, <2>1, <2>2, <2>3 DEF ProcessExecute, IInv, LoadInv
  <2> QED
    BY <2>4, <2>5, Zenon
<1>2. ASSUME NEW p \in Proc, Load(p)
      PROVE  ChildAwaitsStatus' /\ LoadInv'
  <2>1. Intact /\ load_sema[p] = 0 /\ wait_status_create[p] = 0 /\ ~success[p]
    BY <1>2, Zenon DEF Load, IInv, LoadInv
  <2>2. ChildAwaitsStatus'
    BY <1>0, <1>2, <2>1 DEF Load, IInv, ChildAwaitsStatus
  <2>3. LoadInv'
    BY <1>0, <1>2, <2>1 DEF Load, IInv, LoadInv
  <2> QED
    BY <2>2, <2>3, Zenon
<1>3. ASSUME NEW p \in Proc, Loaded(p)
      PROVE  ChildAwaitsStatus' /\ LoadInv'
  <2> DEFINE c == on[p]
  <2>1. /\ c \in Proc /\ c # p
        /\ parent[c] = p
        /\ pc[c] \notin {"none", "load"}
        /\ Intact
    BY <1>3, LoadedFacts, Zenon DEF Loaded
  <2>2. \A q \in Proc : pc[q] = "execute" /\ q # p => on[q] # c
    BY <2>1 DEF IInv, LoadInv
  <2>3. ChildAwaitsStatus'
    BY <1>0, <1>3, <2>1, <2>2 DEF Loaded, IInv, ChildAwaitsStatus
  <2>4. LoadInv'
    BY <1>0, <1>3, <2>1, <2>2 DEF Loaded, IInv, LoadInv
  <2> QED
    BY <2>3, <2>4, Zenon
<1>4. ASSUME NEW p \in Proc, StartProcess(p)
      PROVE  ChildAwaitsStatus' /\ LoadInv'
  <2>1. ChildAwaitsStatus'
    BY <1>0, <1>4 DEF StartProcess, IInv, ChildAwaitsStatus
  <2>2. LoadInv'
    BY <1>0, <1>4, Zenon DEF StartProcess, IInv, LoadInv
  <2> QED
    BY <2>1, <2>2, Zenon
<1>5. CASE UNCHANGED vars
  BY <1>5, Zenon DEF vars, IInv, ChildAwaitsStatus, LoadInv, Intact
<1> QED
  BY <1>1, <1>2, <1>3, <1>4, <1>5, QuietSteps, QuietLoad, Zenon DEF Next, Step

\* A quiet step that leaves the lists of children alone keeps TreeInv, provided that
\* it stays in the list.
LEMMA QuietTree ==
    ASSUME IInv, Intact, NEW p \in Proc, Quiet(p), Intact',
           UNCHANGED child_processes,
           Exited(p) => Exited(p)',
           \A q \in Proc \ {p} : at'[q] = at[q],
           Looping(p)' => at'[p] >= 1,
           (pc[p] \in {"counting", "counted"})' => at'[p] \in DOMAIN child_processes[p]
    PROVE  TreeInv'
<1>0. pc \in [Proc -> PC]
  BY Zenon DEF IInv, TypeOK
<1>1. PICK l \in PC : pc' = [pc EXCEPT ![p] = l]
  BY Zenon DEF Quiet
<1>2. \A q \in Proc \ {p} : pc'[q] = pc[q]
  BY <1>0, <1>1, Zenon
<1>3. \A q \in Proc : Exited(q) => Exited(q)'
  BY <1>2, Zenon DEF Exited
<1>4. \A c \in Proc : ws'[c] # "none" <=> ws[c] # "none"
  BY Zenon DEF Quiet
<1>5. \A q \in Proc : Children(q) \subseteq Proc
  BY ChildFacts, Zenon
<1>6. (\A q \in Proc : IsInjective(child_processes[q]))'
  BY Zenon DEF IInv, TreeInv
<1>7. (\A q \in Proc : \A c \in Children(q) : parent[c] = q /\ ws[c] # "none")'
  BY <1>4, <1>5, Zenon DEF IInv, TreeInv, Children, Quiet, loadVars
<1>8. (\A c \in Proc :
          /\ has_parent_status[c] <=> ws[c] # "none"
          /\ ws[c] # "none" => parent[c] \in Proc \ {c}
          /\ ws[c] # "none" /\ c \notin Children(parent[c]) =>
                ws[c] = "freed" /\ Exited(parent[c]))'
  BY <1>3, <1>4 DEF IInv, TreeInv, Children, Quiet, loadVars
<1>9. (\A q \in Proc : Looping(q) => at[q] >= 1)'
  BY <1>2, Zenon DEF IInv, TreeInv, Looping
<1>10. (\A q \in Proc :
          pc[q] \in {"counting", "counted"} => at[q] \in DOMAIN child_processes[q])'
  BY <1>2, Zenon DEF IInv, TreeInv
<1> QED
  BY <1>6, <1>7, <1>8, <1>9, <1>10, Zenon DEF TreeInv

\* The lists of children keep holding exactly the statuses shared with the parent.
LEMMA TreeNext ==
    ASSUME IInv, [Next]_vars, Intact'
    PROVE  TreeInv'
<1> USE DEF Goto, loadVars, statusVars, exitVars
<1>0. /\ pc \in [Proc -> PC]
      /\ at \in [Proc -> Nat]
      /\ child_processes \in [Proc -> Seq(Proc)]
      /\ parent \in [Proc -> Proc \cup {None}]
      /\ ws \in [Proc -> {"none", "live", "freed"}]
      /\ has_parent_status \in [Proc -> BOOLEAN]
  BY Zenon DEF IInv, TypeOK
<1>1. ASSUME NEW p \in Proc, NEW c \in Proc, ProcessExecute(p, c)
      PROVE  TreeInv'
  <2>1. Intact /\ ws[c] = "none" /\ c # p
    BY <1>1, Zenon DEF ProcessExecute, IInv, LoadInv
  <2>2. \A q \in Proc : Children(q) \subseteq Proc
    BY <2>1, ChildFacts, Zenon
  <2>3. \A q \in Proc : (Exited(q)' <=> Exited(q)) /\ (Looping(q)' <=> Looping(q))
    BY <1>0, <1>1, <2>1, Zenon DEF ProcessExecute, Exited, Looping
  <2>4. \A q \in Proc : pc'[q] \in {"counting", "counted"} => pc[q] = pc'[q]
    BY <1>0, <1>1, <2>1, Zenon DEF ProcessExecute
  <2>5. \A d \in Proc : ws[d] # "none" => parent'[d] = parent[d]
    BY <1>0, <1>1, <2>1, Zenon DEF ProcessExecute
  <2>6. UNCHANGED <<child_processes, has_parent_status, ws, at>>
    BY <1>1, Zenon DEF ProcessExecute
  <2> QED
    BY <2>1, <2>2, <2>3, <2>4, <2>5, <2>6 DEF IInv, TreeInv, Children, Exited
<1>2. ASSUME NEW p \in Proc, NEW c \in Proc, ProcessWait(p, c)
      PROVE  TreeInv'
  <2>1. Intact /\ Quiet(p)
    BY <1>2, QuietSteps, Zenon
  <2> QED
    BY <1>0, <1>2, <2>1, QuietTree, Zenon DEF ProcessWait, Exited, Looping
<1>3. ASSUME NEW p \in Proc, NEW code \in Code, Exit(p, code)
      PROVE  TreeInv'
  <2>1. Intact /\ Quiet(p)
    BY <1>3, QuietSteps, Zenon
  <2>2. /\ pc[p] = "user" /\ pc'[p] = "exit"
        /\ at' = [at EXCEPT ![p] = 1]
        /\ UNCHANGED child_processes
    BY <1>0, <1>3, Zenon DEF Exit
  <2>3. at'[p] = 1 /\ \A q \in Proc \ {p} : at'[q] = at[q]
    BY <1>0, <2>2, Zenon
  <2> QED
    BY <2>1, <2>2, <2>3, QuietTree DEF Exited, Looping
<1>4. ASSUME NEW p \in Proc, Load(p)
      PROVE  TreeInv'
  <2>1. \A q \in Proc : Exited(q)' <=> Exited(q)
    BY <1>0, <1>4, Zenon DEF Load, Exited
  <2>2. \A q \in Proc : Looping(q)' => (Looping(q) /\ at'[q] = at[q]) \/ at'[q] = 1
    BY <1>0, <1>4, Zenon DEF Load, Looping
  <2>3. \A q \in Proc : pc'[q] \in {"counting", "counted"} =>
                            pc[q] = pc'[q] /\ at'[q] = at[q]
    BY <1>0, <1>4, Zenon DEF Load
  <2>4. UNCHANGED <<parent, child_processes, has_parent_status, ws>> /\ Intact
    BY <1>4, Zenon DEF Load
  <2> QED
    BY <2>1, <2>2, <2>3, <2>4 DEF IInv, TreeInv, Children, Exited
<1>5. ASSUME NEW p \in Proc, Loaded(p)
      PROVE  TreeInv'
  <2> DEFINE c == on[p]
             l == Append(child_processes[p], c)
  <2>1. /\ c \in Proc /\ c # p
        /\ parent[c] = p
        /\ ws[c] = "none"
        /\ Intact
    BY <1>5, LoadedFacts, Zenon DEF Loaded
  <2>2. /\ pc[p] = "execute"
        /\ pc' = [pc EXCEPT ![p] = "user"]
        /\ UNCHANGED <<parent, at>>
        /\ \/ /\ child_processes' = [child_processes EXCEPT ![p] = l]
              /\ ws' = [ws EXCEPT ![c] = "live"]
              /\ has_parent_status' = [has_parent_status EXCEPT ![c] = TRUE]
           \/ UNCHANGED <<child_processes, ws, has_parent_status>>
    BY <1>5, Zenon DEF Loaded
  <2>3. \A q \in Proc : /\ Exited(q)' <=> Exited(q)
                        /\ Looping(q)' => Looping(q) /\ q # p
                        /\ pc'[q] \in {"counting", "counted"} => pc'[q] = pc[q] /\ q # p
    BY <1>0, <2>2, Zenon DEF Exited, Looping
  <2>4. c \notin Children(p)
    BY <2>1, ChildFacts, Zenon
  <2>5. Range(l) = Children(p) \cup {c} /\ IsInjective(l)
    BY <1>0, <2>1, <2>4, AppendRange DEF IInv, TreeInv, Children
  <2>6. \A q \in Proc : Children(q) \subseteq Proc
    BY <2>1, ChildFacts, Zenon
  <2> HIDE DEF c, l
  <2>7. CASE UNCHANGED <<child_processes, ws, has_parent_status>>
    BY <2>1, <2>2, <2>3, <2>7 DEF IInv, TreeInv, Children, Exited, Looping
  <2>8. CASE /\ child_processes' = [child_processes EXCEPT ![p] = l]
             /\ ws' = [ws EXCEPT ![c] = "live"]
             /\ has_parent_status' = [has_parent_status EXCEPT ![c] = TRUE]
    <3>1. /\ Children(p)' = Children(p) \cup {c}
          /\ \A q \in Proc \ {p} : Children(q)' = Children(q)
                                /\ child_processes'[q] = child_processes[q]
          /\ child_processes'[p] = l
      BY <1>0, <2>5, <2>8, Zenon DEF Children
    <3>2. \A d \in Proc \ {c} : ws'[d] = ws[d] /\ has_parent_status'[d] = has_parent_status[d]
      BY <1>0, <2>8, Zenon
    <3>3. ws'[c] = "live" /\ has_parent_status'[c] = TRUE
      BY <1>0, <2>1, <2>8, Zenon
    <3>4. (\A q \in Proc : IsInjective(child_processes[q]))'
      BY <2>1, <2>5, <3>1, Zenon DEF IInv, TreeInv
    <3>5. (\A q \in Proc : \A d \in Children(q) : parent[d] = q /\ ws[d] # "none")'
      BY <2>1, <2>2, <2>6, <3>1, <3>2, <3>3 DEF IInv, TreeInv
    <3>6. (\A d \in Proc :
              /\ has_parent_status[d] <=> ws[d] # "none"
              /\ ws[d] # "none" => parent[d] \in Proc \ {d}
              /\ ws[d] # "none" /\ d \notin Children(parent[d]) =>
                    ws[d] = "freed" /\ Exited(parent[d]))'
      <4> SUFFICES ASSUME NEW d \in Proc
                   PROVE  (/\ has_parent_status[d] <=> ws[d] # "none"
                           /\ ws[d] # "none" => parent[d] \in Proc \ {d}
                           /\ ws[d] # "none" /\ d \notin Children(parent[d]) =>
                                 ws[d] = "freed" /\ Exited(parent[d]))'
        BY Zenon
      <4>1. CASE d = c
        BY <2>1, <2>2, <3>1, <3>3, <4>1, Zenon
      <4>2. CASE d # c
        <5>1. /\ has_parent_status[d] <=> ws[d] # "none"
              /\ ws[d] # "none" => parent[d] \in Proc \ {d}
              /\ ws[d] # "none" /\ d \notin Children(parent[d]) =>
                    ws[d] = "freed" /\ Exited(parent[d])
          BY <2>1, Zenon DEF IInv, TreeInv
        <5> QED
          BY <2>2, <2>3, <3>1, <3>2, <4>2, <5>1, Zenon DEF Exited
      <4> QED
        BY <4>1, <4>2, Zenon
    <3>7. (\A q \in Proc : Looping(q) => at[q] >= 1)'
      BY <2>1, <2>2, <2>3, Zenon DEF IInv, TreeInv, Looping
    <3>8. (\A q \in Proc :
              pc[q] \in {"counting", "counted"} => at[q] \in DOMAIN child_processes[q])'
      BY <2>1, <2>2, <2>3, <3>1, Zenon DEF IInv, TreeInv
    <3> QED
      BY <3>4, <3>5, <3>6, <3>7, <3>8, Zenon DEF TreeInv
  <2> QED
    BY <2>2, <2>7, <2>8, Zenon
<1>6. ASSUME NEW p \in Proc, StartProcess(p)
      PROVE  TreeInv'
  <2>1. \A q \in Proc : /\ Exited(q)' <=> Exited(q)
                        /\ Looping(q)' <=> Looping(q)
                        /\ pc'[q] \in {"counting", "counted"} => pc'[q] = pc[q]
    BY <1>0, <1>6, Zenon DEF StartProcess, Exited, Looping
  <2>2. UNCHANGED <<parent, child_processes, has_parent_status, ws, at>> /\ Intact
    BY <1>6, Zenon DEF StartProcess
  <2> QED
    BY <2>1, <2>2 DEF IInv, TreeInv, Children, Exited, Looping
<1>7. ASSUME NEW p \in Proc, WaitDown(p) \/ WaitReturn(p)
      PROVE  TreeInv'
  <2>1. Intact /\ Quiet(p)
    BY <1>7, QuietSteps, Zenon
  <2> QED
    BY <1>0, <1>7, <2>1, QuietTree, Zenon DEF WaitDown, WaitReturn, Exited, Looping
<1>8. ASSUME NEW p \in Proc, ExitLoop(p)
      PROVE  TreeInv'
  <2>1. Intact /\ Quiet(p)
    BY <1>8, QuietSteps, Zenon
  <2>2. at[p] >= 1
    BY <1>8, <2>1, Zenon DEF ExitLoop, IInv, TreeInv, Looping
  <2>3. pc'[p] = "counting" => at[p] \in DOMAIN child_processes[p]
    BY <1>0, <1>8, <2>1, <2>2, ChildFacts DEF ExitLoop
  <2>4. pc'[p] # "counted" /\ ~Exited(p) /\ UNCHANGED <<child_processes, at>>
    BY <1>0, <1>8, Zenon DEF ExitLoop, Exited
  <2> QED
    BY <2>1, <2>2, <2>3, <2>4, QuietTree, Zenon
<1>9. ASSUME NEW p \in Proc, ExitCount(p)
      PROVE  TreeInv'
  <2>1. Intact /\ Quiet(p)
    BY <1>9, QuietSteps, Zenon
  <2>2. at[p] >= 1 /\ at[p] \in DOMAIN child_processes[p]
    BY <1>9, <2>1, Zenon DEF ExitCount, IInv, TreeInv, Looping
  <2>3. ~Exited(p) /\ UNCHANGED <<child_processes, at>>
    BY <1>0, <1>9, Zenon DEF ExitCount, Exited
  <2> QED
    BY <2>1, <2>2, <2>3, QuietTree, Zenon
<1>10. ASSUME NEW p \in Proc, ExitNext(p)
       PROVE  TreeInv'
  <2>1. Intact /\ Quiet(p)
    BY <1>10, QuietSteps, Zenon
  <2>2. pc'[p] = "exit" /\ at' = [at EXCEPT ![p] = @ + 1]
    BY <1>0, <1>10, Zenon DEF ExitNext, Intact
  <2>3. ~Exited(p) /\ UNCHANGED child_processes
    BY <1>0, <1>10, Zenon DEF ExitNext, Exited
  <2>4. at'[p] >= 1 /\ \A q \in Proc \ {p} : at'[q] = at[q]
    BY <1>0, <2>2
  <2> QED
    BY <2>1, <2>2, <2>3, <2>4, QuietTree, Zenon
<1>11. ASSUME NEW p \in Proc, ExitDelete(p)
       PROVE  TreeInv'
  <2>1. Intact /\ Quiet(p)
    BY <1>11, QuietSteps, Zenon
  <2>2. CASE delete_children[p] = <<>>
    BY <1>0, <1>11, <2>1, <2>2, QuietTree, Zenon DEF ExitDelete, Exited, Looping
  <2>3. CASE delete_children[p] # <<>>
    <3> DEFINE c == Head(delete_children[p])
               l == Without(child_processes[p], Position(p, c))
    <3>1. /\ c \in Proc
          /\ c \in Children(p)
          /\ Range(l) = Children(p) \ {c}
          /\ IsInjective(l)
      BY <1>11, <2>3, DeletingFacts, Zenon DEF ExitDelete
    <3>2. /\ pc[p] = "delete"
          /\ UNCHANGED <<pc, parent, has_parent_status, at>>
          /\ child_processes' = [child_processes EXCEPT ![p] = l]
          /\ ws' = [ws EXCEPT ![c] = "freed"]
      BY <1>0, <1>11, <2>3, Zenon DEF ExitDelete, Intact
    <3> HIDE DEF c, l
    <3>3. /\ Children(p)' = Children(p) \ {c}
          /\ \A q \in Proc \ {p} : Children(q)' = Children(q)
                                /\ child_processes'[q] = child_processes[q]
          /\ child_processes'[p] = l
      BY <1>0, <3>1, <3>2, Zenon DEF Children
    <3>4. ws'[c] = "freed" /\ \A d \in Proc \ {c} : ws'[d] = ws[d]
      BY <1>0, <3>1, <3>2, Zenon
    <3>5. parent[c] = p /\ ws[c] # "none" /\ \A q \in Proc : Children(q) \subseteq Proc
      BY <2>1, <3>1, ChildFacts, Zenon
    <3>6. (\A q \in Proc : IsInjective(child_processes[q]))'
      BY <2>1, <3>1, <3>3, Zenon DEF IInv, TreeInv
    <3>7. (\A q \in Proc : \A d \in Children(q) : parent[d] = q /\ ws[d] # "none")'
      BY <2>1, <3>2, <3>3, <3>4, <3>5 DEF IInv, TreeInv
    <3>8. (\A d \in Proc :
              /\ has_parent_status[d] <=> ws[d] # "none"
              /\ ws[d] # "none" => parent[d] \in Proc \ {d}
              /\ ws[d] # "none" /\ d \notin Children(parent[d]) =>
                    ws[d] = "freed" /\ Exited(parent[d]))'
      <4> SUFFICES ASSUME NEW d \in Proc
                   PROVE  (/\ has_parent_status[d] <=> ws[d] # "none"
                           /\ ws[d] # "none" => parent[d] \in Proc \ {d}
                           /\ ws[d] # "none" /\ d \notin Children(parent[d]) =>
                                 ws[d] = "freed" /\ Exited(parent[d]))'
        BY Zenon
      <4>1. /\ has_parent_status[d] <=> ws[d] # "none"
            /\ ws[d] # "none" => parent[d] \in Proc \ {d}
            /\ ws[d] # "none" /\ d \notin Children(parent[d]) =>
                  ws[d] = "freed" /\ Exited(parent[d])
        BY <2>1, Zenon DEF IInv, TreeInv
      <4>2. CASE d = c
        BY <3>2, <3>4, <3>5, <4>1, <4>2, Zenon DEF Exited
      <4>3. CASE d # c
        BY <3>2, <3>3, <3>4, <4>1, <4>3, Zenon DEF Exited
      <4> QED
        BY <4>2, <4>3, Zenon
    <3>9. (\A q \in Proc : Looping(q) => at[q] >= 1)'
      BY <2>1, <3>2, Zenon DEF IInv, TreeInv, Looping
    <3>10. (\A q \in Proc :
               pc[q] \in {"counting", "counted"} => at[q] \in DOMAIN child_processes[q])'
      BY <2>1, <3>2, <3>3, Zenon DEF IInv, TreeInv
    <3> QED
      BY <3>6, <3>7, <3>8, <3>9, <3>10, Zenon DEF TreeInv
  <2> QED
    BY <2>2, <2>3, Zenon
<1>12. ASSUME NEW p \in Proc,
              Leave(p) \/ LeaveCount(p) \/ LeaveFree(p) \/ LeaveNotify(p)
       PROVE  TreeInv'
  <2>1. Intact /\ Quiet(p)
    BY <1>12, QuietSteps, Zenon
  <2>2. Exited(p) /\ UNCHANGED <<child_processes, at>>
    BY <1>12, Zenon DEF Leave, LeaveCount, LeaveFree, LeaveNotify, Exited
  <2>3. pc'[p] \in {"leaving", "notify", "free", "dead"}
    BY <1>0, <1>12, Zenon DEF Leave, LeaveCount, LeaveFree, LeaveNotify, Intact
  <2> QED
    BY <2>1, <2>2, <2>3, QuietTree, Zenon DEF Exited, Looping
<1>13. CASE UNCHANGED vars
  BY <1>13, Zenon DEF vars, IInv, TreeInv, Intact, Children, Exited, Looping
<1> QED
  BY <1>1, <1>2, <1>3, <1>4, <1>5, <1>6, <1>7, <1>8, <1>9, <1>10, <1>11, <1>12, <1>13, Zenon
     DEF Next, Step

\* A step of p changes nothing that belongs to another process.
Local(p) ==
    /\ UNCHANGED parent
    /\ \A q \in Proc \ {p} : /\ pc'[q] = pc[q]
                             /\ at'[q] = at[q]
                             /\ child_processes'[q] = child_processes[q]

\* All steps but the start of a process are local.
LEMMA LocalSteps ==
    ASSUME IInv, NEW p \in Proc, Step(p) \/ (\E c \in Proc : ProcessWait(p, c))
                                         \/ (\E code \in Code : Exit(p, code))
    PROVE  Local(p)
<1> USE DEF Local, Goto, loadVars, statusVars, exitVars
<1>0. /\ pc \in [Proc -> PC]
      /\ at \in [Proc -> Nat]
      /\ child_processes \in [Proc -> Seq(Proc)]
  BY Zenon DEF IInv, TypeOK
<1>1. CASE Load(p) \/ StartProcess(p) \/ WaitDown(p) \/ WaitReturn(p)
  BY <1>0, <1>1, Zenon DEF Load, StartProcess, WaitDown, WaitReturn
<1>2. CASE Loaded(p)
  BY <1>0, <1>2, Zenon DEF Loaded
<1>3. CASE ExitLoop(p) \/ ExitCount(p) \/ ExitNext(p)
  BY <1>0, <1>3, Zenon DEF ExitLoop, ExitCount, ExitNext
<1>4. CASE ExitDelete(p)
  BY <1>0, <1>4, Zenon DEF ExitDelete
<1>5. CASE Leave(p) \/ LeaveCount(p) \/ LeaveFree(p) \/ LeaveNotify(p)
  BY <1>0, <1>5, Zenon DEF Leave, LeaveCount, LeaveFree, LeaveNotify
<1>6. ASSUME NEW c \in Proc, ProcessWait(p, c)
      PROVE  Local(p)
  BY <1>0, <1>6, Zenon DEF ProcessWait
<1>7. ASSUME NEW code \in Code, Exit(p, code)
      PROVE  Local(p)
  BY <1>0, <1>7, Zenon DEF Exit
<1> QED
  BY <1>1, <1>2, <1>3, <1>4, <1>5, <1>6, <1>7, Zenon DEF Step

\* The exit code of a process reaches its parent at most once, and unchanged.
LEMMA WaitNext ==
    ASSUME IInv, [Next]_vars, Intact'
    PROVE  WaitInv'
<1> USE DEF Goto, loadVars, statusVars, exitVars
<1>0. /\ pc \in [Proc -> PC]
      /\ on \in [Proc -> Proc \cup {None}]
      /\ ws \in [Proc -> {"none", "live", "freed"}]
      /\ child_exit_sem \in [Proc -> 0..1]
      /\ child_exit_code \in [Proc -> Code \cup {-1, -2}]
      /\ waited \in [Proc -> Seq(Code \cup {-1, -2})]
      /\ exited \in [Proc -> Code \cup {None}]
  BY Zenon DEF IInv, TypeOK
<1>a. ASSUME Intact
      PROVE  /\ \A p \in Proc : Waiter(p) /\ Coded(p) /\ Upped(p) /\ Taken(p)
             /\ \A p \in Proc : pc[p] \in {"wait", "waited"} =>
                   on[p] \in Proc /\ parent[on[p]] = p /\ ws[on[p]] # "none"
  BY <1>a, ChildFacts, Zenon DEF IInv, WaitInv, Waiter
\* A step of p that touches neither lists nor codes.
<1>c. ASSUME NEW p \in Proc, Intact,
             \E l \in PC : /\ pc' = [pc EXCEPT ![p] = l]
                           /\ l \notin {"wait", "waited"}
                           /\ pc[p] = "dead" => l = "dead"
                           /\ ws[p] # "none" /\ l # "user" => Looping(p) \/ Exited(p),
             \A q \in Proc \ {p} : on'[q] = on[q] /\ Children(q) \subseteq Children(q)',
             \A c \in Proc : ws'[c] # "none" <=> ws[c] # "none",
             UNCHANGED <<child_exit_sem, child_exit_code, waited, exited>>
      PROVE  WaitInv'
  <2>1. PICK l \in PC : /\ pc' = [pc EXCEPT ![p] = l]
                        /\ l \notin {"wait", "waited"}
                        /\ pc[p] = "dead" => l = "dead"
                        /\ ws[p] # "none" /\ l # "user" => Looping(p) \/ Exited(p)
    BY <1>c, Zenon
  <2>2. pc'[p] = l /\ \A q \in Proc \ {p} : pc'[q] = pc[q]
    BY <1>0, <2>1, Zenon
  <2>3. ASSUME NEW q \in Proc
        PROVE  Waiter(q)'
    <3>1. CASE q = p
      BY <2>1, <2>2, <3>1, Zenon DEF Waiter
    <3>2. CASE q # p
      BY <1>a, <1>c, <2>1, <2>2, <3>2 DEF Waiter, Coded, Upped, Taken
    <3> QED
      BY <3>1, <3>2, Zenon
  <2>4. ASSUME NEW q \in Proc
        PROVE  Coded(q)'
    <3>1. CASE q = p
      BY <1>a, <1>c, <2>1, <2>2, <3>1, Zenon DEF Looping, Exited, Waiter, Coded, Upped, Taken
    <3>2. CASE q # p
      BY <1>a, <1>c, <2>2, <3>2, Zenon DEF Looping, Exited, Waiter, Coded, Upped, Taken
    <3> QED
      BY <3>1, <3>2, Zenon
  <2>5. ASSUME NEW q \in Proc
        PROVE  Upped(q)' /\ Taken(q)'
    BY <1>a, <1>c, <2>1, <2>2 DEF Waiter, Coded, Upped, Taken
  <2> QED
    BY <2>3, <2>4, <2>5, Zenon DEF WaitInv
<1>1. ASSUME NEW p \in Proc, NEW c \in Proc, ProcessExecute(p, c)
      PROVE  WaitInv'
  <2>1. Intact /\ c # p /\ pc[p] = "user" /\ pc[c] = "none"
    BY <1>1, Zenon DEF ProcessExecute
  <2>2. /\ pc'[p] = "execute" /\ pc'[c] = "load"
        /\ \A q \in Proc \ {p, c} : pc'[q] = pc[q]
        /\ \A q \in Proc \ {p} : on'[q] = on[q]
        /\ UNCHANGED <<child_processes, ws, child_exit_sem, child_exit_code, waited, exited>>
    BY <1>0, <1>1, <2>1, Zenon DEF ProcessExecute
  <2>3. ASSUME NEW q \in Proc
        PROVE  Waiter(q)'
    BY <1>a, <2>1, <2>2 DEF Children, Waiter, Coded, Upped, Taken
  <2>4. ASSUME NEW q \in Proc
        PROVE  Coded(q)' /\ Upped(q)' /\ Taken(q)'
    BY <1>a, <2>1, <2>2 DEF Looping, Exited, Waiter, Coded, Upped, Taken
  <2> QED
    BY <2>3, <2>4, Zenon DEF WaitInv
<1>2. ASSUME NEW p \in Proc, NEW c \in Proc, ProcessWait(p, c)
      PROVE  WaitInv'
  <2>1. Intact /\ pc[p] = "user" /\ c \in Children(p)
    BY <1>2, Zenon DEF ProcessWait, Children
  <2>2. /\ pc'[p] = "wait" /\ on'[p] = c
        /\ \A q \in Proc \ {p} : pc'[q] = pc[q] /\ on'[q] = on[q]
        /\ UNCHANGED <<child_processes, ws, child_exit_sem, child_exit_code, waited, exited>>
    BY <1>0, <1>2, Zenon DEF ProcessWait
  <2>3. ASSUME NEW q \in Proc
        PROVE  Waiter(q)'
    BY <1>a, <2>1, <2>2 DEF Children, Waiter, Coded, Upped, Taken
  <2>4. ASSUME NEW q \in Proc
        PROVE  Coded(q)' /\ Upped(q)' /\ Taken(q)'
    BY <1>a, <2>1, <2>2 DEF Looping, Exited, Waiter, Coded, Upped, Taken
  <2> QED
    BY <2>3, <2>4, Zenon DEF WaitInv
<1>3. ASSUME NEW p \in Proc, NEW code \in Code, Exit(p, code)
      PROVE  WaitInv'
  <2>1. Intact /\ pc[p] = "user"
    BY <1>3, Zenon DEF Exit
  <2>2. /\ pc'[p] = "exit"
        /\ exited'[p] = code
        /\ has_parent_status[p] => child_exit_code'[p] = code
        /\ \A q \in Proc \ {p} : /\ pc'[q] = pc[q]
                                 /\ exited'[q] = exited[q]
                                 /\ child_exit_code'[q] = child_exit_code[q]
        /\ UNCHANGED <<on, child_processes, ws, child_exit_sem, waited>>
    BY <1>0, <1>3, Zenon DEF Exit
  <2>3. ws[p] # "none" => has_parent_status[p]
    BY <2>1, Zenon DEF IInv, TreeInv
  <2>4. ASSUME NEW q \in Proc
        PROVE  Waiter(q)'
    BY <1>a, <2>1, <2>2 DEF Children, Waiter, Coded, Upped, Taken
  <2>5. ASSUME NEW q \in Proc
        PROVE  Coded(q)'
    BY <1>a, <2>1, <2>2, <2>3 DEF Looping, Exited, Waiter, Coded, Upped, Taken
  <2>6. ASSUME NEW q \in Proc
        PROVE  Upped(q)' /\ Taken(q)'
    BY <1>a, <2>1, <2>2 DEF Waiter, Coded, Upped, Taken
  <2> QED
    BY <2>4, <2>5, <2>6, Zenon DEF WaitInv
<1>4. ASSUME NEW p \in Proc, Load(p)
      PROVE  WaitInv'
  <2>1. Intact /\ ws[p] = "none" /\ pc[p] = "load"
    BY <1>4, Zenon DEF Load, IInv, LoadInv
  <2>2. /\ \E l \in PC \ {"wait", "waited"} : pc' = [pc EXCEPT ![p] = l]
        /\ UNCHANGED <<on, child_processes, ws, child_exit_sem, child_exit_code, waited, exited>>
    BY <1>4, Zenon DEF Load, PC
  <2> QED
    BY <1>c, <2>1, <2>2, Zenon DEF Children
<1>5. ASSUME NEW p \in Proc, Loaded(p)
      PROVE  WaitInv'
  <2>0. PICK c \in Proc : c = on[p]
    BY <1>5, LoadedFacts, Zenon DEF Loaded
  <2>1. /\ Intact
        /\ pc[p] = "execute"
        /\ ws[c] = "none"
        /\ success[c] => pc[c] = "start"
    BY <1>5, <2>0, LoadedFacts, Zenon DEF Loaded
  <2>2. /\ pc' = [pc EXCEPT ![p] = "user"]
        /\ on' = [on EXCEPT ![p] = None]
        /\ \/ child_processes' = [child_processes EXCEPT ![p] = Append(@, c)]
           \/ child_processes' = child_processes
        /\ \/ success[c] /\ ws' = [ws EXCEPT ![c] = "live"]
           \/ UNCHANGED ws
        /\ UNCHANGED <<child_exit_sem, child_exit_code, waited, exited>>
    BY <1>5, <2>0, Zenon DEF Loaded
  <2>3. /\ pc'[p] = "user"
        /\ \A q \in Proc \ {p} : pc'[q] = pc[q] /\ on'[q] = on[q]
        /\ \A q \in Proc \ {c} : ws'[q] = ws[q]
        /\ ws'[c] = "none" \/ (ws'[c] = "live" /\ pc[c] = "start")
    BY <1>0, <2>1, <2>2, Zenon
  <2>4. \A q \in Proc \ {p} : Children(q)' = Children(q)
    <3>1. child_processes \in [Proc -> Seq(Proc)]
      BY Zenon DEF IInv, TypeOK
    <3> QED
      BY <2>2, <3>1, Zenon DEF Children
  <2>5. ASSUME NEW q \in Proc
        PROVE  Waiter(q)'
    BY <1>a, <2>1, <2>2, <2>3, <2>4 DEF Waiter, Coded, Upped, Taken
  <2>6. ASSUME NEW q \in Proc
        PROVE  Coded(q)'
    BY <1>a, <2>1, <2>2, <2>3 DEF Looping, Exited, Waiter, Coded, Upped, Taken
  <2>7. ASSUME NEW q \in Proc
        PROVE  Upped(q)' /\ Taken(q)'
    BY <1>a, <2>1, <2>2, <2>3 DEF Waiter, Coded, Upped, Taken
  <2> QED
    BY <2>5, <2>6, <2>7, Zenon DEF WaitInv
<1>6. ASSUME NEW p \in Proc, StartProcess(p)
      PROVE  WaitInv'
  <2>1. /\ Intact
        /\ pc[p] = "start"
        /\ pc' = [pc EXCEPT ![p] = "user"]
        /\ UNCHANGED <<on, child_processes, ws, child_exit_sem, child_exit_code, waited, exited>>
    BY <1>6, Zenon DEF StartProcess
  <2> QED
    BY <1>c, <2>1, Zenon DEF Children, PC
<1>7. ASSUME NEW p \in Proc, WaitDown(p)
      PROVE  WaitInv'
  <2>0. PICK c \in Proc : c = on[p]
    BY <1>7, <1>a, Zenon DEF WaitDown, Waiter, Coded, Upped, Taken
  <2>1. Intact /\ pc[p] = "wait" /\ c \in Children(p) /\ child_exit_sem[c] = 1
    BY <1>0, <1>7, <1>a, <2>0 DEF WaitDown, Waiter, Coded, Upped, Taken
  <2>2. /\ pc'[p] = "waited"
        /\ child_exit_sem'[c] = 0
        /\ \A q \in Proc \ {p} : pc'[q] = pc[q]
        /\ \A q \in Proc \ {c} : child_exit_sem'[q] = child_exit_sem[q]
        /\ UNCHANGED <<on, child_processes, ws, child_exit_code, waited, exited>>
    BY <1>0, <1>7, <2>0, <2>1 DEF WaitDown
  <2>3. pc[c] = "dead" /\ waited[c] = <<>>
    BY <1>a, <2>1, Zenon DEF Waiter, Coded, Upped, Taken
  <2>4. ASSUME NEW q \in Proc
        PROVE  Waiter(q)'
    <3>1. CASE q = p
      BY <2>0, <2>1, <2>2, <2>3, <3>1, Zenon DEF Children, Waiter
    <3>2. CASE q # p
      BY <1>a, <2>1, <2>2, <3>2 DEF Children, Waiter, Coded, Upped, Taken
    <3> QED
      BY <3>1, <3>2, Zenon
  <2>5. ASSUME NEW q \in Proc
        PROVE  Coded(q)' /\ Upped(q)' /\ Taken(q)'
    BY <1>a, <2>1, <2>2 DEF Looping, Exited, Waiter, Coded, Upped, Taken
  <2> QED
    BY <2>4, <2>5, Zenon DEF WaitInv
<1>8. ASSUME NEW p \in Proc, WaitReturn(p)
      PROVE  WaitInv'
  <2>0. PICK c \in Proc : c = on[p]
    BY <1>8, <1>a, Zenon DEF WaitReturn, Waiter, Coded, Upped, Taken
  <2>1. /\ Intact /\ pc[p] = "waited"
        /\ parent[c] = p /\ ws[c] # "none"
        /\ pc[c] = "dead" /\ child_exit_sem[c] = 0 /\ waited[c] = <<>>
    BY <1>8, <1>a, <2>0, Zenon DEF WaitReturn, Waiter, Coded, Upped, Taken
  <2>2. child_exit_code[c] = exited[c]
    BY <1>a, <2>1, Zenon DEF Exited, Waiter, Coded, Upped, Taken
  <2>3. /\ pc'[p] = "user"
        /\ waited'[c] = Append(<<>>, exited[c])
        /\ \A q \in Proc \ {p} : pc'[q] = pc[q] /\ on'[q] = on[q]
        /\ \A q \in Proc \ {c} : /\ waited'[q] = waited[q]
                                 /\ child_exit_code'[q] = child_exit_code[q]
        /\ UNCHANGED <<child_processes, ws, child_exit_sem, exited>>
    BY <1>0, <1>8, <2>0, <2>1, <2>2, Zenon DEF WaitReturn
  <2>4. waited'[c] = <<exited[c]>> /\ waited'[c] # <<>>
    BY <2>3
  <2>5. \A q \in Proc \ {p} : pc[q] \in {"wait", "waited"} => on[q] # c
    BY <1>a, <2>1 DEF Waiter, Coded, Upped, Taken
  <2>6. ASSUME NEW q \in Proc
        PROVE  Waiter(q)'
    <3>1. CASE q = p
      BY <2>3, <3>1, Zenon DEF Waiter
    <3>2. CASE q # p
      <4>1. pc'[q] = pc[q] /\ on'[q] = on[q] /\ Waiter(q)
        BY <1>a, <2>1, <2>3, <3>2, Zenon DEF Waiter, Coded, Upped, Taken
      <4>2. pc[q] = "waited" => pc'[on[q]] = "dead" /\ waited'[on[q]] = <<>>
        BY <1>a, <2>1, <2>3, <2>5, <3>2, <4>1 DEF Waiter, Coded, Upped, Taken
      <4> QED
        BY <2>3, <4>1, <4>2, Zenon DEF Children, Waiter
    <3> QED
      BY <3>1, <3>2, Zenon
  <2>7. ASSUME NEW q \in Proc
        PROVE  Coded(q)' /\ Upped(q)' /\ Taken(q)'
    <3>1. CASE q = c
      BY <2>1, <2>3, <2>4, <3>1 DEF Coded, Upped, Taken
    <3>2. CASE q # c
      BY <1>a, <2>1, <2>3, <3>2 DEF Looping, Exited, Waiter, Coded, Upped, Taken
    <3> QED
      BY <3>1, <3>2, Zenon
  <2> QED
    BY <2>6, <2>7, Zenon DEF WaitInv
<1>9. ASSUME NEW p \in Proc, ExitLoop(p) \/ ExitCount(p) \/ ExitNext(p)
      PROVE  WaitInv'
  <2>1. /\ Intact
        /\ Looping(p)
        /\ UNCHANGED <<on, child_processes, ws, child_exit_sem, child_exit_code, waited, exited>>
    BY <1>9, Zenon DEF ExitLoop, ExitCount, ExitNext, Looping
  <2>2. \E l \in {"exit", "counting", "counted", "delete", "corrupt"} : pc' = [pc EXCEPT ![p] = l]
    BY <1>9, Zenon DEF ExitLoop, ExitCount, ExitNext
  <2>3. \E l \in PC : /\ pc' = [pc EXCEPT ![p] = l]
                      /\ l \notin {"wait", "waited"}
                      /\ pc[p] = "dead" => l = "dead"
                      /\ ws[p] # "none" /\ l # "user" => Looping(p) \/ Exited(p)
    BY <2>1, <2>2, Zenon DEF PC, Looping
  <2> QED
    BY <1>c, <2>1, <2>3, Zenon DEF Children
<1>10. ASSUME NEW p \in Proc, ExitDelete(p)
       PROVE  WaitInv'
  <2>1. Intact /\ Quiet(p) /\ Local(p)
    BY <1>10, QuietSteps, LocalSteps, Zenon DEF Step
  <2>2. /\ pc[p] = "delete"
        /\ UNCHANGED <<on, child_exit_sem, child_exit_code, waited, exited>>
    BY <1>10, Zenon DEF ExitDelete
  <2>3. pc' = [pc EXCEPT ![p] = "leave"] \/ pc' = [pc EXCEPT ![p] = "delete"]
    BY <1>0, <1>10 DEF ExitDelete, Intact
  <2>4. \E l \in PC : /\ pc' = [pc EXCEPT ![p] = l]
                      /\ l \notin {"wait", "waited"}
                      /\ pc[p] = "dead" => l = "dead"
                      /\ ws[p] # "none" /\ l # "user" => Looping(p) \/ Exited(p)
    BY <2>2, <2>3, Zenon DEF PC, Exited
  <2>5. \A q \in Proc \ {p} : Children(q)' = Children(q)
    BY <2>1, Zenon DEF Local, Children
  <2>6. \A c \in Proc : ws'[c] # "none" <=> ws[c] # "none"
    BY <2>1, Zenon DEF Quiet
  <2> QED
    BY <1>c, <2>1, <2>2, <2>4, <2>5, <2>6, Zenon
<1>11. ASSUME NEW p \in Proc, Leave(p) \/ LeaveCount(p) \/ LeaveFree(p)
       PROVE  WaitInv'
  <2>1. Intact /\ Quiet(p)
    BY <1>11, QuietSteps, Zenon
  <2>2. /\ Exited(p) /\ pc[p] # "dead"
        /\ UNCHANGED <<on, child_processes, child_exit_sem, child_exit_code, waited, exited>>
    BY <1>11, Zenon DEF Leave, LeaveCount, LeaveFree, Exited
  <2>3. \E l \in {"leaving", "dead", "free", "notify"} : pc' = [pc EXCEPT ![p] = l]
    BY <1>11, Zenon DEF Leave, LeaveCount, LeaveFree
  <2>4. \E l \in PC : /\ pc' = [pc EXCEPT ![p] = l]
                      /\ l \notin {"wait", "waited"}
                      /\ pc[p] = "dead" => l = "dead"
                      /\ ws[p] # "none" /\ l # "user" => Looping(p) \/ Exited(p)
    BY <2>2, <2>3, Zenon DEF PC
  <2>5. \A c \in Proc : ws'[c] # "none" <=> ws[c] # "none"
    BY <2>1, Zenon DEF Quiet
  <2> QED
    BY <1>c, <2>1, <2>2, <2>4, <2>5, Zenon DEF Children
<1>12. ASSUME NEW p \in Proc, LeaveNotify(p)
       PROVE  WaitInv'
  <2>1. Intact /\ pc[p] = "notify" /\ ws[p] # "none"
    BY <1>12, Zenon DEF LeaveNotify, IInv, DeleteInv
  <2>2. /\ pc'[p] = "dead"
        /\ child_exit_sem' = [child_exit_sem EXCEPT ![p] = @ + 1]
        /\ \A q \in Proc \ {p} : pc'[q] = pc[q]
        /\ UNCHANGED <<on, child_processes, ws, child_exit_code, waited, exited>>
    BY <1>0, <1>12, Zenon DEF LeaveNotify, Intact
  <2>3. waited[p] = <<>> /\ \A q \in Proc \ {p} : child_exit_sem'[q] = child_exit_sem[q]
    BY <1>0, <1>a, <2>1, <2>2, Zenon DEF Waiter, Coded, Upped, Taken
  <2>4. \A q \in Proc : pc[q] = "waited" => on[q] # p /\ on[q] \in Proc
    BY <1>a, <2>1, Zenon DEF Waiter, Coded, Upped, Taken
  <2>5. ASSUME NEW q \in Proc
        PROVE  Waiter(q)'
    <3>1. CASE q = p
      BY <2>2, <3>1, Zenon DEF Waiter
    <3>2. CASE q # p
      BY <1>a, <2>1, <2>2, <2>3, <2>4, <3>2 DEF Children, Waiter, Coded, Upped, Taken
    <3> QED
      BY <3>1, <3>2, Zenon
  <2>6. ASSUME NEW q \in Proc
        PROVE  Coded(q)' /\ Upped(q)' /\ Taken(q)'
    <3>1. CASE q = p
      BY <1>a, <2>1, <2>2, <2>3, <3>1, Zenon DEF Looping, Exited, Waiter, Coded, Upped, Taken
    <3>2. CASE q # p
      BY <1>a, <2>1, <2>2, <2>3, <3>2 DEF Looping, Exited, Waiter, Coded, Upped, Taken
    <3> QED
      BY <3>1, <3>2, Zenon
  <2> QED
    BY <2>5, <2>6, Zenon DEF WaitInv
<1>13. ASSUME UNCHANGED vars
       PROVE  WaitInv'
  <2>1. /\ Intact
        /\ UNCHANGED <<pc, on, child_processes, ws, child_exit_sem, child_exit_code, waited,
                       exited>>
    BY <1>13, Zenon DEF vars, Intact
  <2> QED
    BY <1>a, <2>1, Zenon DEF Children, Looping, Exited, WaitInv, Waiter, Coded, Upped, Taken
<1> QED
  BY <1>1, <1>2, <1>3, <1>4, <1>5, <1>6, <1>7, <1>8, <1>9, <1>10, <1>11, <1>12, <1>13, Zenon
     DEF Next, Step

-----------------------------------------------------------------------------
(* The counts of users, and the theorems.                                  *)

\* Only ExitCount takes a parent off a status.
LEMMA ParentLeftNext ==
    ASSUME IInv, [Next]_vars, Intact', NEW c \in Proc, ws[c] # "none",
           ~ \E p \in Proc : ExitCount(p) /\ c = Current(p)
    PROVE  ParentLeft(c)' <=> ParentLeft(c)
<1> USE DEF Goto, loadVars, statusVars, exitVars
<1>0. /\ pc \in [Proc -> PC]
      /\ at \in [Proc -> Nat]
      /\ child_processes \in [Proc -> Seq(Proc)]
      /\ parent \in [Proc -> Proc \cup {None}]
  BY Zenon DEF IInv, TypeOK
<1> DEFINE q == parent[c]
           l == child_processes[q]
<1>a. ASSUME Intact
      PROVE  /\ q \in Proc
             /\ ~Exited(q) => c \in Children(q)
             /\ DOMAIN l = 1..Len(l)
             /\ Len(l) \in Nat
  BY <1>a, ChildFacts, Zenon DEF IInv, TreeInv
<1>c. ASSUME Intact, ~Exited(q)
      PROVE  \E i \in 1..Len(l) : l[i] = c
  <2>1. q \in Proc /\ c \in Children(q) /\ DOMAIN l = 1..Len(l)
    BY <1>a, <1>c, Zenon
  <2>2. \E i \in DOMAIN child_processes[q] : child_processes[q][i] = c
    <3> HIDE DEF q
    <3> QED
      BY <1>c, <2>1, ChildFacts, Zenon
  <2> QED
    BY <2>1, <2>2, Zenon
\* The parent takes no step, or is before or after its loop.
<1>b. ASSUME NEW p \in Proc, Intact, Local(p),
             \/ q # p
             \/ ~Exited(p) /\ ~Looping(p) /\ ~Exited(p)' /\ ~Looping(p)'
             \/ Exited(p) /\ Exited(p)'
      PROVE  ParentLeft(c)' <=> ParentLeft(c)
  <2>1. parent'[c] = q
    BY <1>b, Zenon DEF Local
  <2>2. CASE q # p
    <3>1. child_processes'[q] = l /\ pc'[q] = pc[q] /\ at'[q] = at[q]
      BY <1>a, <1>b, <2>2, Zenon DEF Local
    <3> QED
      BY <2>1, <3>1, Zenon DEF ParentLeft
  <2>3. CASE q = p /\ ~Exited(p) /\ ~Looping(p) /\ ~Exited(p)' /\ ~Looping(p)'
    BY <2>1, <2>3, Zenon DEF ParentLeft, Exited, Looping
  <2>4. CASE q = p /\ Exited(p) /\ Exited(p)'
    BY <2>1, <2>4, Zenon DEF ParentLeft, Exited
  <2> QED
    BY <1>b, <2>2, <2>3, <2>4, Zenon
<1> HIDE DEF q, l
<1>1. ASSUME NEW p \in Proc, NEW d \in Proc, ProcessExecute(p, d)
      PROVE  ParentLeft(c)' <=> ParentLeft(c)
  <2>1. ws[d] = "none" /\ Intact
    BY <1>1, Zenon DEF ProcessExecute, IInv, LoadInv
  <2>2. parent'[c] = q /\ child_processes'[q] = l /\ at'[q] = at[q]
    BY <1>0, <1>1, <2>1, Zenon DEF ProcessExecute, q, l
  <2>3. \/ pc'[q] = pc[q]
        \/ pc[q] \in {"user", "none"} /\ pc'[q] \in {"execute", "load"}
    BY <1>0, <1>1, <1>a, <2>1, Zenon DEF ProcessExecute
  <2> QED
    BY <2>2, <2>3, Zenon DEF ParentLeft, q, l
<1>2. ASSUME NEW p \in Proc, NEW d \in Proc, ProcessWait(p, d)
      PROVE  ParentLeft(c)' <=> ParentLeft(c)
  BY <1>0, <1>2, <1>b, LocalSteps, Zenon DEF ProcessWait, Exited, Looping
<1>3. ASSUME NEW p \in Proc, NEW code \in Code, Exit(p, code)
      PROVE  ParentLeft(c)' <=> ParentLeft(c)
  <2>1. Intact /\ Local(p) /\ parent'[c] = q
    BY <1>3, LocalSteps, Zenon DEF Exit, Local, q
  <2>2. CASE q = p
    <3>1. pc[q] = "user" /\ pc'[q] = "exit" /\ at'[q] = 1 /\ child_processes'[q] = l
      BY <1>0, <1>3, <2>2, Zenon DEF Exit, l
    <3> QED
      BY <1>a, <2>1, <3>1 DEF ParentLeft, q
  <2> QED
    BY <1>b, <2>1, <2>2, Zenon
<1>4. ASSUME NEW p \in Proc, Load(p)
      PROVE  ParentLeft(c)' <=> ParentLeft(c)
  <2>1. Intact /\ Local(p) /\ parent'[c] = q
    BY <1>4, LocalSteps, Zenon DEF Load, Local, Step, q
  <2>2. CASE q = p
    <3>1. /\ pc[q] = "load"
          /\ pc'[q] = "start" \/ (pc'[q] = "exit" /\ at'[q] = 1)
          /\ child_processes'[q] = l
      BY <1>0, <1>4, <2>2, Zenon DEF Load, l
    <3> QED
      BY <1>a, <2>1, <3>1 DEF ParentLeft, q
  <2> QED
    BY <1>b, <2>1, <2>2, Zenon
<1>5. ASSUME NEW p \in Proc, Loaded(p) \/ StartProcess(p) \/ WaitDown(p) \/ WaitReturn(p)
      PROVE  ParentLeft(c)' <=> ParentLeft(c)
  <2>1. Intact /\ Local(p)
    BY <1>5, LocalSteps, Zenon DEF Loaded, StartProcess, WaitDown, WaitReturn, Step
  <2>2. ~Exited(p) /\ ~Looping(p) /\ ~Exited(p)' /\ ~Looping(p)'
    BY <1>0, <1>5, Zenon DEF Loaded, StartProcess, WaitDown, WaitReturn, Exited, Looping
  <2> QED
    BY <1>b, <2>1, <2>2, Zenon
<1>6. ASSUME NEW p \in Proc, ExitLoop(p)
      PROVE  ParentLeft(c)' <=> ParentLeft(c)
  <2>1. Intact /\ Local(p) /\ parent'[c] = q
    BY <1>6, LocalSteps, Zenon DEF ExitLoop, Local, Step, q
  <2>2. CASE q = p
    <3>1. /\ pc[q] = "exit" /\ at'[q] = at[q] /\ child_processes'[q] = l
          /\ \/ pc'[q] = "counting"
             \/ pc'[q] = "delete" /\ at[q] > Len(l)
      BY <1>0, <1>6, <2>2, Zenon DEF ExitLoop, l
    <3>2. \E i \in 1..Len(l) : l[i] = c
      <4>1. ~Exited(q)
        BY <3>1 DEF Exited
      <4> QED
        BY <1>c, <2>1, <4>1, Zenon
    <3>3. at[q] \in Nat
      BY <1>0, <1>a, <2>1, Zenon
    <3> QED
      BY <1>a, <2>1, <3>1, <3>2, <3>3 DEF ParentLeft, q, l
  <2> QED
    BY <1>b, <2>1, <2>2, Zenon
<1>7. ASSUME NEW p \in Proc, ExitCount(p)
      PROVE  ParentLeft(c)' <=> ParentLeft(c)
  <2>1. Intact /\ Local(p) /\ parent'[c] = q
    BY <1>7, LocalSteps, Zenon DEF ExitCount, Local, Step, q
  <2>2. CASE q = p
    <3>1. /\ pc[q] = "counting" /\ pc'[q] = "counted"
          /\ at'[q] = at[q] /\ child_processes'[q] = l
      BY <1>0, <1>7, <2>2, Zenon DEF ExitCount, l
    <3>2. l[at[q]] # c
      BY <1>7, <2>2, Zenon DEF Current, l
    <3> QED
      BY <2>1, <3>1, <3>2, Zenon DEF ParentLeft, q, l
  <2> QED
    BY <1>b, <2>1, <2>2, Zenon
<1>8. ASSUME NEW p \in Proc, ExitNext(p)
      PROVE  ParentLeft(c)' <=> ParentLeft(c)
  <2>1. Intact /\ Local(p) /\ parent'[c] = q
    BY <1>8, LocalSteps, Zenon DEF ExitNext, Local, Step, q
  <2>2. CASE q = p
    <3>1. /\ pc[q] = "counted" /\ pc'[q] = "exit"
          /\ at'[q] = at[q] + 1 /\ child_processes'[q] = l
      BY <1>0, <1>8, <2>2, Zenon DEF ExitNext, Intact, l
    <3>2. at[q] \in Nat
      BY <1>0, <1>a, <2>1, Zenon
    <3>3. \A i \in DOMAIN l : i < at[q] + 1 <=> i < at[q] \/ i = at[q]
      BY <1>a, <2>1, <3>2
    <3> QED
      BY <2>1, <3>1, <3>3, Zenon DEF ParentLeft, q, l
  <2> QED
    BY <1>b, <2>1, <2>2, Zenon
<1>9. ASSUME NEW p \in Proc, ExitDelete(p) \/ Leave(p) \/ LeaveCount(p) \/ LeaveFree(p)
                             \/ LeaveNotify(p)
      PROVE  ParentLeft(c)' <=> ParentLeft(c)
  <2>1. Intact /\ Local(p) /\ Exited(p)
    BY <1>9, LocalSteps, Zenon DEF ExitDelete, Leave, LeaveCount, LeaveFree, LeaveNotify, Step, Exited
  <2>2. Exited(p)'
    BY <1>0, <1>9, Zenon
       DEF ExitDelete, Leave, LeaveCount, LeaveFree, LeaveNotify, Exited, Intact
  <2> QED
    BY <1>b, <2>1, <2>2, Zenon
<1>10. CASE UNCHANGED vars
  BY <1>10, Zenon DEF vars, ParentLeft
<1> QED
  BY <1>1, <1>2, <1>3, <1>4, <1>5, <1>6, <1>7, <1>8, <1>9, <1>10, Zenon DEF Next, Step

\* Only LeaveCount takes a child off its status.
LEMMA ChildLeftNext ==
    ASSUME IInv, [Next]_vars, Intact', NEW c \in Proc, ws[c] # "none", ~LeaveCount(c)
    PROVE  ChildLeft(c)' <=> ChildLeft(c)
<1> USE DEF Goto, loadVars, statusVars, exitVars, ChildLeft
<1>0. pc \in [Proc -> PC]
  BY Zenon DEF IInv, TypeOK
<1>1. ASSUME NEW p \in Proc, NEW d \in Proc, ProcessExecute(p, d) \/ ProcessWait(p, d)
      PROVE  ChildLeft(c)' <=> ChildLeft(c)
  BY <1>0, <1>1, Zenon DEF ProcessExecute, ProcessWait
<1>2. ASSUME NEW p \in Proc, NEW code \in Code, Exit(p, code)
      PROVE  ChildLeft(c)' <=> ChildLeft(c)
  BY <1>0, <1>2, Zenon DEF Exit
<1>3. ASSUME NEW p \in Proc, Load(p) \/ Loaded(p) \/ StartProcess(p) \/ WaitDown(p)
                             \/ WaitReturn(p)
      PROVE  ChildLeft(c)' <=> ChildLeft(c)
  BY <1>0, <1>3, Zenon DEF Load, Loaded, StartProcess, WaitDown, WaitReturn
<1>4. ASSUME NEW p \in Proc, ExitLoop(p) \/ ExitCount(p) \/ ExitNext(p) \/ ExitDelete(p)
      PROVE  ChildLeft(c)' <=> ChildLeft(c)
  BY <1>0, <1>4, Zenon DEF ExitLoop, ExitCount, ExitNext, ExitDelete
<1>5. ASSUME NEW p \in Proc, Leave(p)
      PROVE  ChildLeft(c)' <=> ChildLeft(c)
  <2>1. Intact /\ (p = c => has_parent_status[c])
    BY <1>5, Zenon DEF Leave, IInv, TreeInv
  <2> QED
    BY <1>0, <1>5, <2>1, Zenon DEF Leave
<1>6. ASSUME NEW p \in Proc, LeaveCount(p) \/ LeaveFree(p) \/ LeaveNotify(p)
      PROVE  ChildLeft(c)' <=> ChildLeft(c)
  BY <1>0, <1>6, Zenon DEF LeaveCount, LeaveFree, LeaveNotify, Intact
<1>7. CASE UNCHANGED vars
  BY <1>7, Zenon DEF vars
<1> QED
  BY <1>1, <1>2, <1>3, <1>4, <1>5, <1>6, <1>7, Zenon DEF Next, Step

\* While the count of a status does not change, neither of its users leaves it.
LEMMA CountFrame ==
    ASSUME IInv, [Next]_vars, Intact', NEW c \in Proc, ws[c] # "none", count'[c] = count[c]
    PROVE  (ParentLeft(c)' <=> ParentLeft(c)) /\ (ChildLeft(c)' <=> ChildLeft(c))
<1>0. count \in [Proc -> 0..2]
  BY Zenon DEF IInv, TypeOK
<1>1. ASSUME NEW p \in Proc, ExitCount(p), c = Current(p)
      PROVE  FALSE
  BY <1>0, <1>1, CountingFacts DEF ExitCount
<1>2. ASSUME LeaveCount(c)
      PROVE  FALSE
  BY <1>0, <1>2, LeavingFacts DEF LeaveCount
<1> QED
  BY <1>1, <1>2, ParentLeftNext, ChildLeftNext, Zenon

\* The steps that leave every status, every count and every delete_children alone.
Idle ==
    \E p \in Proc :
        \/ \E c \in Proc : ProcessExecute(p, c) \/ ProcessWait(p, c)
        \/ \E code \in Code : Exit(p, code)
        \/ Load(p) \/ StartProcess(p) \/ WaitDown(p) \/ WaitReturn(p)
        \/ ExitLoop(p) \/ ExitNext(p) \/ Leave(p) \/ LeaveNotify(p)

\* What they leave alone; and they neither bring a process to the point where it
\* frees its status nor past it.
LEMMA IdleFacts ==
    ASSUME IInv, Intact', Idle
    PROVE  /\ Intact
           /\ UNCHANGED <<ws, count, child_processes, delete_children>>
           /\ \A c \in Proc : (pc'[c] = "free" <=> pc[c] = "free")
           /\ \A c \in Proc : ws[c] # "none" => parent'[c] = parent[c]
           /\ \A q \in Proc : Looping(q) \/ pc[q] = "delete" =>
                                 (Looping(q) \/ pc[q] = "delete")'
           /\ \A c \in Proc : pc'[c] \in {"leaving", "notify"} => ws[c] # "none"
<1> USE DEF Goto, loadVars, statusVars, exitVars
<1>0. pc \in [Proc -> PC] /\ parent \in [Proc -> Proc \cup {None}]
  BY Zenon DEF IInv, TypeOK
<1>a. ASSUME Intact
      PROVE  \A c \in Proc : pc[c] \in {"leaving", "notify"} => ws[c] # "none"
  BY <1>a, Zenon DEF IInv, DeleteInv
<1> DEFINE Kept == /\ Intact
                   /\ UNCHANGED <<ws, count, child_processes, delete_children>>
                   /\ \A c \in Proc : ws[c] # "none" => parent'[c] = parent[c]
           Moved(c) == /\ pc'[c] = "free" <=> pc[c] = "free"
                       /\ Looping(c) \/ pc[c] = "delete" =>
                             (Looping(c) \/ pc[c] = "delete")'
                       /\ pc'[c] \in {"leaving", "notify"} => ws[c] # "none"
<1>1. ASSUME NEW p \in Proc, NEW c \in Proc, ProcessExecute(p, c)
      PROVE  Kept /\ \A d \in Proc : Moved(d)
  <2>1. ws[c] = "none"
    BY <1>1, Zenon DEF ProcessExecute, IInv, LoadInv
  <2>2. Kept
    BY <1>0, <1>1, <2>1, Zenon DEF ProcessExecute
  <2>3. \A d \in Proc : Moved(d)
    BY <1>0, <1>1, <1>a, Zenon DEF ProcessExecute, Looping
  <2> QED
    BY <2>2, <2>3, Zenon
<1>2. ASSUME NEW p \in Proc, NEW c \in Proc, ProcessWait(p, c)
      PROVE  Kept /\ \A d \in Proc : Moved(d)
  BY <1>0, <1>2, <1>a, Zenon DEF ProcessWait, Looping
<1>3. ASSUME NEW p \in Proc, NEW code \in Code, Exit(p, code)
      PROVE  Kept /\ \A d \in Proc : Moved(d)
  BY <1>0, <1>3, <1>a, Zenon DEF Exit, Looping
<1>4. ASSUME NEW p \in Proc, Load(p) \/ StartProcess(p)
      PROVE  Kept /\ \A d \in Proc : Moved(d)
  BY <1>0, <1>4, <1>a, Zenon DEF Load, StartProcess, Looping
<1>5. ASSUME NEW p \in Proc, WaitDown(p) \/ WaitReturn(p)
      PROVE  Kept /\ \A d \in Proc : Moved(d)
  BY <1>0, <1>5, <1>a, Zenon DEF WaitDown, WaitReturn, Looping
<1>6. ASSUME NEW p \in Proc, ExitLoop(p) \/ ExitNext(p)
      PROVE  Kept /\ \A d \in Proc : Moved(d)
  <2>1. Kept
    BY <1>6, Zenon DEF ExitLoop, ExitNext
  <2>2. /\ pc[p] \in {"exit", "counted"}
        /\ \E l \in {"exit", "counting", "delete"} : pc' = [pc EXCEPT ![p] = l]
    BY <1>0, <1>6, Zenon DEF ExitLoop, ExitNext, Intact
  <2>3. \A d \in Proc : Moved(d)
    BY <1>0, <1>a, <2>1, <2>2, Zenon DEF Looping
  <2> QED
    BY <2>1, <2>3, Zenon
<1>7. ASSUME NEW p \in Proc, Leave(p)
      PROVE  Kept /\ \A d \in Proc : Moved(d)
  <2>1. Kept
    BY <1>7, Zenon DEF Leave
  <2>2. has_parent_status[p] => ws[p] # "none"
    BY <2>1, Zenon DEF IInv, TreeInv
  <2>3. \A d \in Proc : Moved(d)
    BY <1>0, <1>7, <1>a, <2>1, <2>2, Zenon DEF Leave, Looping
  <2> QED
    BY <2>1, <2>3, Zenon
<1>8. ASSUME NEW p \in Proc, LeaveNotify(p)
      PROVE  Kept /\ \A d \in Proc : Moved(d)
  BY <1>0, <1>8, <1>a, Zenon DEF LeaveNotify, Looping
<1>9. Kept /\ \A d \in Proc : Moved(d)
  <2> HIDE DEF Kept, Moved
  <2> QED
    BY <1>1, <1>2, <1>3, <1>4, <1>5, <1>6, <1>7, <1>8, Zenon DEF Idle
<1> QED
  BY <1>9, Zenon

\* The count of a status stays the number of its users, and the last one frees it.
LEMMA StatusNext ==
    ASSUME IInv, [Next]_vars, Intact'
    PROVE  Statuses'
<1> USE DEF Goto, loadVars, statusVars, exitVars
<1>0. /\ pc \in [Proc -> PC]
      /\ count \in [Proc -> 0..2]
      /\ ws \in [Proc -> {"none", "live", "freed"}]
      /\ delete_children \in [Proc -> Seq(Proc)]
  BY Zenon DEF IInv, TypeOK
<1> DEFINE Users(c) == ws[c] # "none" =>
              count[c] = (IF ChildLeft(c) THEN 0 ELSE 1) + (IF ParentLeft(c) THEN 0 ELSE 1)
           OneFrees(c) == ws[c] = "live" /\ count[c] = 0 =>
              (pc[c] = "free") # (c \in Range(delete_children[parent[c]]))
           Zero(c) == ws[c] = "freed" => count[c] = 0
<1>a. ASSUME Intact
      PROVE  \A c \in Proc : Users(c) /\ OneFrees(c) /\ Zero(c)
  BY <1>a, Zenon DEF IInv, Statuses
<1>b. ASSUME Intact, NEW c \in Proc, ws[c] # "none", count'[c] = count[c]
      PROVE  Users(c)'
  BY <1>a, <1>b, CountFrame, Zenon
<1>1. CASE Idle
  <2>1. /\ Intact
        /\ UNCHANGED <<ws, count, delete_children>>
        /\ \A c \in Proc : (pc'[c] = "free" <=> pc[c] = "free")
        /\ \A c \in Proc : ws[c] # "none" => parent'[c] = parent[c]
    BY <1>1, IdleFacts, Zenon
  <2>2. \A c \in Proc : Users(c)'
    BY <1>b, <2>1, Zenon
  <2>3. \A c \in Proc : OneFrees(c)' /\ Zero(c)'
    BY <1>a, <2>1, Zenon
  <2> QED
    BY <2>2, <2>3, Zenon DEF Statuses
<1>2. ASSUME NEW p \in Proc, Loaded(p)
      PROVE  Statuses'
  <2>0. PICK c \in Proc : c = on[p]
    BY <1>2, LoadedFacts, Zenon DEF Loaded
  <2>1. /\ Intact
        /\ c # p /\ parent[c] = p
        /\ ws[c] = "none"
        /\ success[c] => pc[c] = "start"
    BY <1>2, <2>0, LoadedFacts, Zenon DEF Loaded
  <2>2. /\ pc[p] = "execute"
        /\ pc' = [pc EXCEPT ![p] = "user"]
        /\ UNCHANGED <<parent, delete_children>>
        /\ \/ /\ success[c]
              /\ ws' = [ws EXCEPT ![c] = "live"]
              /\ count' = [count EXCEPT ![c] = 2]
           \/ UNCHANGED <<ws, count>>
    BY <1>2, <2>0, Zenon DEF Loaded
  <2>3. \A d \in Proc \ {c} : ws'[d] = ws[d] /\ count'[d] = count[d]
    BY <1>0, <2>2, Zenon
  <2>4. \A d \in Proc : (pc'[d] = "free" <=> pc[d] = "free")
    BY <1>0, <2>2, Zenon
  <2>5. \/ ws'[c] = "none"
        \/ ws'[c] = "live" /\ count'[c] = 2 /\ ~ChildLeft(c)' /\ ~ParentLeft(c)'
    BY <1>0, <2>1, <2>2, Zenon DEF ChildLeft, ParentLeft
  <2>6. \A d \in Proc : Users(d)'
    BY <1>b, <2>1, <2>3, <2>5
  <2>7. \A d \in Proc : OneFrees(d)' /\ Zero(d)'
    BY <1>a, <2>1, <2>2, <2>3, <2>4, <2>5
  <2> QED
    BY <2>6, <2>7, Zenon DEF Statuses
<1>3. ASSUME NEW p \in Proc, ExitCount(p)
      PROVE  Statuses'
  <2>0. PICK c \in Proc : c = Current(p)
    BY <1>3, CountingFacts, Zenon DEF ExitCount
  <2>1. /\ Intact
        /\ at[p] \in DOMAIN child_processes[p]
        /\ c # p /\ parent[c] = p
        /\ ws[c] # "none"
        /\ count[c] = IF ChildLeft(c) THEN 1 ELSE 2
        /\ pc[c] # "free"
        /\ c \notin Range(delete_children[p])
    BY <1>3, <2>0, CountingFacts, Zenon DEF ExitCount
  <2>2. /\ pc[p] = "counting"
        /\ pc' = [pc EXCEPT ![p] = "counted"]
        /\ count' = [count EXCEPT ![c] = @ - 1]
        /\ delete_children' = IF count[c] = 1
                              THEN [delete_children EXCEPT ![p] = Append(@, c)]
                              ELSE delete_children
        /\ UNCHANGED <<parent, ws, child_processes, at>>
    BY <1>3, <2>0, Zenon DEF ExitCount
  <2>3. ParentLeft(c)'
    BY <1>0, <2>0, <2>1, <2>2, Zenon DEF ParentLeft, Current
  <2>4. ChildLeft(c)' <=> ChildLeft(c)
    BY <1>0, <2>1, <2>2, Zenon DEF ChildLeft
  <2>5. count'[c] = count[c] - 1 /\ \A d \in Proc \ {c} : count'[d] = count[d]
    BY <1>0, <2>1, <2>2, Zenon
  <2>6. Users(c)'
    BY <2>1, <2>3, <2>4, <2>5
  <2>7. \A d \in Proc \ {c} : Users(d)'
    BY <1>b, <2>1, <2>2, <2>5, Zenon
  <2>8. Range(Append(delete_children[p], c)) = Range(delete_children[p]) \cup {c}
    BY <1>0, <2>1, AppendRange
  <2>9. \A d \in Proc : (pc'[d] = "free" <=> pc[d] = "free")
    BY <1>0, <2>2, Zenon
  <2>10. OneFrees(c)' /\ Zero(c)'
    <3>1. Zero(c)'
      BY <1>a, <2>1, <2>2, <2>5
    <3>2. count[c] = 1 => delete_children'[p] = Append(delete_children[p], c)
      BY <1>0, <2>2, Zenon
    <3>3. OneFrees(c)'
      BY <2>1, <2>2, <2>5, <2>8, <2>9, <3>2
    <3> QED
      BY <3>1, <3>3, Zenon
  <2>11. ASSUME NEW d \in Proc \ {c}
         PROVE  OneFrees(d)' /\ Zero(d)'
    <3>1. Zero(d)'
      BY <1>a, <2>1, <2>2, <2>5, Zenon
    <3>2. \A q \in Proc : d \in Range(delete_children'[q]) <=> d \in Range(delete_children[q])
      BY <1>0, <2>2, <2>8, Zenon
    <3>3. ws[d] # "none" => parent[d] \in Proc
      BY <2>1, Zenon DEF IInv, TreeInv
    <3>4. OneFrees(d)'
      BY <1>a, <2>1, <2>2, <2>5, <2>9, <3>2, <3>3
    <3> QED
      BY <3>1, <3>4, Zenon
  <2> QED
    BY <2>6, <2>7, <2>10, <2>11, Zenon DEF Statuses
<1>4. ASSUME NEW p \in Proc, ExitDelete(p)
      PROVE  Statuses'
  <2>1. Intact /\ UNCHANGED <<count, parent>> /\ pc[p] = "delete"
    BY <1>4, Zenon DEF ExitDelete
  <2>2. CASE delete_children[p] = <<>>
    <3>1. UNCHANGED <<ws, delete_children>> /\ pc' = [pc EXCEPT ![p] = "leave"]
      BY <1>4, <2>2, Zenon DEF ExitDelete
    <3>2. \A d \in Proc : (pc'[d] = "free" <=> pc[d] = "free")
      BY <1>0, <2>1, <3>1, Zenon
    <3> QED
      BY <1>a, <1>b, <2>1, <3>1, <3>2, Zenon DEF Statuses
  <2>3. CASE delete_children[p] # <<>>
    <3>0. PICK c \in Proc : c = Head(delete_children[p])
      BY <1>4, <2>3, DeletingFacts, Zenon DEF ExitDelete
    <3>1. /\ c \in Range(delete_children[p])
          /\ Range(Tail(delete_children[p])) = Range(delete_children[p]) \ {c}
      BY <1>4, <2>3, <3>0, DeletingFacts, Zenon DEF ExitDelete
    <3>2. ws[c] = "live" /\ count[c] = 0
      BY <2>1, <3>1, Zenon DEF IInv, DeleteInv
    <3>3. /\ UNCHANGED pc
          /\ delete_children' = [delete_children EXCEPT ![p] = Tail(@)]
          /\ ws' = [ws EXCEPT ![c] = "freed"]
      BY <1>0, <1>4, <2>3, <3>0, Zenon DEF ExitDelete, Intact
    <3>4. ws'[c] = "freed" /\ \A d \in Proc \ {c} : ws'[d] = ws[d]
      BY <1>0, <3>3, Zenon
    <3>5. \A q \in Proc, d \in Proc \ {c} :
              d \in Range(delete_children'[q]) <=> d \in Range(delete_children[q])
      BY <1>0, <3>1, <3>3, Zenon
    <3>6. \A d \in Proc : Users(d)'
      BY <1>b, <2>1, <3>2, <3>4, Zenon
    <3>7. Zero(c)' /\ OneFrees(c)'
      BY <2>1, <3>2, <3>4, Zenon
    <3>8. ASSUME NEW d \in Proc \ {c}
          PROVE  Zero(d)' /\ OneFrees(d)'
      <4>1. ws[d] # "none" => parent[d] \in Proc
        BY <2>1, Zenon DEF IInv, TreeInv
      <4> QED
        BY <1>a, <2>1, <3>3, <3>4, <3>5, <4>1
    <3> QED
      BY <3>6, <3>7, <3>8, Zenon DEF Statuses
  <2> QED
    BY <2>2, <2>3, Zenon
<1>5. ASSUME NEW p \in Proc, LeaveCount(p)
      PROVE  Statuses'
  <2>1. Intact /\ Local(p)
    BY <1>5, LocalSteps, Zenon DEF LeaveCount, Step
  <2>2. ws[p] # "none" /\ count[p] = IF ParentLeft(p) THEN 1 ELSE 2
    BY <1>5, LeavingFacts, Zenon DEF LeaveCount
  <2>3. /\ pc[p] = "leaving"
        /\ pc' = [pc EXCEPT ![p] = IF count[p] = 1 THEN "free" ELSE "notify"]
        /\ count' = [count EXCEPT ![p] = @ - 1]
        /\ UNCHANGED <<parent, ws, delete_children>>
    BY <1>5, Zenon DEF LeaveCount
  <2>4. count'[p] = count[p] - 1 /\ \A d \in Proc \ {p} : count'[d] = count[d]
    BY <1>0, <2>3, Zenon
  <2>5. Users(p)'
    <3>1. ChildLeft(p)'
      BY <1>0, <2>3, Zenon DEF ChildLeft
    <3>2. parent[p] \in Proc \ {p}
      BY <2>1, <2>2, Zenon DEF IInv, TreeInv
    <3>3. ParentLeft(p)' <=> ParentLeft(p)
      BY <2>1, <3>2, Zenon DEF ParentLeft, Local
    <3> QED
      BY <2>2, <2>4, <3>1, <3>3
  <2>6. \A d \in Proc \ {p} : Users(d)'
    BY <1>b, <2>1, <2>3, <2>4, Zenon
  <2>7. Zero(p)' /\ OneFrees(p)'
    <3>1. Zero(p)'
      BY <1>a, <2>1, <2>2, <2>3
    <3>2. parent[p] \in Proc
      BY <2>1, <2>2, Zenon DEF IInv, TreeInv
    <3>3. p \notin Range(delete_children[parent[p]])
      BY <2>1, <2>2, <3>2 DEF IInv, DeleteInv
    <3>4. pc'[p] = IF count[p] = 1 THEN "free" ELSE "notify"
      BY <1>0, <2>3, Zenon
    <3>5. OneFrees(p)'
      BY <2>2, <2>3, <2>4, <3>3, <3>4
    <3> QED
      BY <3>1, <3>5, Zenon
  <2>8. \A d \in Proc \ {p} : Zero(d)' /\ OneFrees(d)'
    <3>1. \A d \in Proc \ {p} : pc'[d] = pc[d]
      BY <1>0, <2>3, Zenon
    <3> QED
      BY <1>a, <2>1, <2>3, <2>4, <3>1, Zenon
  <2> QED
    BY <2>5, <2>6, <2>7, <2>8, Zenon DEF Statuses
<1>6. ASSUME NEW p \in Proc, LeaveFree(p)
      PROVE  Statuses'
  <2>1. Intact /\ ws[p] = "live" /\ count[p] = 0
    BY <1>6, Zenon DEF LeaveFree, IInv, DeleteInv
  <2>2. /\ ws' = [ws EXCEPT ![p] = "freed"]
        /\ pc' = [pc EXCEPT ![p] = "dead"]
        /\ UNCHANGED <<count, parent, delete_children>>
    BY <1>6, Zenon DEF LeaveFree
  <2>3. ws'[p] = "freed" /\ \A d \in Proc \ {p} : ws'[d] = ws[d] /\ pc'[d] = pc[d]
    BY <1>0, <2>2, Zenon
  <2>4. \A d \in Proc : Users(d)'
    BY <1>b, <2>1, <2>2, <2>3, Zenon
  <2>5. \A d \in Proc : Zero(d)' /\ OneFrees(d)'
    BY <1>a, <2>1, <2>2, <2>3, Zenon
  <2> QED
    BY <2>4, <2>5, Zenon DEF Statuses
<1>7. CASE UNCHANGED vars
  <2>1. Intact /\ UNCHANGED <<ws, count, pc, delete_children, parent>>
    BY <1>7, Zenon DEF vars, Intact
  <2> QED
    BY <1>a, <1>b, <2>1, Zenon DEF Statuses
<1> QED
  BY <1>1, <1>2, <1>3, <1>4, <1>5, <1>6, <1>7, Zenon DEF Next, Step, Idle

\* What is to be freed stays live with count 0, and is to be freed by one process.
LEMMA DeleteNext ==
    ASSUME IInv, [Next]_vars, Intact'
    PROVE  DeleteInv'
<1> USE DEF Goto, loadVars, statusVars, exitVars
<1>0. /\ pc \in [Proc -> PC]
      /\ count \in [Proc -> 0..2]
      /\ ws \in [Proc -> {"none", "live", "freed"}]
      /\ delete_children \in [Proc -> Seq(Proc)]
      /\ child_processes \in [Proc -> Seq(Proc)]
  BY Zenon DEF IInv, TypeOK
<1> DEFINE Deleting(q) == /\ IsInjective(delete_children[q])
                          /\ delete_children[q] # <<>> => Looping(q) \/ pc[q] = "delete"
           Doomed(q, c) == c \in Children(q) /\ ws[c] = "live" /\ count[c] = 0
           Leaver(c) == /\ pc[c] = "free" => ws[c] = "live" /\ count[c] = 0
                        /\ pc[c] \in {"leaving", "notify"} => ws[c] # "none"
<1>a. ASSUME Intact
      PROVE  /\ \A q \in Proc : Deleting(q)
             /\ \A q \in Proc : \A c \in Range(delete_children[q]) : Doomed(q, c) /\ c \in Proc
             /\ \A c \in Proc : Leaver(c)
  BY <1>a, ChildFacts, Zenon DEF IInv, DeleteInv
<1> DEFINE Kept == /\ \A q \in Proc : Deleting(q)'
                   /\ \A q \in Proc : \A c \in Range(delete_children'[q]) : Doomed(q, c)'
                   /\ \A c \in Proc : Leaver(c)'
<1>b. Kept => DeleteInv'
  BY Zenon DEF DeleteInv
<1>1. ASSUME Idle
      PROVE  Kept
  <2>1. /\ Intact
        /\ UNCHANGED <<ws, count, child_processes, delete_children>>
        /\ \A c \in Proc : (pc'[c] = "free" <=> pc[c] = "free")
        /\ \A q \in Proc : Looping(q) \/ pc[q] = "delete" =>
                              (Looping(q) \/ pc[q] = "delete")'
        /\ \A c \in Proc : pc'[c] \in {"leaving", "notify"} => ws[c] # "none"
    BY <1>1, IdleFacts, Zenon
  <2> QED
    BY <1>a, <2>1, Zenon DEF Children, Looping
<1>2. ASSUME NEW p \in Proc, Loaded(p)
      PROVE  Kept
  <2>0. PICK c \in Proc : c = on[p]
    BY <1>2, LoadedFacts, Zenon DEF Loaded
  <2>1. Intact /\ ws[c] = "none"
    BY <1>2, <2>0, LoadedFacts, Zenon DEF Loaded
  <2>2. /\ pc[p] = "execute"
        /\ pc' = [pc EXCEPT ![p] = "user"]
        /\ UNCHANGED delete_children
        /\ \/ child_processes' = [child_processes EXCEPT ![p] = Append(@, c)]
           \/ child_processes' = child_processes
        /\ \/ ws' = [ws EXCEPT ![c] = "live"] /\ count' = [count EXCEPT ![c] = 2]
           \/ UNCHANGED <<ws, count>>
    BY <1>2, <2>0, Zenon DEF Loaded
  <2>3. \A d \in Proc \ {c} : ws'[d] = ws[d] /\ count'[d] = count[d]
    BY <1>0, <2>2, Zenon
  <2>4. \A q \in Proc : Children(q) \subseteq Children(q)'
    <3>1. Range(Append(child_processes[p], c)) = Children(p) \cup {c}
      BY <1>0, AppendRange DEF Children
    <3> QED
      BY <1>0, <2>2, <3>1, Zenon DEF Children
  <2>5. \A q \in Proc : Deleting(q)'
    BY <1>0, <1>a, <2>1, <2>2, Zenon DEF Looping
  <2>6. \A q \in Proc : \A d \in Range(delete_children'[q]) : Doomed(q, d)'
    BY <1>a, <2>1, <2>2, <2>3, <2>4
  <2>7. ASSUME NEW d \in Proc
        PROVE  Leaver(d)'
    <3>1. Leaver(d) /\ (d # c => ws'[d] = ws[d] /\ count'[d] = count[d])
      BY <1>a, <2>1, <2>3, Zenon
    <3>2. pc'[d] \in {"free", "leaving", "notify"} => pc'[d] = pc[d]
      BY <1>0, <2>2, Zenon
    <3> QED
      BY <2>1, <3>1, <3>2, Zenon
  <2> QED
    BY <2>5, <2>6, <2>7, Zenon
<1>3. ASSUME NEW p \in Proc, ExitCount(p)
      PROVE  Kept
  <2>0. PICK c \in Proc : c = Current(p)
    BY <1>3, CountingFacts, Zenon DEF ExitCount
  <2>1. /\ Intact
        /\ c \in Children(p)
        /\ ws[c] # "none"
        /\ count[c] \in 1..2
        /\ pc[c] # "free"
        /\ c \notin Range(delete_children[p])
    BY <1>3, <2>0, CountingFacts DEF ExitCount
  <2>2. /\ pc[p] = "counting"
        /\ pc' = [pc EXCEPT ![p] = "counted"]
        /\ count' = [count EXCEPT ![c] = @ - 1]
        /\ delete_children' = IF count[c] = 1
                              THEN [delete_children EXCEPT ![p] = Append(@, c)]
                              ELSE delete_children
        /\ UNCHANGED <<ws, child_processes>>
    BY <1>3, <2>0, Zenon DEF ExitCount
  <2>3. ws[c] = "live"
    BY <1>0, <2>1 DEF IInv, Statuses
  <2>4. count'[c] = count[c] - 1 /\ \A d \in Proc \ {c} : count'[d] = count[d]
    BY <1>0, <2>2, Zenon
  <2>5. /\ Range(Append(delete_children[p], c)) = Range(delete_children[p]) \cup {c}
        /\ IsInjective(Append(delete_children[p], c))
    BY <1>0, <1>a, <2>1, AppendRange
  <2>6. \A q \in Proc : Deleting(q)'
    <3>1. \A q \in Proc : IsInjective(delete_children'[q])
      BY <1>0, <1>a, <2>1, <2>2, <2>5, Zenon
    <3>2. \A q \in Proc \ {p} : delete_children'[q] = delete_children[q] /\ pc'[q] = pc[q]
      BY <1>0, <2>2, Zenon
    <3>3. pc'[p] = "counted"
      BY <1>0, <2>2, Zenon
    <3> QED
      BY <1>a, <2>1, <3>1, <3>2, <3>3, Zenon DEF Looping
  <2>7. ASSUME NEW q \in Proc, NEW d \in Range(delete_children'[q])
        PROVE  Doomed(q, d)'
    <3>1. CASE d \in Range(delete_children[q])
      <4>1. Doomed(q, d) /\ d \in Proc
        BY <1>a, <2>1, <3>1, Zenon
      <4>2. d # c
        BY <2>1, <4>1
      <4> QED
        BY <2>2, <2>4, <4>1, <4>2, Zenon DEF Children
    <3>2. CASE d \notin Range(delete_children[q])
      <4>1. q = p /\ count[c] = 1 /\ d = c
        BY <1>0, <2>2, <2>5, <2>7, <3>2, Zenon
      <4> QED
        BY <2>1, <2>2, <2>3, <2>4, <4>1 DEF Children
    <3> QED
      BY <3>1, <3>2, Zenon
  <2>8. ASSUME NEW d \in Proc
        PROVE  Leaver(d)'
    <3>1. Leaver(d) /\ (d # c => count'[d] = count[d])
      BY <1>a, <2>1, <2>4, Zenon
    <3>2. pc'[d] \in {"free", "leaving", "notify"} => pc'[d] = pc[d]
      BY <1>0, <2>2, Zenon
    <3> QED
      BY <2>1, <2>2, <3>1, <3>2, Zenon
  <2> QED
    BY <2>6, <2>7, <2>8, Zenon
<1>4. ASSUME NEW p \in Proc, ExitDelete(p)
      PROVE  Kept
  <2>1. Intact /\ UNCHANGED <<count, parent>> /\ pc[p] = "delete"
    BY <1>4, Zenon DEF ExitDelete
  <2>2. CASE delete_children[p] = <<>>
    <3>1. /\ UNCHANGED <<ws, delete_children, child_processes>>
          /\ pc' = [pc EXCEPT ![p] = "leave"]
      BY <1>4, <2>2, Zenon DEF ExitDelete
    <3>2. \A d \in Proc \ {p} : pc'[d] = pc[d]
      BY <1>0, <3>1, Zenon
    <3>3. pc'[p] = "leave"
      BY <1>0, <3>1, Zenon
    <3> QED
      BY <1>a, <2>1, <2>2, <3>1, <3>2, <3>3 DEF Looping, Children
  <2>3. CASE delete_children[p] # <<>>
    <3> DEFINE l == Without(child_processes[p], Position(p, Head(delete_children[p])))
    <3>0. PICK c \in Proc : c = Head(delete_children[p])
      BY <1>4, <2>3, DeletingFacts, Zenon DEF ExitDelete
    <3>1. /\ c \in Range(delete_children[p])
          /\ c \in Children(p)
          /\ Range(Tail(delete_children[p])) = Range(delete_children[p]) \ {c}
          /\ IsInjective(Tail(delete_children[p]))
          /\ Range(l) = Children(p) \ {c}
      BY <1>4, <2>3, <3>0, DeletingFacts, Zenon DEF ExitDelete
    <3>2. /\ UNCHANGED pc
          /\ child_processes' = [child_processes EXCEPT ![p] = l]
          /\ delete_children' = [delete_children EXCEPT ![p] = Tail(@)]
          /\ ws' = [ws EXCEPT ![c] = "freed"]
      BY <1>0, <1>4, <2>3, <3>0, Zenon DEF ExitDelete, Intact
    <3> HIDE DEF l
    <3>3. ws'[c] = "freed" /\ \A d \in Proc \ {c} : ws'[d] = ws[d]
      BY <1>0, <3>2, Zenon
    <3>4. Range(delete_children'[p]) = Range(delete_children[p]) \ {c}
          /\ IsInjective(delete_children'[p])
          /\ \A q \in Proc \ {p} : delete_children'[q] = delete_children[q]
      BY <1>0, <3>1, <3>2, Zenon
    <3>5. Children(p)' = Children(p) \ {c} /\ \A q \in Proc \ {p} : Children(q)' = Children(q)
      BY <1>0, <3>1, <3>2, Zenon DEF Children
    <3>6. pc[c] # "free" /\ parent[c] = p
      <4>1. parent[c] = p
        BY <2>1, <3>1, ChildFacts, Zenon
      <4>2. ws[c] = "live" /\ count[c] = 0
        BY <1>a, <2>1, <3>1, Zenon
      <4> QED
        BY <2>1, <3>1, <4>1, <4>2, Zenon DEF IInv, Statuses
    <3>7. \A q \in Proc : Deleting(q)'
      BY <1>a, <2>1, <3>2, <3>4, Zenon DEF Looping
    <3>8. ASSUME NEW q \in Proc, NEW d \in Range(delete_children'[q])
          PROVE  Doomed(q, d)'
      <4>1. d \in Range(delete_children[q])
        BY <3>4, <3>8, Zenon
      <4>2. Doomed(q, d) /\ d \in Proc
        BY <1>a, <2>1, <4>1, Zenon
      <4>3. d # c
        <5>1. CASE q = p
          BY <3>4, <3>8, <5>1, Zenon
        <5>2. CASE q # p
          <6>1. parent[d] = q
            BY <2>1, <4>2, ChildFacts, Zenon
          <6> QED
            BY <3>6, <5>2, <6>1, Zenon
        <5> QED
          BY <5>1, <5>2, Zenon
      <4> QED
        BY <2>1, <3>3, <3>5, <4>2, <4>3, Zenon
    <3>9. \A d \in Proc : Leaver(d)'
      BY <1>a, <2>1, <3>2, <3>3, <3>6
    <3> QED
      BY <3>7, <3>8, <3>9, Zenon
  <2> QED
    BY <2>2, <2>3, Zenon
<1>5. ASSUME NEW p \in Proc, LeaveCount(p)
      PROVE  Kept
  <2>1. Intact /\ ws[p] # "none" /\ count[p] \in 1..2
    BY <1>5, LeavingFacts DEF LeaveCount
  <2>2. ws[p] = "live"
    BY <1>0, <2>1 DEF IInv, Statuses
  <2>3. /\ pc[p] = "leaving"
        /\ pc' = [pc EXCEPT ![p] = IF count[p] = 1 THEN "free" ELSE "notify"]
        /\ count' = [count EXCEPT ![p] = @ - 1]
        /\ UNCHANGED <<ws, child_processes, delete_children>>
    BY <1>5, Zenon DEF LeaveCount
  <2>4. /\ count'[p] = count[p] - 1
        /\ pc'[p] = IF count[p] = 1 THEN "free" ELSE "notify"
        /\ \A d \in Proc \ {p} : count'[d] = count[d] /\ pc'[d] = pc[d]
    BY <1>0, <2>3, Zenon
  <2>5. \A q \in Proc : Deleting(q)'
    BY <1>a, <2>1, <2>3, <2>4, Zenon DEF Looping
  <2>6. ASSUME NEW q \in Proc, NEW d \in Range(delete_children'[q])
        PROVE  Doomed(q, d)'
    <3>1. Doomed(q, d) /\ d \in Proc
      BY <1>a, <2>1, <2>3, <2>6, Zenon
    <3> QED
      BY <2>1, <2>3, <2>4, <3>1 DEF Children
  <2>7. ASSUME NEW d \in Proc
        PROVE  Leaver(d)'
    BY <1>a, <2>1, <2>2, <2>3, <2>4
  <2> QED
    BY <2>5, <2>6, <2>7, Zenon
<1>6. ASSUME NEW p \in Proc, LeaveFree(p)
      PROVE  Kept
  <2>1. Intact /\ pc[p] = "free" /\ ws[p] = "live" /\ count[p] = 0
    BY <1>6, Zenon DEF LeaveFree, IInv, DeleteInv
  <2>2. /\ ws' = [ws EXCEPT ![p] = "freed"]
        /\ pc' = [pc EXCEPT ![p] = "dead"]
        /\ UNCHANGED <<count, child_processes, delete_children>>
    BY <1>6, Zenon DEF LeaveFree
  <2>3. /\ pc'[p] = "dead"
        /\ \A d \in Proc \ {p} : ws'[d] = ws[d] /\ pc'[d] = pc[d]
    BY <1>0, <2>2, Zenon
  <2>4. \A q \in Proc : Deleting(q)'
    BY <1>a, <2>1, <2>2, <2>3 DEF Looping
  <2>5. ASSUME NEW q \in Proc, NEW d \in Range(delete_children'[q])
        PROVE  Doomed(q, d)'
    <3>1. Doomed(q, d) /\ d \in Proc
      BY <1>a, <2>1, <2>2, <2>5, Zenon
    <3>2. parent[d] = q
      BY <2>1, <3>1, ChildFacts, Zenon
    <3>3. d # p
      BY <2>1, <2>2, <2>5, <3>2, Zenon DEF IInv, Statuses
    <3> QED
      BY <2>2, <2>3, <3>1, <3>3, Zenon DEF Children
  <2>6. \A d \in Proc : Leaver(d)'
    BY <1>a, <2>1, <2>2, <2>3
  <2> QED
    BY <2>4, <2>5, <2>6, Zenon
<1>7. ASSUME UNCHANGED vars
      PROVE  Kept
  <2>1. Intact /\ UNCHANGED <<ws, count, pc, child_processes, delete_children>>
    BY <1>7, Zenon DEF vars, Intact
  <2> QED
    BY <1>a, <2>1, Zenon DEF Children, Looping
<1> HIDE DEF Kept
<1> QED
  BY <1>b, <1>1, <1>2, <1>3, <1>4, <1>5, <1>6, <1>7, Zenon DEF Next, Step, Idle

\* The kernel starts in a state of the invariant: one process, no status.
LEMMA InvInit ==
    ASSUME Init
    PROVE  IInv
<1> USE ProcessAssumption DEF Init
<1>0. Range(<<>>) = {} /\ IsInjective(<<>>)
  BY DEF Range, IsInjective
<1>1. TypeOK
  BY EmptySequence DEF TypeOK, PC, Freed
<1>2. ChildAwaitsStatus
  BY Zenon DEF ChildAwaitsStatus
<1>3. LoadInv
  BY Zenon DEF LoadInv
<1>4. TreeInv
  BY <1>0, Zenon DEF TreeInv, Children, Looping
<1>5. Statuses
  BY Zenon DEF Statuses
<1>6. DeleteInv
  BY <1>0, Zenon DEF DeleteInv
<1>7. WaitInv
  BY DEF WaitInv, Waiter, Coded, Upped, Taken, Looping, Exited
<1> QED
  BY <1>1, <1>2, <1>3, <1>4, <1>5, <1>6, <1>7, Zenon DEF IInv

\* Every step of the kernel keeps the invariant.
LEMMA InvNext ==
    ASSUME IInv, [Next]_vars
    PROVE  IInv'
BY TypeNext, LoadNext, TreeNext, StatusNext, DeleteNext, WaitNext, Zenon DEF IInv

\* IInv is an invariant of starting, waiting for and ending processes.
THEOREM Invariance == Spec => []IInv
<1>1. Init => IInv
  BY InvInit, Zenon
<1>2. IInv /\ [Next]_vars => IInv'
  BY InvNext, Zenon
<1> QED
  BY <1>1, <1>2, PTL DEF Spec

\* For any number of processes and exit codes: the state is well typed, a
\* wait_status counts the processes that use it, and the last of them frees it.
THEOREM CountCorrect == Spec => []CountIsUsers
<1>1. IInv => CountIsUsers
  BY Zenon DEF IInv, CountIsUsers, Statuses
<1> QED
  BY <1>1, Invariance, PTL

\* For any number of processes: while its parent is in process_execute, a child that
\* loaded neither runs nor ends.
THEOREM StartCorrect == Spec => []ChildAwaitsStatus
<1>1. IInv => ChildAwaitsStatus
  BY Zenon DEF IInv
<1> QED
  BY <1>1, Invariance, PTL

\* For any number of processes and exit codes: process_wait returns the code that
\* the child ended with, and returns it at most once.
THEOREM WaitCorrect == Spec => []WaitReturnsExitCode
<1>1. IInv => WaitReturnsExitCode
  BY Zenon DEF IInv, WaitReturnsExitCode, WaitInv, Taken, ChildLeft
<1> QED
  BY <1>1, Invariance, PTL
=============================================================================
