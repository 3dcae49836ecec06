------------------------------ MODULE Process ------------------------------
(***************************************************************************)
(* Starting, waiting for and ending user processes in pintos               *)
(* (userprog/process.c, with exit and kill of syscall.c and exception.c).  *)
(*                                                                         *)
(* Parent and child meet in two structures.  load_status, on the parent's  *)
(* stack, makes the parent wait for the child's load and the child for the *)
(* parent's wait_status.  wait_status, on the heap, keeps the child's exit *)
(* code; the last of the two to end frees it.  Both are named here by the  *)
(* child.  Threads may be preempted between any two actions; semaphores    *)
(* and locks are those of Synch.                                           *)
(***************************************************************************)
EXTENDS Integers, Sequences, Functions, Removal

CONSTANTS
    Proc,       \* processes, each started at most once
    Main,       \* the kernel's first thread, which starts the first process
    Code,       \* exit codes that programs use
    None

ASSUME ProcessAssumption ==
    /\ Main \in Proc
    /\ None \notin Proc
    /\ Code \subseteq Int

VARIABLES
    pc,             \* where each process is
    on,             \* the child that its call is about
    \* load_status
    parent, success, load_sema,
    wait_status_create, \* value of the semaphore, or Freed
    \* struct thread
    child_processes, \* list of children with a wait_status
    has_parent_status, \* parent_wait_status is not NULL
    \* wait_status
    ws,             \* "none", "live" or "freed"
    count_lock, count, child_exit_code, child_exit_sem,
    \* process_exit
    at,             \* position in the list of children
    delete_children,
    \* history
    waited,         \* exit codes that process_wait has returned for each child
    exited          \* the code each process ended with

loadVars == <<parent, success, load_sema, wait_status_create>>
statusVars == <<ws, count_lock, count, child_exit_code, child_exit_sem>>
exitVars == <<at, delete_children>>
vars == <<pc, on, loadVars, child_processes, has_parent_status, statusVars, exitVars,
          waited, exited>>

-----------------------------------------------------------------------------

PC == {"none",       \* not started
       "load",       \* start_process, before load returns
       "start",      \* start_process, waiting for wait_status_create
       "user",       \* running the program
       "execute",    \* process_execute, waiting for load_sema
       "wait",       \* process_wait, waiting for child_exit_sem
       "waited",     \* process_wait, before it takes the exit code
       "exit",       \* process_exit, at an element of child_processes
       "counting",   \* with its count_lock
       "counted",    \* before list_next
       "delete",     \* freeing delete_children
       "leave",      \* at parent_wait_status
       "leaving",    \* with its count_lock
       "notify",     \* before sema_up of child_exit_sem
       "free",       \* before free
       "dead",
       "corrupt"}    \* used a wait_status after it was freed

\* Memory is intact: nobody has used freed memory yet.  What the kernel does after
\* that is not modelled.
Intact == \A p \in Proc : pc[p] # "corrupt"

\* A semaphore that was freed.
Freed == -1

Goto(p, l) == pc' = [pc EXCEPT ![p] = l]

Init ==
    /\ pc = [p \in Proc |-> IF p = Main THEN "user" ELSE "none"]
    /\ on = [p \in Proc |-> None]
    /\ parent = [p \in Proc |-> None]
    /\ success = [p \in Proc |-> FALSE]
    /\ load_sema = [p \in Proc |-> 0]
    /\ wait_status_create = [p \in Proc |-> 0]
    /\ child_processes = [p \in Proc |-> <<>>]
    /\ has_parent_status = [p \in Proc |-> FALSE]
    /\ ws = [p \in Proc |-> "none"]
    /\ count_lock = [p \in Proc |-> None]
    /\ count = [p \in Proc |-> 0]
    /\ child_exit_code = [p \in Proc |-> -2]
    /\ child_exit_sem = [p \in Proc |-> 0]
    /\ at = [p \in Proc |-> 0]
    /\ delete_children = [p \in Proc |-> <<>>]
    /\ waited = [p \in Proc |-> <<>>]
    /\ exited = [p \in Proc |-> None]

-----------------------------------------------------------------------------
(* process_execute and start_process.                                      *)

\* process_execute, up to sema_down.  Where an allocation fails it changes nothing.
ProcessExecute(p, c) ==
    /\ Intact
    /\ pc[p] = "user"
    /\ pc[c] = "none"
    /\ pc' = [pc EXCEPT ![p] = "execute", ![c] = "load"]
    /\ on' = [on EXCEPT ![p] = c]
    /\ parent' = [parent EXCEPT ![c] = p]
    /\ UNCHANGED <<success, load_sema, wait_status_create, child_processes,
                   has_parent_status, statusVars, exitVars, waited, exited>>

\* start_process loads the program, or fails to and ends.
Load(c) ==
    /\ Intact
    /\ pc[c] = "load"
    /\ load_sema' = [load_sema EXCEPT ![c] = @ + 1]
    /\ \/ /\ success' = [success EXCEPT ![c] = TRUE]
          /\ Goto(c, "start")
          /\ UNCHANGED <<wait_status_create, at>>
       \/ /\ wait_status_create' = [wait_status_create EXCEPT ![c] = Freed]
          /\ Goto(c, "exit")
          /\ at' = [at EXCEPT ![c] = 1]
          /\ UNCHANGED success
    /\ UNCHANGED <<on, parent, child_processes, has_parent_status, statusVars, delete_children,
                   waited, exited>>

\* Mutant of Loaded: when malloc fails the child is not released.
LoadedForgetsChild(p) ==
    LET c == on[p] IN
    /\ Intact
    /\ pc[p] = "execute"
    /\ load_sema[c] > 0
    /\ load_sema' = [load_sema EXCEPT ![c] = @ - 1]
    /\ Goto(p, "user")
    /\ \/ /\ success[c]
          /\ child_processes' = [child_processes EXCEPT ![p] = Append(@, c)]
          /\ wait_status_create' = [wait_status_create EXCEPT ![c] = @ + 1]
          /\ ws' = [ws EXCEPT ![c] = "live"]
          /\ count' = [count EXCEPT ![c] = 2]
          /\ has_parent_status' = [has_parent_status EXCEPT ![c] = TRUE]
       \/ UNCHANGED <<wait_status_create, child_processes, ws, count, has_parent_status>>
    /\ on' = [on EXCEPT ![p] = None]
    /\ UNCHANGED <<parent, success, count_lock, child_exit_code, child_exit_sem, exitVars,
                   waited, exited>>

\* The rest of process_execute.  Only the parent can reach the new wait_status
\* until the child's semaphore is upped; its allocation may fail.
Loaded(p) ==
    LET c == on[p] IN
    /\ Intact
    /\ pc[p] = "execute"
    /\ load_sema[c] > 0
    /\ load_sema' = [load_sema EXCEPT ![c] = @ - 1]
    /\ Goto(p, "user")
    /\ wait_status_create' =
          IF success[c] THEN [wait_status_create EXCEPT ![c] = @ + 1]
          ELSE wait_status_create
    /\ \/ /\ success[c]
          /\ child_processes' = [child_processes EXCEPT ![p] = Append(@, c)]
          /\ ws' = [ws EXCEPT ![c] = "live"]
          /\ count' = [count EXCEPT ![c] = 2]
          /\ has_parent_status' = [has_parent_status EXCEPT ![c] = TRUE]
       \/ UNCHANGED <<child_processes, ws, count, has_parent_status>>
    /\ on' = [on EXCEPT ![p] = None]
    /\ UNCHANGED <<parent, success, count_lock, child_exit_code, child_exit_sem, exitVars,
                   waited, exited>>

\* Mutant of StartProcess: the child does not wait for its parent.
StartProcessAtOnce(c) ==
    /\ Intact
    /\ pc[c] = "start"
    /\ wait_status_create' = [wait_status_create EXCEPT ![c] = Freed]
    /\ Goto(c, "user")
    /\ UNCHANGED <<on, parent, success, load_sema, child_processes, has_parent_status,
                   statusVars, exitVars, waited, exited>>

\* The rest of start_process.
StartProcess(c) ==
    /\ Intact
    /\ pc[c] = "start"
    /\ wait_status_create[c] = 1
    /\ wait_status_create' = [wait_status_create EXCEPT ![c] = Freed]
    /\ Goto(c, "user")
    /\ UNCHANGED <<on, parent, success, load_sema, child_processes, has_parent_status,
                   statusVars, exitVars, waited, exited>>

-----------------------------------------------------------------------------
(* process_wait.                                                           *)

\* The search through the children, up to sema_down.  For a process that is not
\* among them, or whose code is -1, it returns -1 and changes nothing.
ProcessWait(p, c) ==
    /\ Intact
    /\ pc[p] = "user"
    /\ c \in Range(child_processes[p])
    /\ child_exit_code[c] # -1
    /\ Goto(p, "wait")
    /\ on' = [on EXCEPT ![p] = c]
    /\ UNCHANGED <<loadVars, child_processes, has_parent_status, statusVars, exitVars,
                   waited, exited>>

WaitDown(p) ==
    /\ Intact
    /\ pc[p] = "wait"
    /\ child_exit_sem[on[p]] > 0
    /\ child_exit_sem' = [child_exit_sem EXCEPT ![on[p]] = @ - 1]
    /\ Goto(p, "waited")
    /\ UNCHANGED <<on, loadVars, child_processes, has_parent_status, ws, count_lock, count,
                   child_exit_code, exitVars, waited, exited>>

\* Mutant of WaitReturn: the code is not marked as taken.
WaitReturnKeepsCode(p) ==
    /\ Intact
    /\ pc[p] = "waited"
    /\ waited' = [waited EXCEPT ![on[p]] = Append(@, child_exit_code[on[p]])]
    /\ Goto(p, "user")
    /\ on' = [on EXCEPT ![p] = None]
    /\ UNCHANGED <<loadVars, child_processes, has_parent_status, ws, count_lock, count,
                   child_exit_code, child_exit_sem, exitVars, exited>>

WaitReturn(p) ==
    /\ Intact
    /\ pc[p] = "waited"
    /\ waited' = [waited EXCEPT ![on[p]] = Append(@, child_exit_code[on[p]])]
    /\ child_exit_code' = [child_exit_code EXCEPT ![on[p]] = -1]
    /\ Goto(p, "user")
    /\ on' = [on EXCEPT ![p] = None]
    /\ UNCHANGED <<loadVars, child_processes, has_parent_status, ws, count_lock, count,
                   child_exit_sem, exitVars, exited>>

-----------------------------------------------------------------------------
(* syscall_exit, force_exit, kill; process_exit.                           *)

\* Mutant of Exit: the exit code is not stored.
ExitNoCode(p, code) ==
    /\ Intact
    /\ pc[p] = "user"
    /\ Goto(p, "exit")
    /\ at' = [at EXCEPT ![p] = 1]
    /\ exited' = [exited EXCEPT ![p] = code]
    /\ UNCHANGED <<on, loadVars, child_processes, has_parent_status, ws, count_lock, count,
                   child_exit_code, child_exit_sem, delete_children, waited>>

\* The process ends, by itself or because it was killed (code -1).
Exit(p, code) ==
    /\ Intact
    /\ pc[p] = "user"
    /\ Goto(p, "exit")
    /\ at' = [at EXCEPT ![p] = 1]
    /\ exited' = [exited EXCEPT ![p] = code]
    /\ child_exit_code' = IF has_parent_status[p] THEN [child_exit_code EXCEPT ![p] = code]
                          ELSE child_exit_code
    /\ UNCHANGED <<on, loadVars, child_processes, has_parent_status, ws, count_lock, count,
                   child_exit_sem, delete_children, waited>>

\* The element that the loop over the children is at.
Current(p) == child_processes[p][at[p]]

\* The head of that loop, and its lock_acquire.
ExitLoop(p) ==
    /\ Intact
    /\ pc[p] = "exit"
    /\ IF at[p] > Len(child_processes[p])
       THEN Goto(p, "delete") /\ UNCHANGED count_lock
       ELSE /\ count_lock[Current(p)] = None
            /\ count_lock' = [count_lock EXCEPT ![Current(p)] = p]
            /\ Goto(p, "counting")
    /\ UNCHANGED <<on, loadVars, child_processes, has_parent_status, ws, count,
                   child_exit_code, child_exit_sem, exitVars, waited, exited>>

\* Its body, up to lock_release.
ExitCount(p) ==
    LET c == Current(p) IN
    /\ Intact
    /\ pc[p] = "counting"
    /\ count' = [count EXCEPT ![c] = @ - 1]
    /\ delete_children' = IF count[c] = 1 THEN [delete_children EXCEPT ![p] = Append(@, c)]
                          ELSE delete_children
    /\ count_lock' = [count_lock EXCEPT ![c] = None]
    /\ Goto(p, "counted")
    /\ UNCHANGED <<on, loadVars, child_processes, has_parent_status, ws, child_exit_code,
                   child_exit_sem, at, waited, exited>>

\* list_next reads the element, and so the wait_status it is part of.
ExitNext(p) ==
    /\ Intact
    /\ pc[p] = "counted"
    /\ IF ws[Current(p)] = "live"
       THEN Goto(p, "exit") /\ at' = [at EXCEPT ![p] = @ + 1]
       ELSE Goto(p, "corrupt") /\ UNCHANGED at
    /\ UNCHANGED <<on, loadVars, child_processes, has_parent_status, statusVars,
                   delete_children, waited, exited>>

\* The position of c in the list of p's children, and the elements next to it.
Position(p, c) == CHOOSE i \in DOMAIN child_processes[p] : child_processes[p][i] = c
Neighbours(p, c) ==
    {child_processes[p][i] : i \in DOMAIN child_processes[p]
                                  \cap {Position(p, c) - 1, Position(p, c) + 1}}

\* An iteration of the loop that frees delete_children; list_remove writes to the
\* elements on both sides.
ExitDelete(p) ==
    /\ Intact
    /\ pc[p] = "delete"
    /\ IF delete_children[p] = <<>>
       THEN Goto(p, "leave") /\ UNCHANGED <<child_processes, delete_children, ws>>
       ELSE LET c == Head(delete_children[p]) IN
            IF \E d \in Neighbours(p, c) : ws[d] = "freed"
            THEN Goto(p, "corrupt") /\ UNCHANGED <<child_processes, delete_children, ws>>
            ELSE /\ child_processes' = [child_processes EXCEPT ![p] =
                                           Without(@, Position(p, c))]
                 /\ delete_children' = [delete_children EXCEPT ![p] = Tail(@)]
                 /\ ws' = [ws EXCEPT ![c] = "freed"]
                 /\ UNCHANGED pc
    /\ UNCHANGED <<on, loadVars, has_parent_status, count_lock, count, child_exit_code,
                   child_exit_sem, at, waited, exited>>

\* lock_acquire of the status shared with the parent.
Leave(p) ==
    /\ Intact
    /\ pc[p] = "leave"
    /\ IF has_parent_status[p]
       THEN /\ count_lock[p] = None
            /\ count_lock' = [count_lock EXCEPT ![p] = p]
            /\ Goto(p, "leaving")
       ELSE Goto(p, "dead") /\ UNCHANGED count_lock
    /\ UNCHANGED <<on, loadVars, child_processes, has_parent_status, ws, count,
                   child_exit_code, child_exit_sem, exitVars, waited, exited>>

\* Mutant of LeaveCount: the count is tested before it is decremented.
LeaveCountEarly(p) ==
    /\ Intact
    /\ pc[p] = "leaving"
    /\ count' = [count EXCEPT ![p] = @ - 1]
    /\ count_lock' = [count_lock EXCEPT ![p] = None]
    /\ Goto(p, IF count[p] = 2 THEN "free" ELSE "notify")
    /\ UNCHANGED <<on, loadVars, child_processes, has_parent_status, ws, child_exit_code,
                   child_exit_sem, exitVars, waited, exited>>

LeaveCount(p) ==
    /\ Intact
    /\ pc[p] = "leaving"
    /\ count' = [count EXCEPT ![p] = @ - 1]
    /\ count_lock' = [count_lock EXCEPT ![p] = None]
    /\ Goto(p, IF count[p] = 1 THEN "free" ELSE "notify")
    /\ UNCHANGED <<on, loadVars, child_processes, has_parent_status, ws, child_exit_code,
                   child_exit_sem, exitVars, waited, exited>>

\* The last use of the status: free it if the parent is gone, or wake the parent.
LeaveFree(p) ==
    /\ Intact
    /\ pc[p] = "free"
    /\ ws' = [ws EXCEPT ![p] = "freed"]
    /\ Goto(p, "dead")
    /\ UNCHANGED <<on, loadVars, child_processes, has_parent_status, count_lock, count,
                   child_exit_code, child_exit_sem, exitVars, waited, exited>>

LeaveNotify(p) ==
    /\ Intact
    /\ pc[p] = "notify"
    /\ IF ws[p] = "live"
       THEN /\ child_exit_sem' = [child_exit_sem EXCEPT ![p] = @ + 1]
            /\ Goto(p, "dead")
       ELSE Goto(p, "corrupt") /\ UNCHANGED child_exit_sem
    /\ UNCHANGED <<on, loadVars, child_processes, has_parent_status, ws, count_lock, count,
                   child_exit_code, exitVars, waited, exited>>

-----------------------------------------------------------------------------

\* What p does inside the kernel.
Step(p) ==
    \/ Load(p)
    \/ Loaded(p)
    \/ StartProcess(p)
    \/ WaitDown(p)
    \/ WaitReturn(p)
    \/ ExitLoop(p)
    \/ ExitCount(p)
    \/ ExitNext(p)
    \/ ExitDelete(p)
    \/ Leave(p)
    \/ LeaveCount(p)
    \/ LeaveFree(p)
    \/ LeaveNotify(p)

Next ==
    \E p \in Proc :
        \/ Step(p)
        \/ \E c \in Proc : ProcessExecute(p, c) \/ ProcessWait(p, c)
        \/ \E code \in Code : Exit(p, code)

\* The scheduler is fair to every process (ReadyRuns of Synch).
Fairness == \A p \in Proc : WF_vars(Step(p))

Spec == Init /\ [][Next]_vars /\ Fairness

-----------------------------------------------------------------------------
(* Properties.                                                             *)

\* Every variable holds a value of its kind (process.c, struct wait_status).
TypeOK ==
    /\ pc \in [Proc -> PC]
    /\ on \in [Proc -> Proc \cup {None}]
    /\ parent \in [Proc -> Proc \cup {None}]
    /\ success \in [Proc -> BOOLEAN]
    /\ load_sema \in [Proc -> 0..1]
    /\ wait_status_create \in [Proc -> {Freed, 0, 1}]
    /\ child_processes \in [Proc -> Seq(Proc)]
    /\ has_parent_status \in [Proc -> BOOLEAN]
    /\ ws \in [Proc -> {"none", "live", "freed"}]
    /\ count_lock \in [Proc -> Proc \cup {None}]
    /\ count \in [Proc -> 0..2]
    /\ child_exit_code \in [Proc -> Code \cup {-1, -2}]
    /\ child_exit_sem \in [Proc -> 0..1]
    /\ at \in [Proc -> Nat]
    /\ delete_children \in [Proc -> Seq(Proc)]
    /\ waited \in [Proc -> Seq(Code \cup {-1, -2})]
    /\ exited \in [Proc -> Code \cup {None}]

\* c has, or its parent has, taken itself off the count of c's status.
ChildLeft(c) == pc[c] \in {"notify", "free", "dead"}
ParentLeft(c) ==
    LET p == parent[c]
        l == child_processes[p]
    IN
    \/ pc[p] \in {"delete", "leave", "leaving", "notify", "free", "dead"}
    \/ /\ pc[p] \in {"exit", "counting", "counted"}
       /\ \E i \in DOMAIN l : l[i] = c /\ (i < at[p] \/ (i = at[p] /\ pc[p] = "counted"))

\* The state is well typed, its semaphores 0 or 1; count is the number of the two
\* processes that still use the status (struct wait_status: "Number of living
\* processes"); and a status is freed by the last of the two, by exactly one of
\* them, and never forgotten (process_exit).
CountIsUsers ==
    /\ TypeOK
    /\ Intact => \A c \in Proc :
          /\ ws[c] # "none" =>
                count[c] = (IF ChildLeft(c) THEN 0 ELSE 1) + (IF ParentLeft(c) THEN 0 ELSE 1)
          /\ ws[c] = "freed" => count[c] = 0
          /\ ws[c] = "live" /\ count[c] = 0 =>
                (pc[c] = "free") # (c \in Range(delete_children[parent[c]]))

\* While its parent is in process_execute a child that loaded waits for the
\* parent: it neither runs nor ends before parent_wait_status is set.
ChildAwaitsStatus ==
    \A p, c \in Proc :
        pc[p] = "execute" /\ on[p] = c =>
            \/ pc[c] = "load" /\ load_sema[c] = 0
            \/ pc[c] = "start" /\ success[c] /\ wait_status_create[c] = 0
            \/ ~success[c] /\ load_sema[c] = 1

\* process_wait returns, at most once, the code that the child ended with.
WaitReturnsExitCode ==
    Intact => \A c \in Proc :
        \/ waited[c] = <<>>
        \/ waited[c] = <<exited[c]>> /\ ChildLeft(c)

\* A parent that waits for a dead child goes on (process_wait).
WaitReturns ==
    \A p, c \in Proc :
        (pc[p] = "wait" /\ on[p] = c /\ pc[c] = "dead") ~> (pc[p] = "user" \/ ~Intact)

\* A child gets out of start_process, whether or not its load or its parent's
\* allocations succeed.
StartCompletes ==
    \A c \in Proc :
        pc[c] \in {"load", "start"} ~> (pc[c] \notin {"load", "start"} \/ ~Intact)

\* A wait_status lives as long as one of the processes that share it uses it.
StatusOutlivesUsers == Intact
=============================================================================
