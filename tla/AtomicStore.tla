---------------------------- MODULE AtomicStore ----------------------------
(***************************************************************************)
(* What two-phase commit promises: one copy of the data, on which requests *)
(* take effect one at a time, each wholly or not at all.                   *)
(***************************************************************************)
CONSTANTS Key, None, Oversized, Updates

VARIABLES
    data,       \* the value of each key, None if there is none
    pending,    \* the request being carried out, or None
    outcome     \* "undecided", "committed" or "aborted"

vars == <<data, pending, outcome>>

Init ==
    /\ data = [k \in Key |-> None]
    /\ pending = None
    /\ outcome = "undecided"

Begin(m) ==
    /\ pending = None
    /\ pending' = m
    /\ UNCHANGED <<data, outcome>>

\* Only a value that fits can be put, only a key that exists can be deleted.
Acceptable(m) ==
    IF m.type = "putreq" THEN {m.key, m.val} \cap Oversized = {}
                         ELSE data[m.key] # None

CommitRequest ==
    /\ pending # None
    /\ outcome = "undecided"
    /\ Acceptable(pending)
    /\ data' = [data EXCEPT ![pending.key] = pending.val]
    /\ outcome' = "committed"
    /\ UNCHANGED pending

AbortRequest ==
    /\ pending # None
    /\ outcome = "undecided"
    /\ outcome' = "aborted"
    /\ UNCHANGED <<data, pending>>

End ==
    /\ outcome # "undecided"
    /\ pending' = None
    /\ outcome' = "undecided"
    /\ UNCHANGED data

Next ==
    \/ \E m \in Updates : Begin(m)
    \/ CommitRequest
    \/ AbortRequest
    \/ End

Spec == Init /\ [][Next]_vars
=============================================================================
