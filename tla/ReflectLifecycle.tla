-------------------------- MODULE ReflectLifecycle --------------------------
(***************************************************************************)
(* What reflect promises of a correction: once an application of it is     *)
(* confirmed, only a revoke takes it back, and only another confirmation   *)
(* restores it.                                                            *)
(***************************************************************************)
CONSTANT Corrections

VARIABLE view  \* how each correction shows

LifecycleInit == view = [c \in Corrections |-> "open"]

(* The status is set, and the confirmation is still to come. *)
Mark(c) ==
    /\ view[c] = "open"
    /\ view' = [view EXCEPT ![c] = "reconciled"]

(* Skipped before the confirmation came. *)
Unmark(S) ==
    /\ \A c \in S : view[c] = "reconciled"
    /\ view' = [c \in Corrections |-> IF c \in S THEN "open" ELSE view[c]]

Confirm(c) ==
    /\ view[c] \in {"open", "reconciled", "reverted"}
    /\ view' = [view EXCEPT ![c] = "active"]

Withdraw(c) ==
    /\ view[c] = "active"
    /\ view' = [view EXCEPT ![c] = "reverted"]

LifecycleNext ==
    \/ \E S \in SUBSET Corrections : Unmark(S)
    \/ \E c \in Corrections : Mark(c) \/ Confirm(c) \/ Withdraw(c)

LifecycleSpec == LifecycleInit /\ [][LifecycleNext]_view
=============================================================================
