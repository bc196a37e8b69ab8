---------------------------- MODULE ReflectFold ----------------------------
(***************************************************************************)
(* fold_corrections: what the events of reflect_apply_events.jsonl say of  *)
(* a correction.                                                           *)
(*                                                                         *)
(* An event is a record.  Its id orders events of equal time and is unique *)
(* (append_unique_record refuses an id that is there, and the fold skips   *)
(* ids that occur twice).  What an attempt says about files is left out:   *)
(* no choice of the fold depends on it.                                    *)
(***************************************************************************)
EXTENDS Integers

Attempts(ev) == {e \in ev : e.type = "attempted"}
Applications(ev) == {e \in ev : e.type = "applied"}
Reverts(ev) == {e \in ev : e.type = "reverted"}

(* The order of transitions: by time, then by id. *)
Later(e, f) == e.at > f.at \/ (e.at = f.at /\ e.id > f.id)

(* An application counts if it confirms an attempt of its own target, and   *)
(* no other application confirms that attempt.                              *)
Confirmed(ev) ==
    {a \in Applications(ev) :
        /\ \E t \in Attempts(ev) : t.id = a.attempt /\ t.target = a.target
        /\ \A b \in Applications(ev) : b.attempt = a.attempt => b = a}

ConfirmedOf(ev, c) == {a \in Confirmed(ev) : a.target = c}

RevertsOf(ev, a) == {v \in Reverts(ev) : v.ref = a.id}

(* A revert stamped after the application it names.  One that is not is     *)
(* ambiguous: the order of the two is unknown.                              *)
Usable(v, a) == v.at > a.at

(* An ambiguous revert makes its correction ambiguous, unless another       *)
(* application of the correction is stamped after it.                       *)
Ambiguous(ev, c) ==
    \E a \in ConfirmedOf(ev, c) : \E v \in RevertsOf(ev, a) :
        /\ ~Usable(v, a)
        /\ \A b \in ConfirmedOf(ev, c) : b # a => b.at <= v.at

(* Mutant: any application that is not reverted is active. *)
IsActiveAny(ev, a) ==
    /\ a \in Confirmed(ev)
    /\ \A v \in RevertsOf(ev, a) : ~Usable(v, a)

(* The latest application, when it is not reverted: a revert undoes only    *)
(* the application that is current, and does not bring back an older one.   *)
IsActive(ev, a) ==
    /\ a \in Confirmed(ev)
    /\ \A b \in ConfirmedOf(ev, a.target) : b # a => Later(a, b)
    /\ \A v \in RevertsOf(ev, a) : ~Usable(v, a)

HasActive(ev, c) == \E a \in ConfirmedOf(ev, c) : IsActive(ev, a)

(* Some revert undid the application that was current when it came. *)
WasReverted(ev, c) ==
    \E a \in ConfirmedOf(ev, c) : \E v \in RevertsOf(ev, a) :
        /\ Usable(v, a)
        /\ \A b \in ConfirmedOf(ev, c) : ~(Later(b, a) /\ Later(v, b))

(* The process died between the status and the confirmation: the status     *)
(* and the attempt stand in for it.                                         *)
Reconciled(ev, c, status) ==
    status = "applied" /\ \E t \in Attempts(ev) : t.target = c

(* What the folded correction shows. *)
View(ev, c, status) ==
    IF Ambiguous(ev, c) THEN "ambiguous"
    ELSE IF HasActive(ev, c) THEN "active"
    ELSE IF WasReverted(ev, c) THEN "reverted"
    ELSE IF Reconciled(ev, c, status) THEN "reconciled"
    ELSE "open"
=============================================================================
