--------------------------- MODULE ReflectReplay ---------------------------
(***************************************************************************)
(* A word-for-word reading of fold_corrections: sort the transitions of a  *)
(* correction, then replay them.  The fold does not see the order of the   *)
(* lines.                                                                  *)
(***************************************************************************)
EXTENDS ReflectFold, Sequences, FiniteSets

UsableReverts(ev, c) ==
    {v \in Reverts(ev) : \E a \in ConfirmedOf(ev, c) : v.ref = a.id /\ v.at > a.at}

(* sorted(): an event comes after those it is later than. *)
Sorted(S) ==
    [i \in 1 .. Cardinality(S) |->
        CHOOSE e \in S : Cardinality({f \in S : Later(e, f)}) = i - 1]

Transitions(ev, c) == Sorted(ConfirmedOf(ev, c) \cup UsableReverts(ev, c))

None == [type |-> "none", id |-> 0]

(* One turn of the loop: the current application, and whether a revert ever *)
(* undid one.                                                               *)
Move(s, e) ==
    CASE e.type = "applied" -> [s EXCEPT !.current = e]
      [] e.type = "reverted" /\ s.current.id = e.ref ->
             [current |-> None, undone |-> TRUE]
      [] OTHER -> s

Loop(ts) ==
    LET step[i \in 0 .. Len(ts)] ==
            IF i = 0 THEN [current |-> None, undone |-> FALSE]
            ELSE Move(step[i - 1], ts[i])
    IN  step

Replay(ts) == Loop(ts)[Len(ts)]

Unresolved(ev, c) ==
    {v \in Reverts(ev) :
        \E a \in ConfirmedOf(ev, c) :
            /\ v.ref = a.id
            /\ v.at <= a.at
            /\ ~\E b \in ConfirmedOf(ev, c) : b.id # v.ref /\ b.at > v.at}

ReplayedView(ev, c, status) ==
    LET r == Replay(Transitions(ev, c))
        attempted == \E t \in Attempts(ev) : t.target = c
    IN  CASE Unresolved(ev, c) # {} -> "ambiguous"
          [] Unresolved(ev, c) = {} /\ r.current # None -> "active"
          [] Unresolved(ev, c) = {} /\ r.current = None /\ r.undone -> "reverted"
          [] OTHER -> IF status = "applied" /\ attempted THEN "reconciled" ELSE "open"

(* The closed form shows of a correction what the loop shows. *)
Agree(ev, c, status) == View(ev, c, status) = ReplayedView(ev, c, status)
=============================================================================
