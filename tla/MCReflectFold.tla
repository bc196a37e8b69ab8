--------------------------- MODULE MCReflectFold ---------------------------
(***************************************************************************)
(* ReflectFold against ReflectReplay: every event set over the ids,        *)
(* targets and times below, orphan confirmations, foreign targets and      *)
(* stale reverts included.  No variable is involved.                       *)
(***************************************************************************)
EXTENDS ReflectReplay

Targets == {"c", "d"}
AttemptIds == {1, 2}
EventIds == 3 .. 6
EventTimes == 1 .. 2

(* Id 6 is also the reference of a confirmation without an attempt. *)
NewAttempt(id) == [type : {"attempted"}, id : {id}, target : Targets]
NewEvent(id) ==
    [type : {"applied"}, id : {id}, attempt : AttemptIds \cup {6},
     target : Targets, at : EventTimes]
    \cup [type : {"reverted"}, id : {id}, ref : EventIds, at : EventTimes]

(* Attempt 1 is one of the correction looked at; attempt 2 may be foreign. *)
AllAgree ==
    \A a \in NewAttempt(2), e \in NewEvent(3), f \in NewEvent(4),
       g \in NewEvent(5), h \in NewEvent(6), status \in {"pending", "applied"} :
        Agree({[type |-> "attempted", id |-> 1, target |-> "c"], a, e, f, g, h}, "c", status)
=============================================================================
