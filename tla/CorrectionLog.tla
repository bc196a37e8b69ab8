--------------------------- MODULE CorrectionLog ---------------------------
(***************************************************************************)
(* What corrections.jsonl promises its users: a set of records in which    *)
(* every operation of scripts/lib/rl_common/correction_id.py and of its    *)
(* rewriters takes effect at once and on nothing but its own records.      *)
(***************************************************************************)
CONSTANT Ids  \* correction ids

VARIABLE log  \* the readable records

Status == {"pending", "applied", "skipped"}
Record == [id : Ids, status : Status, invalid : BOOLEAN]

Decided(r) == r.status \in {"applied", "skipped"}

(* The two ways a record changes. *)
Decide(r, st) == [r EXCEPT !.status = st]
Invalidate(r) == [r EXCEPT !.invalid = TRUE]

WithStatus(R, S, st) == {IF r.id \in S THEN Decide(r, st) ELSE r : r \in R}
Invalidated(R, S) == {IF r.id \in S THEN Invalidate(r) ELSE r : r \in R}

LogInit == log = {}

LogAppend ==
    \E id \in Ids :
        /\ \A r \in log : r.id # id
        /\ log' = log \cup {[id |-> id, status |-> "pending", invalid |-> FALSE]}

LogSetStatus ==
    \E S \in SUBSET Ids, st \in {"applied", "skipped"} :
        /\ S \subseteq {r.id : r \in log}
        /\ log' = WithStatus(log, S, st)

LogInvalidate ==
    \E S \in SUBSET Ids : log' = Invalidated(log, S)

(* Only records that are decided are ever dropped. *)
LogSweep ==
    /\ log' \subseteq log
    /\ \A r \in log \ log' : Decided(r)

LogNext == LogAppend \/ LogSetStatus \/ LogInvalidate \/ LogSweep

LogSpec == LogInit /\ [][LogNext]_log
=============================================================================
