------------------------------ MODULE Reflect ------------------------------
(***************************************************************************)
(* reflect --apply, --revoke-applied, --skip and --skip-all.               *)
(*                                                                         *)
(* --apply writes three times to two files: an attempt to                  *)
(* reflect_apply_events.jsonl, the status to corrections.jsonl, and the    *)
(* confirmation to the events again.  It may die between them, an append   *)
(* may fail, and other reflect processes run at the same time.  Clocks of  *)
(* processes are not synchronised, and may be set back: a stamp is any     *)
(* time.                                                                   *)
(*                                                                         *)
(* Each write is one step: appends and revokes hold the flock of the       *)
(* events file from their check to their write, and CorrectionStore shows  *)
(* that a status edit takes effect at once.                                *)
(***************************************************************************)
EXTENDS ReflectFold

CONSTANTS
    Corrections,
    Appliers,     \* processes of reflect --apply
    Skippers,     \* processes of reflect --skip and --skip-all
    MaxId,        \* bound: event ids are 1 .. MaxId
    MaxTime       \* bound: stamps are 1 .. MaxTime

ASSUME ReflectAssumption ==
    /\ Appliers \cap Skippers = {}
    /\ MaxId \in Nat
    /\ MaxTime \in Nat

VARIABLES
    status,   \* reflect_status of each correction
    events,   \* the records of reflect_apply_events.jsonl
    pc,       \* where each process stands
    picked,   \* picked[p]: the corrections p works on
    attempt   \* attempt[p]: the id of the attempt p has logged

vars == <<status, events, pc, picked, attempt>>

Procs == Appliers \cup Skippers
Ids == 1 .. MaxId
Times == 1 .. MaxTime
Status == {"pending", "applied", "skipped"}

Attempted == [type : {"attempted"}, id : Ids, target : Corrections]
Skipped == [type : {"skipped"}, id : Ids, target : Corrections]
Applied == [type : {"applied"}, id : Ids, attempt : Ids, target : Corrections, at : Times]
Reverted == [type : {"reverted"}, id : Ids, ref : Ids, at : Times]

TypeOK ==
    /\ status \in [Corrections -> Status]
    /\ events \subseteq Attempted \cup Skipped \cup Applied \cup Reverted
    /\ pc \in [Procs -> {"idle", "attempt", "status", "confirm", "skip", "skipAll", "log"}]
    /\ picked \in [Procs -> SUBSET Corrections]
    /\ attempt \in [Procs -> Ids \cup {0}]

Init ==
    /\ status = [c \in Corrections |-> "pending"]
    /\ events = {}
    /\ pc = [p \in Procs |-> "idle"]
    /\ picked = [p \in Procs |-> {}]
    /\ attempt = [p \in Procs |-> 0]

Fresh(id) == \A e \in events : e.id # id

(* append_unique_record: an id that is already there is refused. *)
Log(e) == Fresh(e.id) /\ events' = events \cup {e}

Become(p, where, S, id) ==
    /\ pc' = [pc EXCEPT ![p] = where]
    /\ picked' = [picked EXCEPT ![p] = S]
    /\ attempt' = [attempt EXCEPT ![p] = id]

Exit(p) == Become(p, "idle", {}, 0)

(* The process ends between two writes: it is killed, or a step failed. *)
Stop(p) ==
    /\ pc[p] # "idle"
    /\ Exit(p)
    /\ UNCHANGED <<status, events>>

-----------------------------------------------------------------------------
(* --apply resolves its correction, whatever its status. *)
ApplyBegin(p) ==
    /\ p \in Appliers
    /\ pc[p] = "idle"
    /\ \E c \in Corrections : Become(p, "attempt", {c}, 0)
    /\ UNCHANGED <<status, events>>

(* Phase 1.  When the append fails, --apply exits: see Stop. *)
LogAttempt(p) ==
    /\ p \in Appliers
    /\ pc[p] = "attempt"
    /\ \E c \in picked[p], id \in Ids :
          /\ Log([type |-> "attempted", id |-> id, target |-> c])
          /\ Become(p, "status", {c}, id)
    /\ UNCHANGED status

(* Mutant: the attempt is logged later, or not at all. *)
SetAppliedEarly(p) ==
    /\ p \in Appliers
    /\ pc[p] = "attempt"
    /\ \E c \in picked[p] :
          /\ status' = [status EXCEPT ![c] = "applied"]
          /\ Become(p, "confirm", {c}, 0)
    /\ UNCHANGED events

(* update_reflect_status(.., "applied").  A refusal is a Stop. *)
SetApplied(p) ==
    /\ p \in Appliers
    /\ pc[p] = "status"
    /\ \E c \in picked[p] :
          /\ status' = [status EXCEPT ![c] = "applied"]
          /\ Become(p, "confirm", {c}, attempt[p])
    /\ UNCHANGED events

(* Mutant: the confirmation names the attempt some process logged last. *)
LogConfirmAny(p) ==
    /\ p \in Appliers
    /\ pc[p] = "confirm"
    /\ \E c \in picked[p], id \in Ids, at \in Times, t \in Attempts(events) :
          /\ \A u \in Attempts(events) : u.id <= t.id
          /\ Log([type |-> "applied", id |-> id, attempt |-> t.id,
                  target |-> c, at |-> at])
    /\ Exit(p)
    /\ UNCHANGED status

(* Phase 2.  When the append fails, the status stays and --apply says so. *)
LogConfirm(p) ==
    /\ p \in Appliers
    /\ pc[p] = "confirm"
    /\ \E c \in picked[p], id \in Ids, at \in Times :
          Log([type |-> "applied", id |-> id, attempt |-> attempt[p],
               target |-> c, at |-> at])
    /\ Exit(p)
    /\ UNCHANGED status

-----------------------------------------------------------------------------
(* Mutant: no comparison of the stamps. *)
RevocableAtAnyTime(ev, a, at) == IsActive(ev, a) /\ ~Ambiguous(ev, a.target)

(* Mutant: any confirmed application may be revoked, again too. *)
RevocableIfConfirmed(ev, a, at) == a \in Confirmed(ev) /\ at > a.at

(* should_block of revoke_applied lets only this revert pass. *)
Revocable(ev, a, at) ==
    /\ IsActive(ev, a)
    /\ ~Ambiguous(ev, a.target)
    /\ at > a.at

(* revoke_applied checks and appends inside the flock of the events file. *)
Revoke ==
    /\ \E a \in Applications(events), id \in Ids, at \in Times :
          /\ Revocable(events, a, at)
          /\ Log([type |-> "reverted", id |-> id, ref |-> a.id, at |-> at])
    /\ UNCHANGED <<status, pc, picked, attempt>>

-----------------------------------------------------------------------------
(* --skip reads without the lock, and passes over what it sees applied. *)
SkipBegin(p) ==
    /\ p \in Skippers
    /\ pc[p] = "idle"
    /\ \E c \in Corrections :
          /\ status[c] # "applied"
          /\ Become(p, "skip", {c}, 0)
    /\ UNCHANGED <<status, events>>

(* --skip-all picks every pending correction. *)
SkipAllBegin(p) ==
    /\ p \in Skippers
    /\ pc[p] = "idle"
    /\ LET S == {c \in Corrections : status[c] = "pending"}
       IN  S # {} /\ Become(p, "skipAll", S, 0)
    /\ UNCHANGED <<status, events>>

(* update_reflect_status(.., "skipped"). *)
SetSkipped(p) ==
    /\ p \in Skippers
    /\ status' = [c \in Corrections |-> IF c \in picked[p] THEN "skipped" ELSE status[c]]
    /\ \/ pc[p] = "skip" /\ Become(p, "log", picked[p], 0)
       \/ pc[p] = "skipAll" /\ Exit(p)
    /\ UNCHANGED events

(* The event is for the audit: the fold does not read it. *)
LogSkipped(p) ==
    /\ p \in Skippers
    /\ pc[p] = "log"
    /\ \E c \in picked[p], id \in Ids :
          Log([type |-> "skipped", id |-> id, target |-> c])
    /\ Exit(p)
    /\ UNCHANGED status

ProcStep(p) ==
    \/ Stop(p)
    \/ ApplyBegin(p)
    \/ LogAttempt(p)
    \/ SetApplied(p)
    \/ LogConfirm(p)
    \/ SkipBegin(p)
    \/ SkipAllBegin(p)
    \/ SetSkipped(p)
    \/ LogSkipped(p)

Next == Revoke \/ \E p \in Procs : ProcStep(p)

Spec == Init /\ [][Next]_vars

-----------------------------------------------------------------------------
(* However clocks run, no revoke leaves a correction whose last word cannot *)
(* be told: such a correction would count neither as applied nor as         *)
(* reverted, and no command could settle it but another --apply.            *)
NoAmbiguity == \A c \in Corrections : ~Ambiguous(events, c)

(* A correction marked applied has a trace in the events, whatever died     *)
(* in between: the fold reports it active, reconciled or reverted.          *)
AppliedIsAccounted ==
    \A c \in Corrections :
        status[c] = "applied" => View(events, c, status[c]) # "open"

(* A revoke that reports success takes back the correction: no older        *)
(* application of it becomes active instead, and nothing else changes.      *)
RevokeWithdraws ==
    [][\A v \in Reverts(events') \ Reverts(events), a \in Applications(events) :
          v.ref = a.id =>
             /\ HasActive(events, a.target)
             /\ ~HasActive(events', a.target)
             /\ \A c \in Corrections \ {a.target} :
                   HasActive(events', c) <=> HasActive(events, c)]_vars

Lifecycle == INSTANCE ReflectLifecycle
    WITH view <- [c \in Corrections |-> View(events, c, status[c])]

(* Each correction goes through the lifecycle, under every interleaving.    *)
ImplementsLifecycle == Lifecycle!LifecycleSpec
=============================================================================
