---------------------------- MODULE WeakSignals ----------------------------
(***************************************************************************)
(* The weak signals: utterances that may be corrections of the assistant,  *)
(* kept in weak_signals.jsonl until a user confirms or rejects them.       *)
(*                                                                         *)
(* A confirmed signal is promoted: a record goes to corrections.jsonl, the *)
(* line of the signal is marked, and its key joins the keys that have been *)
(* reviewed.  The three stores have no lock in common.  weak_signals.jsonl *)
(* has none at all: promotion and expiry read the file and later replace   *)
(* it, whatever was appended or marked in the meantime.                    *)
(*                                                                         *)
(* The key of a signal hashes all that was noted of it, the words of the   *)
(* judge included: one utterance judged twice makes two signals.           *)
(***************************************************************************)
EXTENDS Naturals, FiniteSets

CONSTANTS
    Signals,      \* what a signal_key can be
    Promoters,    \* callers of evolve-reflect --promote-weak, at a time
    Expirers,     \* callers of mark_expired
    MaxFailures,  \* bound: appends that are refused
    MaxDeaths     \* bound: promotions that die

ASSUME SignalsAssumption ==
    /\ IsFiniteSet(Promoters)
    /\ Promoters \cap Expirers = {}
    /\ MaxFailures \in Nat /\ MaxDeaths \in Nat

VARIABLES
    weak,         \* weak[k]: what weak_signals.jsonl says of signal k
    aged,         \* the signals detected more than TTL_DAYS ago
    reviewed,     \* reviewed[k]: the decision in correction_review_seen.jsonl
    corrections,  \* corrections[k]: the records in corrections.jsonl made of k
    at,           \* where each promoter and expirer stands
    left,         \* left[p]: the candidates p has yet to append
    done,         \* done[p]: promoted_keys, appended and not yet reviewed
    copy,         \* copy[p]: the file as p read it
    failures, deaths

vars == <<weak, aged, reviewed, corrections, at, left, done, copy, failures, deaths>>

Rewriters == Promoters \cup Expirers
Line == {"absent", "open", "promoted", "expired"}

TypeOK ==
    /\ weak \in [Signals -> Line]
    /\ aged \subseteq Signals
    /\ reviewed \in [Signals -> {"no", "promoted", "rejected"}]
    /\ corrections \in [Signals -> Nat]
    /\ at \in [Rewriters -> {"idle", "append", "mark", "review", "expire"}]
    /\ left \in [Promoters -> SUBSET Signals]
    /\ done \in [Promoters -> SUBSET Signals]
    /\ copy \in [Rewriters -> [Signals -> Line]]
    /\ \A p \in Promoters : at[p] = "idle" => left[p] = {} /\ done[p] = {}
    /\ failures \in 0 .. MaxFailures /\ deaths \in 0 .. MaxDeaths

NoLines == [k \in Signals |-> "absent"]

Init ==
    /\ weak = NoLines
    /\ aged = {}
    /\ reviewed = [k \in Signals |-> "no"]
    /\ corrections = [k \in Signals |-> 0]
    /\ at = [p \in Rewriters |-> "idle"]
    /\ left = [p \in Promoters |-> {}]
    /\ done = [p \in Promoters |-> {}]
    /\ copy = [p \in Rewriters |-> NoLines]
    /\ failures = 0 /\ deaths = 0

Goto(p, where) == at' = [at EXCEPT ![p] = where]

-----------------------------------------------------------------------------
(* append_signals: a key the file has already is not appended again. *)
Detect(k) ==
    /\ weak[k] = "absent"
    /\ weak' = [weak EXCEPT ![k] = "open"]
    /\ UNCHANGED <<aged, reviewed, corrections, at, left, done, copy, failures, deaths>>

(* TTL_DAYS have passed since the signal was detected. *)
Age(k) ==
    /\ weak[k] # "absent" /\ k \notin aged
    /\ aged' = aged \cup {k}
    /\ UNCHANGED <<weak, reviewed, corrections, at, left, done, copy, failures, deaths>>

(* Mutant: the keys that were reviewed are not excluded. *)
CandidatesReviewedToo == {k \in Signals : weak[k] = "open" /\ k \notin aged}

(* read_unpromoted: neither promoted nor expired nor reviewed. *)
Candidates == {k \in Signals : weak[k] = "open" /\ k \notin aged /\ reviewed[k] = "no"}

(* promote_signals for the keys K the user said yes to. *)
PromoteRead(p) ==
    /\ at[p] = "idle"
    /\ \E K \in SUBSET Candidates \ {{}} : left' = [left EXCEPT ![p] = K]
    /\ Goto(p, "append")
    /\ UNCHANGED <<weak, aged, reviewed, corrections, done, copy, failures, deaths>>

PromoteAppend(p) ==
    /\ at[p] = "append"
    /\ \E k \in left[p] :
        /\ corrections' = [corrections EXCEPT ![k] = @ + 1]
        /\ left' = [left EXCEPT ![p] = @ \ {k}]
        /\ done' = [done EXCEPT ![p] = @ \cup {k}]
    /\ UNCHANGED <<weak, aged, reviewed, at, copy, failures, deaths>>

(* A call of promote_signals ends. *)
Abandon(p) ==
    /\ Goto(p, "idle")
    /\ left' = [left EXCEPT ![p] = {}]
    /\ done' = [done EXCEPT ![p] = {}]
    /\ copy' = [copy EXCEPT ![p] = NoLines]

(* Mutant: a key whose append is refused counts as promoted. *)
PromoteFailOnward(p) ==
    /\ at[p] = "append"
    /\ failures < MaxFailures /\ failures' = failures + 1
    /\ \E k \in left[p] :
        /\ left' = [left EXCEPT ![p] = @ \ {k}]
        /\ done' = [done EXCEPT ![p] = @ \cup {k}]
    /\ UNCHANGED <<weak, aged, reviewed, corrections, at, copy, deaths>>

(* The append is refused: the message to stderr names sys, which the module  *)
(* has not imported, and the NameError ends the promotion there and then.    *)
PromoteFail(p) ==
    /\ at[p] = "append" /\ left[p] # {}
    /\ failures < MaxFailures /\ failures' = failures + 1
    /\ Abandon(p)
    /\ UNCHANGED <<weak, aged, reviewed, corrections, deaths>>

MarkRead(p) ==
    /\ at[p] = "append" /\ left[p] = {}
    /\ copy' = [copy EXCEPT ![p] = weak]
    /\ Goto(p, "mark")
    /\ UNCHANGED <<weak, aged, reviewed, corrections, left, done, failures, deaths>>

(* The file as _rewrite_promoted writes it. *)
Marked(file, K) ==
    [k \in Signals |-> IF k \in K /\ file[k] # "absent" THEN "promoted" ELSE file[k]]

(* _rewrite_promoted writes only if a line changes, and says nothing when   *)
(* the write fails.                                                         *)
MarkWrite(p) ==
    /\ at[p] = "mark"
    /\ \/ /\ Marked(copy[p], done[p]) # copy[p]
          /\ weak' = Marked(copy[p], done[p])
       \/ UNCHANGED weak
    /\ copy' = [copy EXCEPT ![p] = NoLines]
    /\ Goto(p, "review")
    /\ UNCHANGED <<aged, reviewed, corrections, left, done, failures, deaths>>

(* record_reviewed(promoted_keys, decision="promoted") by the caller, a     *)
(* line at a time.  What was recorded of a key by others stays.             *)
Review(p) ==
    /\ at[p] = "review"
    /\ \E k \in done[p] :
        /\ reviewed' = [reviewed EXCEPT ![k] = IF @ = "no" THEN "promoted" ELSE @]
        /\ done' = [done EXCEPT ![p] = @ \ {k}]
    /\ UNCHANGED <<weak, aged, corrections, at, left, copy, failures, deaths>>

(* append_jsonl is refused, and record_reviewed does not look at the result. *)
ReviewFail(p) ==
    /\ at[p] = "review"
    /\ failures < MaxFailures /\ failures' = failures + 1
    /\ \E k \in done[p] : done' = [done EXCEPT ![p] = @ \ {k}]
    /\ UNCHANGED <<weak, aged, reviewed, corrections, at, left, copy, deaths>>

ReviewEnd(p) ==
    /\ at[p] = "review" /\ done[p] = {}
    /\ Abandon(p)
    /\ UNCHANGED <<weak, aged, reviewed, corrections, failures, deaths>>

(* evolve-reflect --reject-weak. *)
Reject(k) ==
    /\ weak[k] # "absent" /\ reviewed[k] = "no"
    /\ reviewed' = [reviewed EXCEPT ![k] = "rejected"]
    /\ UNCHANGED <<weak, aged, corrections, at, left, done, copy, failures, deaths>>

-----------------------------------------------------------------------------
(* mark_expired; the copy is taken and written back without a lock. *)
Expirable == {k \in aged : weak[k] = "open"}

ExpireRead(e) ==
    /\ at[e] = "idle" /\ Expirable # {}
    /\ copy' = [copy EXCEPT ![e] =
                    [k \in Signals |-> IF k \in Expirable THEN "expired" ELSE weak[k]]]
    /\ Goto(e, "expire")
    /\ UNCHANGED <<weak, aged, reviewed, corrections, left, done, failures, deaths>>

ExpireWrite(e) ==
    /\ at[e] = "expire"
    /\ weak' = copy[e]
    /\ copy' = [copy EXCEPT ![e] = NoLines]
    /\ Goto(e, "idle")
    /\ UNCHANGED <<aged, reviewed, corrections, left, done, failures, deaths>>

PromoterDies(p) ==
    /\ at[p] # "idle"
    /\ deaths < MaxDeaths /\ deaths' = deaths + 1
    /\ Abandon(p)
    /\ UNCHANGED <<weak, aged, reviewed, corrections, failures>>

Next ==
    \/ \E k \in Signals : Detect(k) \/ Age(k) \/ Reject(k)
    \/ \E p \in Promoters :
        \/ PromoteRead(p) \/ PromoteAppend(p) \/ PromoteFail(p)
        \/ MarkRead(p) \/ MarkWrite(p)
        \/ Review(p) \/ ReviewFail(p) \/ ReviewEnd(p) \/ PromoterDies(p)
    \/ \E e \in Expirers : ExpireRead(e) \/ ExpireWrite(e)

Spec == Init /\ [][Next]_vars

-----------------------------------------------------------------------------
(* A signal that is marked promoted, or that was recorded as answered yes    *)
(* and is never shown again, has its correction, although the marks are      *)
(* made in two files after the fact and either may be lost or written twice. *)
PromotedIsRecorded ==
    \A k \in Signals :
        weak[k] = "promoted" \/ reviewed[k] = "promoted" => corrections[k] > 0

(* A signal becomes a correction at most once for each promotion that can be *)
(* under way at a time, and once more only for a promotion that was cut      *)
(* short or could not record its answer: a mark undone by an expiry, or lost *)
(* to another promotion, is made up for by the key in the reviewed ones.     *)
RepeatsArePaidFor ==
    \A k \in Signals : corrections[k] <= Cardinality(Promoters) + failures + deaths
=============================================================================
