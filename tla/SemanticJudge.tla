--------------------------- MODULE SemanticJudge ---------------------------
(***************************************************************************)
(* The judgement of utterances by a language model.                        *)
(*                                                                         *)
(* Utterances that have not been judged go out in batches; the verdicts    *)
(* make weak signals of the corrections among them, and only then are the  *)
(* utterances recorded as judged.  Two kinds of process do this.  The      *)
(* daily runner selects what the day's limits leave, under a lock, newest  *)
(* first, and books each batch before it calls the model.  A session of    *)
(* evolve shows the batches to the assistant, saves its replies by batch   *)
(* id, and has --drain make the batches anew to read the replies against;  *)
(* it takes no lock and books nothing.                                     *)
(*                                                                         *)
(* Utterances are numbered in the order they were said.  An utterance      *)
(* that only quotes the assistant never makes a signal: read "no".         *)
(***************************************************************************)
EXTENDS Naturals, FiniteSetsExt

CONSTANTS
    Utterances,      \* what users say, by number
    Runners,         \* runs of run_daily_judge(run=True)
    Sessions,        \* runs of evolve with --drain --correction-responses
    BatchSize,       \* utterances in a batch
    UtteranceLimit,  \* daily_utterance_limit
    TokenLimit,      \* daily_token_limit
    Overhead,        \* _PROMPT_OVERHEAD_TOKENS
    MaxDays,         \* bound: days are 1 .. MaxDays
    MaxJudgeDeaths,       \* bound: processes that die
    Nobody           \* the runner's lock is free

Judges == Runners \cup Sessions
Days == 1 .. MaxDays

ASSUME JudgeAssumption ==
    /\ Utterances \subseteq Nat
    /\ Runners \cap Sessions = {}
    /\ Nobody \notin Runners
    /\ BatchSize \in Nat \ {0}
    /\ UtteranceLimit \in Nat /\ TokenLimit \in Nat /\ Overhead \in Nat
    /\ MaxDays \in Nat \ {0} /\ MaxJudgeDeaths \in Nat

VARIABLES
    uttered,   \* the utterances in the archive
    today,
    judged,    \* judged[u]: the day u was recorded as judged, 0 if it was not
    booked,    \* booked[d]: tokens booked on day d
    lock,      \* the runner that holds correction_judged.jsonl.lock
    stage,     \* where each judge stands
    todo,      \* todo[j]: selected by a runner, or shown to a session
    replies,   \* replies[s]: [head, said] for the batches s has a reply to
    heard,     \* heard[j]: utterances with a verdict in this run
    signal,    \* signal[j]: those of them whose signal is yet to be appended
    signals,   \* utterances with a signal of theirs in weak_signals.jsonl
    spent,     \* tokens of the calls made (history)
    given,     \* <<u, v>>: the model gave the verdict v on u (history)
    stale,     \* a drain made other batches than its session saw (history)
    judgeDeaths

judgeVars == <<uttered, today, judged, booked, lock, stage, todo, replies,
          heard, signal, signals, spent, given, stale, judgeDeaths>>

(* A reply gives verdicts by index in the batch; one with no verdict says   *)
(* that there is no correction.                                             *)
Said(n) == UNION {[D -> {"yes", "no"}] : D \in SUBSET (0 .. n - 1)}

JudgeTypeOK ==
    /\ uttered \subseteq Utterances
    /\ today \in Days
    /\ judged \in [Utterances -> 0 .. MaxDays]
    /\ booked \in [Days -> Nat]
    /\ lock \in Runners \cup {Nobody}
    /\ stage \in [Judges -> {"idle", "book", "call", "show", "write"}]
    /\ todo \in [Judges -> SUBSET Utterances]
    /\ replies \in [Sessions -> SUBSET [head : Utterances, said : Said(BatchSize)]]
    /\ heard \in [Judges -> SUBSET Utterances]
    /\ signal \in [Judges -> SUBSET Utterances]
    /\ spent \in Nat
    /\ given \subseteq Utterances \X {"yes", "no"}
    /\ signals \subseteq Utterances
    /\ stale \in BOOLEAN /\ judgeDeaths \in 0 .. MaxJudgeDeaths

JudgeInit ==
    /\ uttered = {} /\ today = 1
    /\ judged = [u \in Utterances |-> 0]
    /\ booked = [d \in Days |-> 0]
    /\ lock = Nobody
    /\ stage = [j \in Judges |-> "idle"]
    /\ todo = [j \in Judges |-> {}]
    /\ replies = [s \in Sessions |-> {}]
    /\ heard = [j \in Judges |-> {}]
    /\ signal = [j \in Judges |-> {}]
    /\ spent = 0 /\ given = {} /\ signals = {} /\ stale = FALSE /\ judgeDeaths = 0

-----------------------------------------------------------------------------
Unjudged == {u \in uttered : judged[u] = 0}
Newest(S, n) == {u \in S : Cardinality({v \in S : v > u}) < n}

(* estimate_tokens, an utterance costing one token. *)
Estimate(n) == n + Overhead * ((n + BatchSize - 1) \div BatchSize)

(* Mutant: each run has the limits of the day to itself. *)
SelectedPerRun ==
    LET fits == {n \in 0 .. Cardinality(Unjudged) :
                    n <= UtteranceLimit /\ Estimate(n) <= TokenLimit}
    IN  Newest(Unjudged, IF fits = {} THEN 0 ELSE Max(fits))

(* _select_for_today: the newest unjudged utterances that fit into what the *)
(* records of the day leave of either limit.                                *)
Selected ==
    LET count == Cardinality({u \in Utterances : judged[u] = today})
        fits == {n \in 0 .. Cardinality(Unjudged) :
                    n + count <= UtteranceLimit /\ Estimate(n) + booked[today] <= TokenLimit}
    IN  Newest(Unjudged, IF fits = {} THEN 0 ELSE Max(fits))

Enter(j, where) == stage' = [stage EXCEPT ![j] = where]

Utter ==
    /\ \E u \in Utterances \ uttered :
        /\ \A v \in uttered : v < u
        /\ uttered' = uttered \cup {u}
    /\ UNCHANGED <<today, judged, booked, lock, stage, todo, replies, heard,
                   signal, signals, spent, given, stale, judgeDeaths>>

Midnight ==
    /\ today < MaxDays /\ today' = today + 1
    /\ UNCHANGED <<uttered, judged, booked, lock, stage, todo, replies, heard,
                   signal, signals, spent, given, stale, judgeDeaths>>

(* A runner that finds the lock held, or nothing to do, changes nothing. *)
Select(r) ==
    /\ stage[r] = "idle" /\ lock = Nobody
    /\ Selected # {}
    /\ lock' = r
    /\ todo' = [todo EXCEPT ![r] = Selected]
    /\ Enter(r, "book")
    /\ UNCHANGED <<uttered, today, judged, booked, replies, heard, signal,
                   signals, spent, given, stale, judgeDeaths>>

Batch(r) == Newest(todo[r], BatchSize)

(* Mutant: what is booked leaves out the fixed part of a prompt. *)
BookText(r) ==
    /\ stage[r] = "book" /\ todo[r] # {}
    /\ booked' = [booked EXCEPT ![today] = @ + Cardinality(Batch(r))]
    /\ Enter(r, "call")
    /\ UNCHANGED <<uttered, today, judged, lock, todo, replies, heard, signal,
                   signals, spent, given, stale, judgeDeaths>>

(* reserve_batch_cost, before the call. *)
Book(r) ==
    /\ stage[r] = "book" /\ todo[r] # {}
    /\ booked' = [booked EXCEPT ![today] = @ + Estimate(Cardinality(Batch(r)))]
    /\ Enter(r, "call")
    /\ UNCHANGED <<uttered, today, judged, lock, todo, replies, heard, signal,
                   signals, spent, given, stale, judgeDeaths>>

(* call_haiku: no reply that can be read, or verdicts on some of the batch. *)
Call(r) ==
    /\ stage[r] = "call"
    /\ spent' = spent + Estimate(Cardinality(Batch(r)))
    /\ todo' = [todo EXCEPT ![r] = @ \ Batch(r)]
    /\ \/ UNCHANGED <<heard, signal, given>>
       \/ \E yes, no \in SUBSET Batch(r) :
            /\ yes \cap no = {} /\ yes \cup no # {}
            /\ heard' = [heard EXCEPT ![r] = @ \cup yes \cup no]
            /\ signal' = [signal EXCEPT ![r] = @ \cup yes]
            /\ given' = given \cup (yes \X {"yes"}) \cup (no \X {"no"})
    /\ Enter(r, "book")
    /\ UNCHANGED <<uttered, today, judged, booked, lock, replies, signals,
                   stale, judgeDeaths>>

Ingest(r) ==
    /\ stage[r] = "book" /\ todo[r] = {}
    /\ Enter(r, "write")
    /\ UNCHANGED <<uttered, today, judged, booked, lock, todo, replies, heard,
                   signal, signals, spent, given, stale, judgeDeaths>>

-----------------------------------------------------------------------------
(* emit_judgement_requests cuts the unjudged utterances, oldest first, into *)
(* batches and names each by its first utterance.                           *)
Place(S, u) == Cardinality({v \in S : v < u})
BatchOf(S, u) == {v \in S : Place(S, v) \div BatchSize = Place(S, u) \div BatchSize}
Heads(S) == {u \in S : Place(S, u) % BatchSize = 0}
Index(S, u) == Place(S, u) % BatchSize

(* What a reply says when it is read against the batches of S.  A reply     *)
(* without any verdict means that nothing in the batch is a correction.     *)
Judged(S, a) ==
    {u \in BatchOf(S, a.head) : DOMAIN a.said = {} \/ Index(S, u) \in DOMAIN a.said}
Corrections(S, a) ==
    {u \in BatchOf(S, a.head) :
        Index(S, u) \in DOMAIN a.said /\ a.said[Index(S, u)] = "yes"}

Show(s) ==
    /\ stage[s] = "idle" /\ Unjudged # {}
    /\ todo' = [todo EXCEPT ![s] = Unjudged]
    /\ Enter(s, "show")
    /\ UNCHANGED <<uttered, today, judged, booked, lock, replies, heard,
                   signal, signals, spent, given, stale, judgeDeaths>>

(* The assistant answers one batch; the reply goes to the responses file. *)
Answer(s) ==
    /\ stage[s] = "show"
    /\ \E h \in Heads(todo[s]) \ {a.head : a \in replies[s]} :
       \E said \in Said(Cardinality(BatchOf(todo[s], h))) :
            LET reply == [head |-> h, said |-> said]
                yes == Corrections(todo[s], reply)
            IN  /\ replies' = [replies EXCEPT ![s] = @ \cup {reply}]
                /\ given' = given \cup (yes \X {"yes"})
                                  \cup ((Judged(todo[s], reply) \ yes) \X {"no"})
    /\ UNCHANGED <<uttered, today, judged, booked, lock, stage, todo, heard,
                   signal, signals, spent, stale, judgeDeaths>>

(* --drain: the batches are made anew, and a reply is read against the one  *)
(* that has its head now.                                                   *)
Drain(s) ==
    /\ stage[s] = "show"
    /\ LET found == {a \in replies[s] : a.head \in Heads(Unjudged)}
       IN  /\ heard' = [heard EXCEPT ![s] = UNION {Judged(Unjudged, a) : a \in found}]
           /\ signal' = [signal EXCEPT ![s] = UNION {Corrections(Unjudged, a) : a \in found}]
    /\ stale' = (stale \/ Unjudged # todo[s])
    /\ todo' = [todo EXCEPT ![s] = {}]
    /\ replies' = [replies EXCEPT ![s] = {}]
    /\ Enter(s, "write")
    /\ UNCHANGED <<uttered, today, judged, booked, lock, signals, spent,
                   given, judgeDeaths>>

-----------------------------------------------------------------------------
(* ingest_judgement_results: the signals, then the keys, a line at a time. *)
WriteSignal(j) ==
    /\ stage[j] = "write"
    /\ \E u \in signal[j] :
        /\ signals' = signals \cup {u}
        /\ signal' = [signal EXCEPT ![j] = @ \ {u}]
    /\ UNCHANGED <<uttered, today, judged, booked, lock, stage, todo, replies,
                   heard, spent, given, stale, judgeDeaths>>

(* Mutant: the keys may be recorded before the signals. *)
WriteJudgedEarly(j) ==
    /\ stage[j] = "write"
    /\ \E u \in heard[j] :
        /\ judged' = [judged EXCEPT ![u] = IF @ = 0 THEN today ELSE @]
        /\ heard' = [heard EXCEPT ![j] = @ \ {u}]
    /\ UNCHANGED <<uttered, today, booked, lock, stage, todo, replies, signal,
                   signals, spent, given, stale, judgeDeaths>>

WriteJudged(j) ==
    /\ stage[j] = "write" /\ signal[j] = {}
    /\ \E u \in heard[j] :
        /\ judged' = [judged EXCEPT ![u] = IF @ = 0 THEN today ELSE @]
        /\ heard' = [heard EXCEPT ![j] = @ \ {u}]
    /\ UNCHANGED <<uttered, today, booked, lock, stage, todo, replies, signal,
                   signals, spent, given, stale, judgeDeaths>>

Unlocked(j) == IF lock = j THEN Nobody ELSE lock

Finish(j) ==
    /\ stage[j] = "write" /\ heard[j] = {}
    /\ lock' = Unlocked(j)
    /\ Enter(j, "idle")
    /\ UNCHANGED <<uttered, today, judged, booked, todo, replies, heard,
                   signal, signals, spent, given, stale, judgeDeaths>>

(* Death drops the flock; the responses file of a session is abandoned. *)
JudgeDies(j) ==
    /\ stage[j] # "idle"
    /\ judgeDeaths < MaxJudgeDeaths /\ judgeDeaths' = judgeDeaths + 1
    /\ lock' = Unlocked(j)
    /\ todo' = [todo EXCEPT ![j] = {}]
    /\ heard' = [heard EXCEPT ![j] = {}]
    /\ signal' = [signal EXCEPT ![j] = {}]
    /\ replies' = [s \in Sessions |-> IF s = j THEN {} ELSE replies[s]]
    /\ Enter(j, "idle")
    /\ UNCHANGED <<uttered, today, judged, booked, signals, spent, given,
                   stale>>

JudgeNext ==
    \/ Utter \/ Midnight
    \/ \E r \in Runners : Select(r) \/ Book(r) \/ Call(r) \/ Ingest(r)
    \/ \E s \in Sessions : Show(s) \/ Answer(s) \/ Drain(s)
    \/ \E j \in Judges : WriteSignal(j) \/ WriteJudged(j) \/ Finish(j) \/ JudgeDies(j)

JudgeSpec == JudgeInit /\ [][JudgeNext]_judgeVars

-----------------------------------------------------------------------------
(* Two runs on one day, a run past midnight and a run that dies and is       *)
(* started again do not book more than the limit of a day.                   *)
BookedWithinLimit == \A d \in Days : booked[d] <= TokenLimit

(* No call is made that is not booked, wherever the runner dies. *)
CallsAreBooked == spent <= MapThenSumSet(LAMBDA d : booked[d], Days)

(* An utterance is recorded as judged only once a verdict on it has come     *)
(* in, and if only "yes" was ever said of it then its signal was appended    *)
(* first: no failed call, omitted verdict or death loses a correction.  This *)
(* needs what correction-semantic-drain.md assumes of a drain.               *)
JudgedOnItsVerdict ==
    ~stale => \A u \in Utterances :
        judged[u] # 0 => <<u, "no">> \in given \/ (<<u, "yes">> \in given /\ u \in signals)
=============================================================================
