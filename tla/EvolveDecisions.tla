-------------------------- MODULE EvolveDecisions --------------------------
(***************************************************************************)
(* The decisions on evolve proposals: emit, drain and revert.              *)
(*                                                                         *)
(* emit snapshots the files a run proposes to change and publishes them as *)
(* pending entries (queue, marker, result JSON).  drain records what the   *)
(* user accepted or rejected in the history of decisions and then purges   *)
(* the marker.  revert puts a file back to what it held before an accepted *)
(* change and logs that in the history.  The user edits files all along.   *)
(*                                                                         *)
(* History, queue and marker have a lock each, and no process holds two.   *)
(* A section under the queue or marker lock is one step.  The history lock *)
(* is explicit, since a drain reads the history before it appends to it,   *)
(* since a revert writes two files under it and may die in between, and    *)
(* since a dry run reads without it while it has no file.                  *)
(***************************************************************************)
EXTENDS Integers, Sequences

CONSTANTS
    Paths,        \* the tracked files
    Contents,     \* what a file can hold
    Emitters,     \* runs of evolve
    DryEmitters,  \* those of them that run evolve --dry-run
    Drainers,     \* runs of evolve --drain, and of the SessionStart hook
    Reverters,    \* runs of evolve-revert --apply
    MaxRuns,      \* bound: run ids are 1 .. MaxRuns
    MaxEdits,     \* bound: edits of files by the user
    MaxGen,       \* bound: revert generations are 0 .. MaxGen
    MaxCrashes,   \* bound: processes that die
    OldDecisions, \* the rows to start with; a data directory restored
    OldReverts,   \*   from a backup has some without the lock file
    Gone, Nobody  \* no file any more; the lock is free

ASSUME DecisionsAssumption ==
    /\ DryEmitters \subseteq Emitters
    /\ Emitters \cap Drainers = {}
    /\ Emitters \cap Reverters = {}
    /\ Drainers \cap Reverters = {}
    /\ Nobody \notin Emitters \cup Drainers \cup Reverters
    /\ Gone \notin Contents
    /\ MaxRuns \in Nat /\ MaxEdits \in Nat /\ MaxGen \in Nat /\ MaxCrashes \in Nat

VARIABLES
    disk,       \* what each file holds
    history,    \* the rows of decisions in the history, in the order appended
    reverted,   \* the revert events in the history
    sidecar,    \* whether the lock file of the history exists
    lock,       \* who holds the history lock
    queue,      \* pending entries in the queue
    marker,     \* pending entries in the marker
    result,     \* pending entries in the result JSON
    pc,         \* where each process stands
    run,        \* the last run id handed out
    pending,    \* pending[e]: the entries the run of e has snapshotted
    oldGen,     \* oldGen[e]: the generations a dry run read without the lock
    taken,      \* taken[d]: the entries drain d started from
    todo,       \* todo[d]: those it has yet to look at
    consumed,   \* consumed[d]: those it recorded or found orphaned
    verdict,    \* verdict[d]: the decision it is about to record, if any
    target,     \* target[r]: the decision r reverts, if any
    edits, crashes

emitVars == <<queue, result, run, pending, oldGen>>
drainVars == <<taken, todo, consumed, verdict>>
historyVars == <<history, reverted, sidecar, lock>>
vars == <<disk, historyVars, marker, emitVars, drainVars, pc, target, edits, crashes>>

Procs == Emitters \cup Drainers \cup Reverters
Runs == 1 .. MaxRuns
Gens == 0 .. MaxGen
Entry == [path : Paths, before : Contents, gen : Gens, run : Runs]
EventId == [path : Paths, before : Contents, kind : {"accept", "reject"},
            after : Contents \cup {Gone}, gen : Gens]
Decision == [id : EventId, run : Runs]
RevertEvent == [of : EventId, gen : Gens]

ASSUME HistoryAssumption ==
    /\ OldDecisions \in Seq(Decision)
    /\ \A i, j \in DOMAIN OldDecisions :
          OldDecisions[i].id = OldDecisions[j].id => i = j
    /\ OldReverts \subseteq RevertEvent
    /\ \A v \in OldReverts : v.gen = v.of.gen + 1

PC == {"idle", "history", "disk", "check", "queue", "marker", "result",
       "drain", "record", "append", "verify", "replace", "log"}

TypeOK ==
    /\ disk \in [Paths -> Contents \cup {Gone}]
    /\ history \in Seq(Decision)
    /\ reverted \subseteq RevertEvent
    /\ sidecar \in BOOLEAN
    /\ lock \in Procs \cup {Nobody}
    /\ queue \subseteq Entry /\ marker \subseteq Entry /\ result \subseteq Entry
    /\ pc \in [Procs -> PC]
    /\ run \in 0 .. MaxRuns
    /\ pending \in [Emitters -> SUBSET Entry]
    /\ oldGen \in [Emitters -> [Paths -> Gens]]
    /\ taken \in [Drainers -> SUBSET Entry]
    /\ todo \in [Drainers -> SUBSET Entry]
    /\ consumed \in [Drainers -> SUBSET Entry]
    /\ verdict \in [Drainers -> SUBSET Decision]
    /\ target \in [Reverters -> SUBSET EventId]
    /\ edits \in 0 .. MaxEdits /\ crashes \in 0 .. MaxCrashes

Init ==
    /\ disk \in [Paths -> Contents]
    /\ history = OldDecisions /\ reverted = OldReverts
    /\ sidecar = FALSE /\ lock = Nobody
    /\ queue = {} /\ marker = {} /\ result = {}
    /\ pc = [p \in Procs |-> "idle"]
    /\ run = 0
    /\ pending = [e \in Emitters |-> {}]
    /\ oldGen = [e \in Emitters |-> [p \in Paths |-> 0]]
    /\ taken = [d \in Drainers |-> {}]
    /\ todo = [d \in Drainers |-> {}]
    /\ consumed = [d \in Drainers |-> {}]
    /\ verdict = [d \in Drainers |-> {}]
    /\ target = [r \in Reverters |-> {}]
    /\ edits = 0 /\ crashes = 0

Goto(p, where) == pc' = [pc EXCEPT ![p] = where]

(* proposal_id: the repository, the file and what it held.  The run is not *)
(* part of it.  Two worktrees of a repository are not told apart by it;    *)
(* the files here are those of one worktree.                               *)
ProposalId(x) == <<x.path, x.before>>

(* Mutant: the key from before reverts were counted. *)
DecisionEventIdNoGen(x, kind, after) ==
    [path |-> x.path, before |-> x.before, kind |-> kind, after |-> after, gen |-> 0]

(* The key under which a decision is recorded once. *)
DecisionEventId(x, kind, after) ==
    [path |-> x.path, before |-> x.before, kind |-> kind, after |-> after, gen |-> x.gen]

GensOf(p) == {0} \cup {v.gen : v \in {v \in reverted : v.of.path = p}}

(* revert_generation_for_target: the largest one logged for the file. *)
Generation(p) == CHOOSE n \in GensOf(p) : \A m \in GensOf(p) : m <= n

(* The decisions the rows tell. *)
decided == {history[i] : i \in DOMAIN history}

(* fold_effective: the decisions that no revert event names. *)
Effective == {x \in decided : \A v \in reverted : v.of # x.id}

Edit(p) ==
    /\ edits < MaxEdits /\ edits' = edits + 1
    /\ disk[p] # Gone
    /\ \E c \in (Contents \cup {Gone}) \ {disk[p]} : disk' = [disk EXCEPT ![p] = c]
    /\ UNCHANGED <<historyVars, marker, emitVars, drainVars, pc, target, crashes>>

(* A run that is older than PENDING_TTL_DAYS is dropped by every reader. *)
Expire(r) ==
    /\ marker' = {x \in marker : x.run # r}
    /\ marker' # marker
    /\ UNCHANGED <<disk, historyVars, emitVars, drainVars, pc, target, edits, crashes>>

-----------------------------------------------------------------------------
(* emit_decisions *)

(* The entries for the files that can still be read. *)
Snapshot(gen, r) ==
    {[path |-> p, before |-> disk[p], gen |-> gen[p], run |-> r] :
        p \in {p \in Paths : disk[p] # Gone}}

NoGens == [p \in Paths |-> 0]

CurrentGens == [p \in Paths |-> Generation(p)]

(* File contents and generations are read inside the history lock, which a *)
(* dry run takes only when its file is there.                              *)
EmitLocked(e) ==
    /\ e \in Emitters
    /\ pc[e] \in {"idle", "history"}
    /\ run < MaxRuns /\ run' = run + 1
    /\ lock = Nobody
    /\ e \in DryEmitters => sidecar
    /\ sidecar' = TRUE
    /\ \E S \in SUBSET Snapshot(CurrentGens, run') :
          pending' = [pending EXCEPT ![e] = S]
    /\ oldGen' = [oldGen EXCEPT ![e] = NoGens]
    /\ Goto(e, IF e \in DryEmitters THEN "marker" ELSE "queue")
    /\ UNCHANGED <<disk, history, reverted, lock, queue, marker, result,
                   drainVars, target, edits, crashes>>

(* A dry run on a history that was never locked: the history is read ...   *)
DryHistory(e) ==
    /\ e \in DryEmitters
    /\ pc[e] \in {"idle", "history"}
    /\ ~sidecar
    /\ oldGen' = [oldGen EXCEPT ![e] = CurrentGens]
    /\ Goto(e, "disk")
    /\ UNCHANGED <<disk, historyVars, queue, marker, result, run, pending, drainVars,
                   target, edits, crashes>>

(* ... then the files ... *)
DryDisk(e) ==
    /\ e \in DryEmitters
    /\ pc[e] = "disk"
    /\ run < MaxRuns /\ run' = run + 1
    /\ \E S \in SUBSET Snapshot(oldGen[e], run') :
          pending' = [pending EXCEPT ![e] = S]
    /\ Goto(e, "check")
    /\ UNCHANGED <<disk, historyVars, queue, marker, result, oldGen, drainVars,
                   target, edits, crashes>>

(* Mutant: what was read without the lock is taken as it is. *)
DryTrust(e) ==
    /\ e \in DryEmitters
    /\ pc[e] = "check"
    /\ oldGen' = [oldGen EXCEPT ![e] = NoGens]
    /\ Goto(e, "marker")
    /\ UNCHANGED <<disk, historyVars, queue, marker, result, run, pending, drainVars,
                   target, edits, crashes>>

(* ... and if the lock has appeared meanwhile, all of it is read again.    *)
DryCheck(e) ==
    /\ e \in DryEmitters
    /\ pc[e] = "check"
    /\ \/ ~sidecar /\ Goto(e, "marker") /\ UNCHANGED pending
       \/ sidecar /\ Goto(e, "history") /\ pending' = [pending EXCEPT ![e] = {}]
    /\ oldGen' = [oldGen EXCEPT ![e] = NoGens]
    /\ UNCHANGED <<disk, historyVars, queue, marker, result, run, drainVars,
                   target, edits, crashes>>

(* Mutant: a run publishes whatever it read, however long ago.             *)
KeepAll(old, new) == new

(* filter_monotonic_pending: what an older generation than the published   *)
(* one of its file was read in is not published any more.                  *)
Monotonic(old, new) ==
    {x \in new : \A y \in old : y.path = x.path => y.gen <= x.gen}

(* Mutant: only the same proposal is replaced. *)
SupersedeById(old, new) ==
    {y \in old : \A x \in new : ProposalId(x) # ProposalId(y)}

(* is_superseded: a file has one pending entry, the last one.              *)
Unsuperseded(old, new) == {y \in old : \A x \in new : x.path # y.path}

Publish(old, new) ==
    Unsuperseded(old, Monotonic(old, new)) \cup Monotonic(old, new)

EmitQueue(e) ==
    /\ e \in Emitters
    /\ pc[e] = "queue"
    /\ queue' = Publish(queue, pending[e])
    /\ Goto(e, "marker")
    /\ UNCHANGED <<disk, historyVars, marker, result, run, pending, oldGen, drainVars,
                   target, edits, crashes>>

(* A run without a proposal leaves the marker as it is. *)
EmitMarker(e) ==
    /\ e \in Emitters
    /\ pc[e] = "marker"
    /\ marker' = Publish(marker, pending[e])
    /\ Goto(e, "result")
    /\ UNCHANGED <<disk, historyVars, queue, result, run, pending, oldGen, drainVars,
                   target, edits, crashes>>

(* The result JSON of the run replaces that of the last one, unfiltered.   *)
EmitResult(e) ==
    /\ e \in Emitters
    /\ pc[e] = "result"
    /\ result' = pending[e]
    /\ pending' = [pending EXCEPT ![e] = {}]
    /\ Goto(e, "idle")
    /\ UNCHANGED <<disk, historyVars, queue, marker, run, oldGen, drainVars,
                   target, edits, crashes>>

-----------------------------------------------------------------------------
(* drain_pending, with ingest_decisions and record_evolve_diff_decision.   *)

(* Entries of a worktree that was removed go without a decision.  Its file *)
(* is gone then; a file may also go while its worktree is still there.     *)
Orphans(S) == SUBSET {x \in S : disk[x.path] = Gone}

DrainMarker(d) ==
    /\ d \in Drainers
    /\ pc[d] = "idle"
    /\ taken' = [taken EXCEPT ![d] = marker]
    /\ \E orphans \in Orphans(marker) :
          /\ todo' = [todo EXCEPT ![d] = marker \ orphans]
          /\ consumed' = [consumed EXCEPT ![d] = orphans]
    /\ Goto(d, "drain")
    /\ UNCHANGED <<disk, historyVars, marker, emitVars, verdict, target, edits, crashes>>

(* --result-json: no lock, and nothing is an orphan. *)
DrainResult(d) ==
    /\ d \in Drainers
    /\ pc[d] = "idle"
    /\ taken' = [taken EXCEPT ![d] = result]
    /\ todo' = [todo EXCEPT ![d] = result]
    /\ Goto(d, "drain")
    /\ UNCHANGED <<disk, historyVars, marker, emitVars, consumed, verdict, target,
                   edits, crashes>>

(* What the user says of entry x.  An accept needs the file to differ from *)
(* what the run saw; without a word the entry is deferred.                 *)
Ingest(d) ==
    /\ d \in Drainers
    /\ pc[d] = "drain"
    /\ \E x \in todo[d], kind \in {"accept", "reject", "defer"} :
          /\ kind = "accept" => disk[x.path] \notin {Gone, x.before}
          /\ todo' = [todo EXCEPT ![d] = @ \ {x}]
          /\ IF kind = "defer"
             THEN UNCHANGED <<consumed, verdict, pc>>
             ELSE /\ consumed' = [consumed EXCEPT ![d] = @ \cup {x}]
                  /\ verdict' = [verdict EXCEPT ![d] =
                        {[id |-> DecisionEventId(x, kind, disk[x.path]), run |-> x.run]}]
                  /\ Goto(d, "record")
    /\ UNCHANGED <<disk, historyVars, marker, emitVars, taken, target, edits, crashes>>

(* Mutant: the recorder looks without the lock and appends all the same.   *)
RecordLookUnlocked(d) ==
    /\ d \in Drainers
    /\ pc[d] = "record"
    /\ sidecar' = TRUE
    /\ IF \E v \in verdict[d], x \in decided : x.id = v.id
       THEN verdict' = [verdict EXCEPT ![d] = {}] /\ Goto(d, "drain")
       ELSE Goto(d, "append") /\ UNCHANGED verdict
    /\ UNCHANGED <<disk, history, reverted, lock, marker, emitVars, taken, todo,
                   consumed, target, edits, crashes>>

(* The recorder takes the history lock and looks for the key.  A decision  *)
(* that has a row gets no second one.                                      *)
RecordLook(d) ==
    /\ d \in Drainers
    /\ pc[d] = "record"
    /\ lock = Nobody
    /\ sidecar' = TRUE
    /\ IF \E v \in verdict[d], x \in decided : x.id = v.id
       THEN verdict' = [verdict EXCEPT ![d] = {}] /\ Goto(d, "drain") /\ UNCHANGED lock
       ELSE Goto(d, "append") /\ lock' = d /\ UNCHANGED verdict
    /\ UNCHANGED <<disk, history, reverted, marker, emitVars, taken, todo,
                   consumed, target, edits, crashes>>

(* It appends the row, whatever else the history holds by now, and gives   *)
(* the lock back.                                                          *)
RecordAppend(d) ==
    /\ d \in Drainers
    /\ pc[d] = "append"
    /\ \E v \in verdict[d] : history' = Append(history, v)
    /\ lock' = Nobody
    /\ verdict' = [verdict EXCEPT ![d] = {}]
    /\ Goto(d, "drain")
    /\ UNCHANGED <<disk, reverted, sidecar, marker, emitVars, taken, todo,
                   consumed, target, edits, crashes>>

(* Mutant: the purge goes by the proposal alone. *)
DrainedById(S, x) == \E y \in S : ProposalId(y) = ProposalId(x)

(* entry_generation: the run, the proposal and what the file held. *)
Drained(S, x) == \E y \in S : y.run = x.run /\ ProposalId(y) = ProposalId(x)

Purge(d) ==
    /\ d \in Drainers
    /\ pc[d] = "drain" /\ todo[d] = {}
    /\ marker' = {x \in marker : ~Drained(consumed[d], x)}
    /\ taken' = [taken EXCEPT ![d] = {}]
    /\ consumed' = [consumed EXCEPT ![d] = {}]
    /\ Goto(d, "idle")
    /\ UNCHANGED <<disk, historyVars, emitVars, todo, verdict, target, edits, crashes>>

-----------------------------------------------------------------------------
(* apply_revert, between taking the history lock and giving it back.       *)

RevertGen(id) == id.gen + 1

Release(r) ==
    /\ lock' = Nobody
    /\ target' = [target EXCEPT ![r] = {}]
    /\ Goto(r, "idle")

LogRevert(id) == reverted' = reverted \cup {[of |-> id, gen |-> RevertGen(id)]}

(* Any accepted decision can be named, one that was reverted before too.   *)
RevertBegin(r) ==
    /\ r \in Reverters
    /\ pc[r] = "idle"
    /\ lock = Nobody
    /\ \E x \in decided :
          /\ x.id.kind = "accept" /\ x.id.gen < MaxGen
          /\ x.id.after = disk[x.id.path]
          /\ target' = [target EXCEPT ![r] = {x.id}]
    /\ sidecar' = TRUE
    /\ lock' = r
    /\ Goto(r, "verify")
    /\ UNCHANGED <<disk, history, reverted, marker, emitVars, drainVars, edits, crashes>>

(* The file is back already, because of a revert that died or of the user: *)
(* the event is logged unless it is there.                                 *)
RevertIdempotent(r) ==
    /\ r \in Reverters
    /\ pc[r] = "idle"
    /\ lock = Nobody
    /\ \E x \in decided :
          /\ x.id.kind = "accept" /\ x.id.gen < MaxGen
          /\ disk[x.id.path] = x.id.before
          /\ LogRevert(x.id)
    /\ sidecar' = TRUE
    /\ UNCHANGED <<disk, history, lock, target, pc, marker, emitVars, drainVars, edits, crashes>>

(* The new content is ready; the file is compared once more.               *)
RevertVerify(r) ==
    /\ r \in Reverters
    /\ pc[r] = "verify"
    /\ \E id \in target[r] :
          \/ /\ disk[id.path] = id.after
             /\ Goto(r, "replace") /\ UNCHANGED <<lock, target>>
          \/ disk[id.path] # id.after /\ Release(r)
    /\ UNCHANGED <<disk, history, reverted, sidecar, marker, emitVars, drainVars, edits, crashes>>

(* os.replace.  An edit of the user since the comparison is lost.          *)
RevertReplace(r) ==
    /\ r \in Reverters
    /\ pc[r] = "replace"
    /\ \E id \in target[r] : disk' = [disk EXCEPT ![id.path] = id.before]
    /\ Goto(r, "log")
    /\ UNCHANGED <<historyVars, marker, emitVars, drainVars, target, edits, crashes>>

RevertLog(r) ==
    /\ r \in Reverters
    /\ pc[r] = "log"
    /\ \E id \in target[r] : LogRevert(id)
    /\ Release(r)
    /\ UNCHANGED <<disk, history, sidecar, marker, emitVars, drainVars, edits, crashes>>

-----------------------------------------------------------------------------
(* A process dies; the kernel gives back its lock. *)
Crash(p) ==
    /\ pc[p] # "idle"
    /\ crashes < MaxCrashes /\ crashes' = crashes + 1
    /\ lock' = IF lock = p THEN Nobody ELSE lock
    /\ pending' = [e \in Emitters |-> IF e = p THEN {} ELSE pending[e]]
    /\ oldGen' = [e \in Emitters |-> IF e = p THEN NoGens ELSE oldGen[e]]
    /\ taken' = [d \in Drainers |-> IF d = p THEN {} ELSE taken[d]]
    /\ todo' = [d \in Drainers |-> IF d = p THEN {} ELSE todo[d]]
    /\ consumed' = [d \in Drainers |-> IF d = p THEN {} ELSE consumed[d]]
    /\ verdict' = [d \in Drainers |-> IF d = p THEN {} ELSE verdict[d]]
    /\ target' = [r \in Reverters |-> IF r = p THEN {} ELSE target[r]]
    /\ Goto(p, "idle")
    /\ UNCHANGED <<disk, history, reverted, sidecar, marker, queue, result, run, edits>>

EmitStep(e) ==
    \/ EmitLocked(e)
    \/ DryHistory(e)
    \/ DryDisk(e)
    \/ DryCheck(e)
    \/ EmitQueue(e)
    \/ EmitMarker(e)
    \/ EmitResult(e)

DrainStep(d) ==
    \/ DrainMarker(d)
    \/ DrainResult(d)
    \/ Ingest(d)
    \/ RecordLook(d)
    \/ RecordAppend(d)
    \/ Purge(d)

RevertStep(r) ==
    \/ RevertBegin(r)
    \/ RevertIdempotent(r)
    \/ RevertVerify(r)
    \/ RevertReplace(r)
    \/ RevertLog(r)

Next ==
    \/ \E p \in Paths : Edit(p)
    \/ \E r \in Runs : Expire(r)
    \/ \E e \in Emitters : EmitStep(e)
    \/ \E d \in Drainers : DrainStep(d)
    \/ \E r \in Reverters : RevertStep(r)
    \/ \E p \in Procs : Crash(p)

Spec == Init /\ [][Next]_vars

-----------------------------------------------------------------------------
(* One apply of a file is recorded once: no file has two pending entries   *)
(* among which a drain would count the same change twice (#279, #290).     *)
OneEntryPerFile ==
    /\ \A x, y \in marker : x.path = y.path => x = y
    /\ \A x, y \in queue : x.path = y.path => x = y

(* No two rows of the history record one decision, however many drains saw *)
(* its entry: none appends between the look of another and its append.     *)
UniqueDecisions ==
    \A i, j \in DOMAIN history : history[i].id = history[j].id => i = j

(* Two emits may publish in another order than they read.  What was read   *)
(* after a revert is never replaced by what was read before it.            *)
PublishedGenerationGrows ==
    [][/\ \A x \in marker, y \in marker' \ marker : x.path = y.path => x.gen <= y.gen
       /\ \A x \in queue, y \in queue' \ queue : x.path = y.path => x.gen <= y.gen]_vars

(* The purge at the end of a drain spares what was emitted after it began, *)
(* a new entry for the same proposal included.                             *)
PurgeSparesLaterEntries ==
    [][\A d \in Drainers :
          pc[d] = "drain" /\ pc'[d] = "idle" => marker \ marker' \subseteq taken[d]]_vars

(* What a run publishes was read in a world where no revert had written    *)
(* the file but not its event, and no revert has been logged since the     *)
(* reading began: also when a dry run read without the lock.               *)
SnapshotIsCommitted ==
    [][\A e \in Emitters :
          pc[e] \in {"idle", "history", "check"} /\ pc'[e] \in {"queue", "marker"} =>
             /\ \A x \in pending'[e] : x.gen = Generation(x.path)
             /\ \A r \in Reverters : pc[r] # "log"]_vars

Reported(d) == pc[d] \in {"record", "append"} /\ pc'[d] = "drain"

(* No revert was logged for the file of x since x was read. *)
Fresh(x) == \A w \in reverted : w.of.path = x.path => w.gen <= x.gen

(* A decision drained with the generation its file has counts: no older    *)
(* revert of the same change makes the recorder take it for a repeat, nor  *)
(* folds it away.                                                          *)
FreshAcceptCounts ==
    [][\A d \in Drainers : Reported(d) =>
          \A v \in verdict[d], y \in consumed[d] :
             y.run = v.run /\ ProposalId(y) = <<v.id.path, v.id.before>> /\ Fresh(y) =>
                \E x \in Effective' : x.id = v.id]_vars
=============================================================================
