# evolve-anything: TLA+ models and proofs

evolve-anything has no server. Hooks, skills, a daily runner and a few command
line tools are separate short-lived processes that share files in one data
directory. What keeps those files right is a handful of locks, an order of
writes that a death may cut anywhere, and readers that fold or count what others
append. These modules model the parts of the program where that has to work: the
sidecar lock, the store of corrections and their life, the decisions on evolve's
proposals and their reverts, the weak signals, the judgement of utterances under a
daily budget, the lanes of coding agents, the session store, the triggers and their
notices, and the two incremental readers of the transcripts.

Contents: [inventory](#inventory), [modules](#modules-and-the-code),
[runs](#runs), [fairness](#fairness), [proofs](#proofs),
[what only TLC checks](#what-is-only-model-checked),
[findings](#findings), [other behaviours](#behaviours-worth-knowing),
[what is not modelled](#what-is-not-modelled), [plan](#plan).

## Inventory

Paths are below `src/`; `lib` stands for `scripts/lib`.

### Modelled

| component | state it keeps | operations | made hard by | correct when |
|---|---|---|---|---|
| sidecar lock, `lib/rl_common/file_lock.py` | the inode the lock path names, the flock on it | `file_lock`, `try_file_lock`, `read_only_file_lock`, `seqlock_read` | the sidecar may be unlinked under waiters, or appear during a lock-free read | one process in the with-block; a lock-free read overlaps no writer; calls end |
| correction store, `lib/rl_common/{correction_id,persistence}.py`, `lib/prune/corrections.py`, `lib/corrections_subagent_invalidation.py`, `hooks/correction_detect.py` | `corrections.jsonl` | append, status edit by index, sweep of aged records, invalidation | appends and whole-file rewrites interleave, indexes are taken from unlocked reads, lines are torn | it behaves as an atomic set of records with unique ids |
| reflection, `skills/reflect/scripts/reflect.py`, `lib/reflect_fold.py` | `reflect_status`, `reflect_apply_events.jsonl` | `--apply` (three writes in two files), `--revoke-applied`, `--skip`, `--skip-all`, the fold | deaths between the writes, unsynchronised clocks, concurrent sessions | each correction follows its lifecycle; no revoke leaves it ambiguous |
| evolve decisions, `lib/evolve_decisions/`, `lib/evolve_decision_ids.py`, `lib/optimize_history_store.py`, `skills/evolve-fitness/scripts/fitness_evolution.py` | pending entries in queue, marker and result JSON; the history of decisions | emit, dry run, drain (marker or result JSON), record, purge, expiry | three locks never held together; the drain works on a copy; a file returns to an earlier content | a change is counted once, and counted |
| adoption revert, `lib/evolve_revert/_apply.py` | the target file, revert events in the history | `evolve-revert --apply` | two writes, user edits in between, deaths, repeats | what is drained afterwards uses the right generation |
| weak signals, `lib/weak_signals/`, `lib/correction_semantic/{promote,daily_review}.py` | `weak_signals.jsonl`, `correction_review_seen.jsonl` | detect, promote, mark, record as reviewed, reject, expire | no common lock, three files, marks travel in stale copies | what is marked promoted has its correction, and not many of them |
| agent coordination, `lib/agent_coordination/core.py` | `coordination.lock`, `lanes/*.json`, branches, `handoffs/*` | `start_lane`, `finish_lane`, `handoff_lane`, `force_unlock` | the lock file is judged by its content and removed by its name; three things are created and rolled back one by one; handoffs take no lock | no file has two owners; a failed start can be repeated; records stay |
| session store, `lib/session_store.py` | `sessions.jsonl`, the table and the file of `sessions.db` | `append`, `ingest`, `migrate_from_jsonl`, compaction, `delete_by_session_ids`, the union readers | hooks append while a batch moves, renames and copies; a connection shuts out the others | a record is in the union once, until it is deleted |
| trigger engine and session notices, `lib/trigger_engine/`, `hooks/{session_summary,restore_state,instructions_loaded}.py`, `lib/session_notify/collectors.py`, `skills/evolve/scripts/evolve/_state.py` | `evolve-state.json`, `pending-trigger.json` and its lock | evaluate, drain, leave a notice, peek and acknowledge, read and delete | two files written in place without a lock; two deliveries in two orders, one of them locked | an update stays; a notice is shown, once |
| transcript ingests, `lib/utterance_archive/`, `lib/token_usage_ingest.py`, `bin/evolve-daily-run` | modification time and offset per file; last record per file | the archive's scan, rows, count and cursor; the token ingest's chunks | the files grow meanwhile, a line may be half written, a resumed session copies another | no line is passed over; what is written is counted in the end |
| semantic judge, `lib/correction_semantic/{judge_runner,batch,store}.py`, `skills/evolve/scripts/evolve/cli.py` | `correction_judged.jsonl`, the day's bookings, the session's saved replies | select, book, call, ingest; emit, answer, drain | two kinds of writer, midnight, deaths between paying and recording | limits hold, no verdict is lost or put on another utterance |

They interact through the files only. `correction_detect` and a promotion append
to `corrections.jsonl`; reflect picks corrections from it and writes their status;
the judge turns utterances into weak signals, which a review promotes; evolve
emits entries that a later drain decides into the history, which reverts extend
and later emits read their generations from. A session end appends its record to
`sessions.jsonl`, evaluates the triggers and leaves a notice for the next session
start; the drain of evolve writes the time of its run beside the cooldowns. The daily
runner reads the transcripts into the archive from which the judge selects.
Corrections, decisions and the judge's stores are guarded by sidecar locks. The lanes
have a lock file of their own, of the notice only one of three parties takes
the lock, and `weak_signals.jsonl`, `sessions.jsonl` and `evolve-state.json` have none.

### Not modelled

`PROJECT.json` lists every other part with its sources and the reason. The one
whose state several processes share is automatic memory, a queue drained in two
phases; it is the subject of the [plan](#plan). The rest are reports, pure text
analysis, rendering, sequences of one process, or calls of a model.

## Modules and the code

| module | models | composed with |
|---|---|---|
| `FileLock` | `file_lock.py`, one action per system call | - |
| `CorrectionLog` | abstract: an atomic set of correction records | - |
| `CorrectionStore` | the lines of `corrections.jsonl` and its four kinds of writer | implements `CorrectionLog` |
| `ReflectFold` | `fold_corrections` as operators on a set of events | - |
| `ReflectReplay` | `fold_corrections` as it is written: the sort and the loop | extends `ReflectFold` |
| `ReflectLifecycle` | abstract: open, reconciled, active, reverted | - |
| `Reflect` | the reflect commands | extends `ReflectFold`, implements `ReflectLifecycle` |
| `EvolveDecisions` | emit, drain and revert together | - |
| `WeakSignals` | the weak signal store, promotion, expiry | - |
| `SemanticJudge` | the daily runner and interactive sessions | - |
| `AgentCoordination` | `start_lane`, `finish_lane`, `handoff_lane` and the lock file, call by call | - |
| `SessionStore` | appends, batches, compaction, deletion, readers | - |
| `TriggerNotices` | the state of the trigger engine and the notice, from its writer to both deliveries | - |
| `TranscriptIngest` | the daily runner's two ingests over growing transcripts | - |
| `MC*` | sets of symmetries, initial histories, and in `MCReflectFold` the events on which the two readings of the fold are compared | the module of the name |
| `*Proofs` | the theorems | extend the module of the name; `UtteranceProofs` the three on utterances |

A module models its locks at the level that its properties need. `FileLock` has
the system calls. `CorrectionStore` and `EvolveDecisions` have a variable that
says who is inside, so that a holder may die between two steps; the lock's
exclusion is what `FileLock` proves. `Reflect` makes a status edit one
step, which is what `CorrectionStore` proves of it; the append of an event, with its
check for the id, is one step because it holds the flock of its file throughout.

**FileLock.** `path` is the inode the sidecar's name resolves to, `holder` the
owner of each inode's flock, `fd` what each process has open. `Open`, `Flock` and
`Recheck` are the loop of `file_lock` (lines 23-50); `TryFlock` has no second
look, as in the code. `ReadOpen` to `ReadRecheck` are `seqlock_read`. `Remove`
unlinks the sidecar when nobody is inside: the code's comments declare unlinking
it under a holder out of scope.

**CorrectionStore.** `file` is a sequence of lines, each a record or `Junk`;
`torn` says the last line has no newline. An appender that stops half way leaves
a torn line, and the next append is glued to it. A write that stops just before its
newline is not modelled. `EditBegin` is the unlocked read
of reflect, in which indexes and identities are picked; `EditWrite` is
`update_reflect_status` with its two refusals. `RecordIndexOf` counts lines that
parse, like `iter_indexed_lines`.

**ReflectFold, Reflect.** The code sorts the transitions of a correction by time
and replays them. `ReflectFold` states the result in closed form (a correction is active
iff its latest confirmed application is not reverted), which the proofs can
use; `ReflectReplay` writes the sort and the loop out, and both agree: TLC compares them
on the events of `MCReflectFold`, and `EveryFoldIsReplay` proves it for any. Stamps are any time, because the clocks of processes are not
synchronised. Whether the target file holds the drafted line decides only if
`--apply` goes on, so it is the choice between a step and `Stop`.

**EvolveDecisions.** A pending entry is a file, what it held, the revert
generation and the run. `proposal_id` is the first two, `entry_generation` those and
the run, `decision_event_id` those with the decision, the content after and the generation.
`EmitLocked` and the three `Dry*` actions are the two ways a run snapshots files;
`Publish` is the filter by generation and the replacement by file. `history` is the
rows of `optimize_history.jsonl` in their order, so that a decision may have two.
`Ingest`, `RecordLook`, `RecordAppend` and `Purge` are a drain; `RevertBegin` to `RevertLog` and
`RevertIdempotent` the three-way branch of `apply_revert`. The user edits files at
any time, deleting them included, and `Expire` is the pending entries' lifetime.

**WeakSignals.** A signal is its key. `MarkRead`/`MarkWrite` and
`ExpireRead`/`ExpireWrite` are read-modify-writes without a lock and keep the copy
they read. `PromoteFail` ends the promotion, which is what the code does
(see [below](#behaviours-worth-knowing)), not what its message intends. `Review` and
`ReviewFail` record one key each; a refused one is lost without notice.

**SemanticJudge.** Utterances are numbered by time and cost one token each. A
runner selects the newest, books and calls batch by batch, writes all signals and then all
judged keys. A session is shown batches made oldest first, saves replies under the number
of a batch's first utterance, and drains them against batches it makes anew.

**AgentCoordination.** `lock` is the lock file: whether it is there, who created it,
whether its pid has been written and whether it is older than an hour. `CreateLock`,
`RecordHolder`, `ProbeLock`, `UnlinkStale` and `ReleaseLock` are the calls of
`_acquire_lock` and `_release_lock`; `ForceUnlock` and `LockAges` take a lock from a
live holder and set `stolen`. `CheckLanes`, `AddWorktree`, `WriteManifest` and
`Rollback` are the body of `start_lane`; a branch stands for itself and its worktree.
Git makes the branch before it checks out: `WorktreeBreaksOff` leaves one, which the
rollback does not know of, and `halfAdded` names it.
`HandoffLane` to `StoreEvidence` have no lock. A path owns what lies below it, as
`_paths_overlap` has it.

**SessionStore.** A record is one session's. `live` is `sessions.jsonl`, `table` how
many rows each record has, `conn` the process that has `sessions.db` open. `CloseDb`
decides between rotation and compaction; `Rotate` renames the file away with whatever
it holds by then. `Copy` and `Replace` are the two halves of `_compact_db`:
between them others may insert into the file about to be replaced. `ReadRows` and
`ReadLive` are the union of a reader, in that order. A deletion writes the file in
place: `TruncateLines` leaves any part of it to be seen, perhaps with a line cut
(`torn`), and then `WriteLines` ends the write, or `WriteMixed` when another deletion
wrote meanwhile, or `WriteAdrift` when a batch has renamed the file away.

**TriggerNotices.** `state` is `evolve-state.json` within one cooldown period: the
last run drained and the reasons that have fired. A load has one of the `Readings`,
which is an empty state when the file cannot be parsed or read. `OpenState` truncates,
`SaveState` writes what was loaded earlier with its change; a writer that had the file
open with another one (`mixed`) may leave `Torn`, the last one too. `pending` is the notice in
`pending-trigger.json`; `cut` and `crossed` are writers whose open file was
removed or written by another. `restore_state` goes `Peek`, `PrintNotice`, `Delete`
under `lock`; `instructions_loaded` goes `Read`, `Unlink`, `Show` without it.

**TranscriptIngest.** A transcript is a sequence of lines, each of a user or an
assistant, the last perhaps not written out. `mtime` is as coarse as `clock`. The
archive goes `StatFile`, `Extract`, `Insert` for each row, `Count`; the cursor is
what `Count` counts, not what `Extract` read. Errors of the operating system are
swallowed at each step: `StatFails` and `ScanFails` leave a file for the next run,
`ExtractFails` ends the scan early, `CountFails` puts the cursor back to 0. The token ingest goes `Scan` per file
and `Flush` per chunk, in one transaction.

## Runs

Deadlock is checked where the system cannot stop (`lock`, `store`, `transcripts`).
Elsewhere the bounds stop it: ids, runs, days, commands or edits run out.

| run | states | asks | bounds |
|---|---|---|---|
| `lock` | 21 thousand | exclusion, stable snapshots, no spurious timeout, progress | two blocking callers, one non-blocking, one reader; three inodes, so the sidecar is removed twice, once for each caller that waits on it; two retries, since the second attempt is the first that can find a sidecar made during the read |
| `store` | 193 thousand | unique ids, no acknowledged record lost, edits on their target, refusals justified, refinement of `CorrectionLog` | one process of each kind; three ids and three lines, enough for a torn line before and a dropped record before the one edited |
| `reflect` | 127 thousand | the closed form of the fold is the code's loop, no ambiguity, applied is accounted for, revokes withdraw, refinement of the lifecycle | two appliers, one skipper, revokes by anyone; five event ids: apply, revoke and apply again; two times, so that stamps tie and run backwards. One correction: the fold reads the events of one correction only, and the theorems hold for any number. The two folds are compared on two attempts and every four confirmations or reverts of two corrections, and `EveryFoldIsReplay` does so for any |
| `publish` | 5.4 million | one entry per file, generations grow, purge spares later entries, snapshots are committed | a run and a dry run, a drain, a revert; the history already has an accepted decision and no lock file, as in a restored data directory, so a lock-free dry run can meet the first revert |
| `decide` | 1.3 million | no decision has two rows, fresh accepts count | a history with an accepted decision, which two reverts may undo; one dry run, two drains that can hold the same entry and look and append around each other, two edits, one death: a file is decided, reverted, emitted and decided again, and a revert dies between the file and its event |
| `signals` | 818 thousand | marks have their corrections, repeats are paid for | two signals, two promotions at a time, an expiry, one refused append, one death |
| `judge` | 726 thousand | limits, bookings, verdicts | two utterances, two runners, a session, two days, one death; the limit admits both utterances in one batch or one each on two runs |
| `coord` | 2.3 million | disjoint owners, a branch behind each lane, nothing left of a failed start, records kept | two processes, two tasks, two runtimes, owned paths of which one contains the other; three commands and two faults: a lock can be taken over inside and found removed by the next command |
| `coord_race` | 23 thousand | violation, see [findings](#findings) | the same without any fault |
| `sessions` | 1.9 million | no record lost, one row each, complete answers | two records, two batches and two deletions of which any three starts overlap, a reader, one death: a batch repeats what a dead one began or reads a file that is being written, two deletions write one file |
| `notices` | 1.2 million | updates kept, notices accounted for, shown once | two writers, two session starts and an instructions_loaded hook; one reason with and one without a notice, one run, two notices, so that one supersedes or meets the other, one fault |
| `transcripts` | 950 thousand | nothing passed over, growth seen, usage complete, usage arrives | two transcripts, one of which may resume the other, two lines, two faults, each a run cut short or a read that fails; two ticks, so that a file grows within a tick or after it; a chunk is two files, so the last one may be incomplete |

What the properties say, in the order of the runs:

- `MutualExclusion` holds of blocking callers even if the sidecar is removed
  while they wait, and of all callers while it is `Intact`. `SnapshotIsStable` and
  `NoSpuriousTimeout` need it intact too: a sidecar removed and recreated is not
  something `seqlock_read` can see. `ReadEnds` and `LockerServed` are liveness.
- `AckedReadable`, `UniqueIds`, `StatusHitsTarget`, `RefusalIsJustified`:
  together with `ImplementsLog` they say that locks and identity checks make the
  text file an atomic store, with the one exception of a record glued to a torn line.
- `NoAmbiguity`, `AppliedIsAccounted`, `RevokeWithdraws`, `ImplementsLifecycle`:
  what a user reads of a correction is right after every death and
  interleaving. `FoldIsReplay` ties the fold they speak of to the code's sort and loop.
- `OneEntryPerFile`, `PublishedGenerationGrows`, `PurgeSparesLaterEntries`,
  `SnapshotIsCommitted`, `UniqueDecisions`, `FreshAcceptCounts`: the parts of
  "every change is counted once".
- `PromotedIsRecorded`, `RepeatsArePaidFor`: a promotion may be cut anywhere, and marks
  may be lost or undone by a concurrent expiry or promotion.
- `BookedWithinLimit`, `CallsAreBooked`, `JudgedOnItsVerdict`: the last needs the
  precondition that the drain's document states, and excludes stale drains.
- `DisjointUnlessStolen`: two active lanes share a file only after a live process
  lost its lock. `BranchBehindLane`, `NoBranchLeftBehind`: the three things a start
  creates agree, whatever fails, but for a `git worktree add` that broke off with the
  branch made and for the processes that died. `RecordsKept`: manifests and evidence are not
  overwritten; even when the lock is worth nothing, git's refusal protects a branch.
- `KeptUnlessRaced`, `OneRow`, `AnswerComplete`: the union of file and table loses
  nothing, counts nothing twice and is read completely, except in the named races,
  which the definitions of `raced` and `disturbed` list.
- `UpdatesKept`, `NoticeAccounted`, `ShownOnce`: exactly which overlaps, deaths and
  failed reads lose a cooldown, lose a notice or show it twice; nothing else does.
- `UtterancesKept`, `GrowthIsSeen`, `UsageComplete`, `UsageArrives`: what a cursor has
  passed is stored, but for the named overlaps and failed reads; what is not stored is
  looked at again; and in the end it is counted.

Where a property has an exception, a history variable records the overlap at the
step where it happens, so that the property says that nothing else goes wrong. These
variables (`stolen`, `strayed`, `halfAdded`, `overlapped`, `raced`, `disturbed`, `exposed`, `settled`,
`doubled`, `missed`, `tied`) are read by no action but to keep themselves.

Symmetry is used in `store`, `reflect`, `decide`, `signals`, `judge`, `coord`, `sessions`
and `notices`, over sets whose members no definition tells apart; none of these runs
checks liveness.

## Fairness

`FileLock` and `TranscriptIngest` have liveness properties, and only their
specifications assume fairness.

`FairSpec` of `FileLock`: a process that runs takes its next step, i.e. weak fairness of `Recheck`, of reopening in
the retry loop, of the reader's steps, and of leaving a critical section, all of
which are straight-line code. `flock(2)` wakes a waiter when the lock is given
back, in some order, and another process may take it first: that is strong, not
weak, fairness of `Flock` and `ReadFlock`, i.e. a waiter to whom the lock becomes
free again and again gets it. Nothing makes a process start a call, remove the
sidecar or die. The retry loop ends under `FairSpec` since the sidecar can be removed
finitely often (`MaxInodes`), as it is a cleaner or a hand that does it.

`TranscriptIngest`: weak fairness of `Runner`, the disjunction of its steps. launchd
starts the daily runner every morning, and what it does is straight-line
code; deaths are not part of it and happen `MaxCrashes` times. Without the
restart a run that is cut short would be the last one. Nothing makes a session speak,
complete its line or be resumed.

## Proofs

Each theorem holds for every value of the constants that satisfies the named
`ASSUME`s: disjoint sets of processes, a marker value outside the set it extends,
bounds that are naturals, for `EvolveDecisions` an initial history in which keys are unique and a revert
event's generation is one above its decision's, and for `AgentCoordination`
starts that name known tasks, runtimes and paths.

| module | theorems | inductive invariant, and why |
|---|---|---|
| `FileLockProofs` | `TypeCorrect`, `Exclusion`, `StableSnapshots`, `TimeoutsAreEarned` | `IInv`: who is past flock holds the inode it has open (`HolderOK`); a critical blocking caller has the inode that the path names, and an intact sidecar means that all descriptors are on one inode (`PathOK`). Exclusion alone is not inductive: it says nothing of a caller between flock and its second look. `SnapInv` adds that a read in progress or finished met no writer, `RetryInv` that a reader goes round only after it has seen the sidecar, so that its next attempt takes the lock |
| `CorrectionStoreProofs` | `TypeCorrect`, `NoDuplicateIds`, `EditsHitTheirTarget`, `AcksAreKept`, `RefusalsAreJustified`, `Refinement` | `IInv`: who is past `Acquire` holds the lock (`LockOK`), so the buffer of a rewriter is still the file (`BufOK`), and ids are unique. Unique ids turn "the line at the checked index" into "the record with the picked id", which is what the abstract edit is about. `Aimed`, for refusals: while no sweep has dropped lines, the record that was picked stands at the index noted for it, as appends come after it and torn lines are not counted |
| `ReflectProofs` | `TypeCorrect`, `NeverAmbiguous`, `AppliedIsReported`, `Refinement`, `RevokesWithdraw`, `EveryFoldIsReplay`, `EveryStateIsReplayed` | `IInv`: every application confirms an attempt that no other confirms (`Sound`), every revert is stamped after the application it names (`Ordered`), each correction with applications has a latest one (`Settled`), and an attempt in a process's hands is logged and its own. The refinement is proved step by step in terms of `Shown`, what the fold shows given those facts. That the fold is the loop needs no invariant of reflect, only events with ids of their own: `SortedSorts` ranks each event by those it is later than, and `Knows` says what the loop knows after each transition (the current application is the latest read and not undone; a revert undid one iff it came while its application was the latest) |
| `EvolveDecisionsProofs` | `OneEntry`, `RecordedOnce`, `GenerationGrows`, `FreshDecisionsCount`, `TypeCorrect`, `PurgeSparesOthers`, `SnapshotsAreCommitted` | `IInv`: an entry is known by its run and file wherever it is (`KnownByRun`), a run has one entry per file, a recorder's decision comes from an entry it consumed, a decision about to be appended has no row yet (`AppendOK`), as whoever appends holds the lock under which it looked (`LockOK`), and a revert event is one generation above its decision (`RevertsAreAbove`). The last is why a decision of the current generation can neither be a repeat nor be folded away. `HeldOK`, for the purge: a drain has in hand only what it took. `SidecarOK`, for the snapshot, besides a revert's lock: as long as the lock file does not exist no revert has begun |
| `UtteranceProofs`, on `TranscriptIngest` | `IngestTypeCorrect`, `NoUtterancePassedOver`, `NoGrowthUnseen`, `CursorsAreCovered` | `IngestInv`: a cursor is within its file and a time noted is not after the file's own (`CursorsBehind`); the file under way is stored or in `batchA` up to where it was scanned (`ScanIsInHand`); lines that are whole stay, with all before them (`GrowthKeepsLines`), so a cursor keeps its meaning while the file grows. A scan that a failed read cut short counts what it did not get to as `missed`. For usage, `UsageCovered`: some record has the cursor's id and those up to it are in the database, or, for a chunk not committed, in the database or the chunk. `UsageComplete` alone says nothing of a chunk |
| `UtteranceProofs`, on `SemanticJudge` | `JudgeTypeCorrect`, `LimitsHold`, `NoCallUnbooked`, `VerdictsComeFirst` | `JudgeInv`: a runner that is not idle has the lock (`StagesOK`), so nobody books beside it. `BudgetOK`: what is booked today and the estimate of what the runner has still to book fit into the limit, and nothing is booked on a day to come, which carries a runner over midnight; the estimate of a selection is that of a batch and of the rest (`EstimateSplits`). `CallsOK`: the call under way is booked besides those made. `RepliesOK`: a saved reply, read against what its session was shown, says what the model said; `HeardOK`: what was heard was said, and a yes is on its way to the signals |
| `UtteranceProofs`, on `WeakSignals` | `SignalsTypeCorrect`, `MarksAreRecorded`, `RepeatsBounded` | `SignalsInv`: not only marks, but the keys a promotion holds and the marks in copies not yet written back have their corrections. `Counted`, for the bound: a signal not yet reviewed was appended by those who hold it and by promotions cut short; a reviewed one will be by those who still have it to append, since nobody takes it up any more |
| `AgentCoordinationProofs` | `TypeCorrect`, `OwnershipIsDisjoint`, `LaneHasBranch`, `FailedStartLeavesNothing`, `RecordsAreKept` | Three parts. The lock: until a live process has lost it, whoever is in the section holds the file, so a start past `CheckLanes` still sees lanes its own does not touch; disjointness alone says nothing of a start between check and manifest. The branches: a branch is of one start under way, or of a lane that was written, or left by a `git worktree add` that broke off, which holds without the lock because git gives a branch once. The handoffs: a process about to store saw no evidence, and a second one with the same sight is an overlap |
| `SessionStoreProofs` | `TypeCorrect`, `OneRowEach`, `RecordsAreKept`, `AnswersAreComplete` | A record is `Safe` when it has a row, raced or was deleted, and stays so. Who will rename or rewrite the file has read every line that is not safe, of those in it and of those a deletion is about to have written (`Lines`), since lines hidden from a read by a write under way count as raced; a copy that may still be put in place lacks only rows that raced. `ConnOK`, for single rows: who has the database open knows every row and no other process inserts. For readers: what the reader began with is in what it has seen or still in the file, as long as it is not disturbed |
| `TriggerNoticesProofs` | `TypeCorrect`, `StateKeepsUpdates`, `NoticeIsShownOnce`, `NoticesAreAccountedFor` | `StateInv`: every copy loaded reflects the updates that met nobody (`CopiesCurrent`), since an update saved beside another load counts as exposed; while the file cannot be parsed some writer has still to save (`StateCurrent`), or all updates are exposed. `DeliveryInv`: a number is written once, so a notice that left the file does not come back (`NumberOK`, `PastOK`); two holders of one notice are counted (`TwiceOK`); a notice that was shown and is still there is held by a start about to delete it (`AgainOK`), and that start has the lock; what a hook removes is what it read or came late (`LateOK`) |

Where an argument is by induction, it is put as a least counterexample, which the
library's well-founded order provides: `GenerationIsGen` and `LastRecord` rest on a largest
element of a bounded set of naturals, `NothingDropped`, that a sweep which drops
nothing writes back what it read, on a first place where it would not, and
`TallyExists` and `TotalGrows`, that the sum over the days grows by what is booked on
one, on a smallest set of days for which it would not. `LoopExists` and `ReplayKnows`,
for the loop of the fold, rest on
a first turn at which it would go wrong. `NewestSize` and `BatchIsSmall` count
a set through the bijection with an interval that its cardinality stands for.
Everything else is first-order.

`UtteranceProofs` extends three modules that share no state, which follow an
utterance from its transcript to the promoted signal; that is why the names of two of
them carry a prefix (`JudgeSpec`, `IngestSpec`). Its theorems are each about one of them.

## What is only model-checked

Liveness and fairness (`ReadEnds`, `LockerServed`, `UsageArrives`): out of the prover's
reach, as is `ENABLED`. Every other property of a passing run is a theorem as well.

## Findings

`coord_race`, `DisjointOwnership`. `_acquire_lock` creates `coordination.lock` and writes
its pid afterwards, and `_lock_is_stale` calls an empty file stale. A second start that
looks in between removes the lock of a live process and enters beside it: with no fault
at all, two lanes get one path. The docstring of `start_lane` (`core.py:209`) says that
owning the paths and adding the worktree are one exclusive section.
`DisjointUnlessStolen` is the weaker property that does hold, and
`OwnershipIsDisjoint` its theorem.

## Behaviours worth knowing

The models have these; no property is stated about them, or they are excluded by a
condition of one.

Corrections and reflection:

- `--skip` looks at the status in an unlocked read, and `update_reflect_status` rechecks
  the identity of the record but not its status. An `--apply` that completes in
  between is set back to skipped, although the comment at `reflect.py:1695` says that an
  applied record is not. The events still show it as active.
- The docstring of `update_reflect_status` lists as a known limit that an index may
  hit another record; identity is checked by now and `EditsHitTheirTarget` proves it.
- A torn line takes the next appended record with it.

Decisions:

- The key of a decision has the generation at emit time. If an entry that was accepted
  and reverted is drained again (from `--result-json`, or after a drain that died before
  its purge), a second accept of the same content gets the key of the first and is dropped,
  although the drain reports it and `evolve_decision_ids.py:166` says that the
  generation gives it another key. `FreshAcceptCounts` excludes it.
- A revert's generation is that of the decision it reverts plus one (`_apply.py:473`),
  while the comment at `_emit.py:183` speaks of the cumulative number of
  reverts. Reverting a decision twice, or an older one, does not raise the file's.
- An edit of the user between the last comparison and `os.replace` is
  overwritten (`RevertVerify`, `Edit`, `RevertReplace`).

Signals and the judge:

- A promotion rewrites `weak_signals.jsonl` from a copy and shares no lock with
  `append_signals`: a line appended in between is lost, although `promote.py:9` says that
  other lines stay as they are. An expiry does the same.
- `promote.py:573` reports a refused append to `sys.stderr`, but the module never imports
  `sys`: the `NameError` ends the promotion before the marks.
  `RepeatsArePaidFor` counts it, as `failures`, and likewise an answer that
  `record_reviewed` could not append, of which nobody is told.
- An expiry that read before a promotion marked its lines writes them back
  unmarked. The key in `correction_review_seen.jsonl` still keeps them from being promoted.
- A drain makes its batches anew and finds replies by the first utterance of a batch. If
  the daily judge has recorded one of the others since, the saved verdicts land on
  other utterances. The document of the step presumes that nothing changed; nothing checks it.
- The interactive drain books nothing: the daily limits bind the runner only.
- `append_jsonl` reports a failed write to stderr and callers of the judge's stores
  ignore the result. `CallsAreBooked` and `JudgedOnItsVerdict` hold as long as an append
  succeeds or the process dies.
- The key of a signal hashes the reason that the model gave, so an utterance judged
  again after a death has a second signal.

Sessions, notices, transcripts:

- A record appended to `sessions.jsonl` between a batch's read and its rename is in the
  renamed file, which nothing reads again.
- `delete_by_session_ids` truncates `sessions.jsonl` before it writes the lines it keeps
  (`session_store.py:721`). A batch that reads in between renames the finished file with
  lines it has not seen; a deletion that dies there leaves only what it had written.
- A reader of `evolve-state.json` that finds it truncated, or cannot read it, starts from
  an empty state, and what it saves has only its own change. Of two writers that have it
  open together the last may leave its text with the tail of the other's, which nobody can
  parse: every update is lost without a death.
- `pending.py` says of `read_and_delete_pending_trigger` that it has no other callers;
  `instructions_loaded` calls it, without the lock that `restore_state` takes.
- Lines that a session appends while the archive stores its utterances are counted into
  the cursor and never read. So are those behind a read error, which `extractor.py:396`
  swallows.
- A count of the lines that fails returns 0 (`ingest.py:46`): the cursor goes back to the
  first line while the modification time is recorded, so the file is read from its
  beginning when it next grows. Nothing is lost by it.

Lanes:

- `git worktree add -b` makes the branch before it checks out. If it fails after that, or an
  interrupt arrives before `worktree_created` is set, the rollback of `start_lane` does not
  run and the branch refuses the next start of the task.

## What is not modelled

In modelled components: the append without `fcntl`; a write to `corrections.jsonl` that
stops between a record and its newline, which readers take for a record until the next
append is glued to it; detection patterns; the wording
of prompts, idioms and categories; review groups and filters by project and age;
reading the union of legacy data directories; suppression of rejected proposals and the advisory
lane; file modes, hard links and how a path is found again; the one-off backfill
scripts, which take the lock of the correction store and rewrite it as the
invalidation does. In the judge every utterance costs the same. A session has one record in
`SessionStore`; filters by project and time, and the union of several data
directories, change no state. In `TriggerNotices` there is one cooldown period; what makes a trigger due,
snoozing and the pruning of the history are left out. Transcripts only grow:
their removal and the 90 days' window of the token ingest are left out. A pid is not reused while
a lock file names it.

Components without a module are listed in `PROJECT.json` with a reason each, and
the hazards found in them with their lines.

## Plan

Written so far: the modules above, with their proofs. What is left, in this order:

1. `MemoryQueue`: the two phases of automatic memory. Properties: an item is written once
   or stays in the queue. Bounds: two sessions, two items, one death.
2. `Pipeline`, composing `SemanticJudge` and `WeakSignals`: an utterance
   judged twice and its two signals, down to the corrections made of it. Abstract
   specification: an utterance is counted once per review. It replaces the run `signals`.
3. Several cooldown periods and snoozing in `TriggerNotices`.
