-------------------------- MODULE AgentCoordination --------------------------
(***************************************************************************)
(* The lanes of several coding agents in one repository, after             *)
(* scripts/lib/agent_coordination/core.py.                                 *)
(*                                                                         *)
(* A lane is a manifest lanes/<task>.json under the common git directory   *)
(* that owns repository paths, together with the branch <runtime>/<task>   *)
(* and its worktree.  start_lane and finish_lane run under                 *)
(* coordination.lock, a file created with O_EXCL whose content (pid and    *)
(* start time) is written afterwards; a lock that is empty, names a dead   *)
(* process or is older than an hour is removed, by name, by whoever finds  *)
(* it.  handoff_lane stores evidence of a commit and takes no lock.        *)
(*                                                                         *)
(* A command line is one process.  A process that dies stays dead: its pid *)
(* is not given to another process while the lock file names it.           *)
(***************************************************************************)
EXTENDS Naturals, Sequences, FiniteSets

CONSTANTS
    Procs,        \* processes that run evolve-agent-task, one command at a time
    Tasks,        \* task ids
    Runtimes,     \* claude, codex: the first component of a lane's branch
    Starts,       \* the starts agents ask for: <<task, runtime, owned paths>>
    Files,        \* the files of the repository
    Notes,        \* what a handoff reports: verification, decisions, open risks
    MaxCommands,  \* bound on the commands issued
    MaxFaults,    \* bound on the faults: deaths, interrupts, operations that fail,
                  \* locks forced open or grown old, branches deleted
    MaxCommits    \* bound on the commits made on the branches of lanes

\* Paths are sequences of components, after normalize_owned_paths.
ASSUME StartsAssumption ==
    \A s \in Starts : /\ s[1] \in Tasks /\ s[2] \in Runtimes
                      /\ s[3] \subseteq Seq(STRING)
ASSUME FilesAssumption == Files \subseteq Seq(STRING)
ASSUME BoundsAssumption == 
    MaxCommands \in Nat /\ MaxFaults \in Nat /\ MaxCommits \in Nat

VARIABLES
    lock,       \* coordination.lock
    pc,         \* what each process does next
    cmd,        \* the command it runs
    probe,      \* what the lock was when it looked at it, "none" before that:
                \* a process that has looked is in its second attempt
    lane,       \* the manifest it read
    evidence,   \* the evidence it is about to store
    manifests,  \* lanes/<task>.json
    branches,   \* the branches of lanes that exist in the repository
    heads,      \* the commit each branch points to, 0 for the base commit
    made,       \* commits made so far
    handoffs,   \* handoffs/<task>/<sha>.json
    issued,     \* commands issued so far
    faults,     \* faults so far
    stolen,     \* a live holder has lost its lock to another process (history)
    served,     \* branches that got a manifest (history)
    strayed,    \* branches whose start died or could not undo itself, or whose
                \* start was interrupted after its manifest was in place (history)
    halfAdded,  \* branches made by a git worktree add that then broke off (history)
    overlapped  \* handoffs for which two processes both found nothing (history)

bounds == <<issued, faults>>
locals == <<cmd, probe, lane, evidence>>
lockVars == <<lock, stolen>>
laneVars == <<manifests, branches, served, strayed, halfAdded>>
handVars == <<heads, made, handoffs, overlapped>>
vars == <<lock, pc, cmd, probe, lane, evidence, manifests, branches,
          heads, made, handoffs, issued, faults, stolen, served, strayed, halfAdded,
          overlapped>>

------------------------------------------------------------------------------
Branches == Runtimes \X Tasks

Claims == {s[3] : s \in Starts}

\* Branches without a commit of their own share the base commit.
Shas == 0 .. MaxCommits

NoLock == [held |-> FALSE]
Locks == {NoLock} \cup
         [held : {TRUE}, holder : Procs, written : BOOLEAN, aged : BOOLEAN]

NoLane == [status |-> "none"]
Lanes == {NoLane} \cup
         [status : {"active", "finished"}, branch : Branches, owned : Claims]

NoEvidence == [stored |-> FALSE]
Evidence == [stored : {TRUE}, branch : Branches, owned : Claims, note : Notes]
Keys == Tasks \X Shas
NoFinding == [found |-> FALSE]
Findings == {NoFinding} \cup [found : {TRUE}, key : Keys, value : Evidence]

Idle == [op |-> "none"]
Commands ==
    {Idle}
    \cup [op : {"start"}, task : Tasks, branch : Branches, owned : Claims]
    \cup [op : {"finish"}, task : Tasks]
    \cup [op : {"handoff"}, task : Tasks, note : Notes]

\* _paths_overlap: one path is the other, or a directory above it.
StartsWith(path, prefix) ==
    Len(prefix) <= Len(path) /\ SubSeq(path, 1, Len(prefix)) = prefix
PathsOverlap(left, right) == StartsWith(left, right) \/ StartsWith(right, left)
Collide(c, d) == \E left \in c, right \in d : PathsOverlap(left, right)

Alive(p) == pc[p] # "dead"

\* The section between a successful acquire and the release.
Section == {"record", "check", "add", "manifest", "rollback", "lookup",
            "finish", "release"}
InSection(p) == pc[p] \in Section

Active(t) == manifests[t].status = "active"

Goto(p, label) == pc' = [pc EXCEPT ![p] = label]

\* The command is over: its locals are gone.
Leave(p, label) ==
    /\ Goto(p, label)
    /\ cmd' = [cmd EXCEPT ![p] = Idle]
    /\ probe' = [probe EXCEPT ![p] = "none"]
    /\ lane' = [lane EXCEPT ![p] = NoLane]
    /\ evidence' = [evidence EXCEPT ![p] = NoFinding]

\* It printed its result, or its error.
Exit(p) == Leave(p, "idle")

Init ==
    /\ lock = NoLock
    /\ pc = [p \in Procs |-> "idle"]
    /\ cmd = [p \in Procs |-> Idle]
    /\ probe = [p \in Procs |-> "none"]
    /\ lane = [p \in Procs |-> NoLane]
    /\ evidence = [p \in Procs |-> NoFinding]
    /\ manifests = [t \in Tasks |-> NoLane]
    /\ branches = {}
    /\ heads = [b \in Branches |-> 0]
    /\ made = 0
    /\ handoffs = [k \in Keys |-> NoEvidence]
    /\ issued = 0
    /\ faults = 0
    /\ stolen = FALSE
    /\ served = {}
    /\ strayed = {}
    /\ halfAdded = {}
    /\ overlapped = {}

Fault == /\ faults < MaxFaults
         /\ faults' = faults + 1
NoFault == UNCHANGED faults

------------------------------------------------------------------------------
(* The lock. *)

Issue(p, c, label) ==
    /\ pc[p] = "idle"
    /\ issued < MaxCommands
    /\ issued' = issued + 1
    /\ cmd' = [cmd EXCEPT ![p] = c]
    /\ Goto(p, label)

Locking(p, c) ==
    /\ Issue(p, c, "create")
    /\ UNCHANGED <<faults, probe, lane, evidence, lockVars, laneVars, handVars>>

StartLane(p, t, r, owned) ==
    Locking(p, [op |-> "start", task |-> t, branch |-> <<r, t>>, owned |-> owned])

FinishLane(p, t) == Locking(p, [op |-> "finish", task |-> t])

\* O_CREAT | O_EXCL: the file exists, still empty.
CreateLock(p) ==
    /\ pc[p] = "create"
    /\ ~lock.held
    /\ lock' = [held |-> TRUE, holder |-> p, written |-> FALSE, aged |-> FALSE]
    /\ Goto(p, "record")
    /\ UNCHANGED <<locals, bounds, stolen, laneVars, handVars>>

\* FileExistsError: look at the lock once, refuse the second time.
LockExists(p) ==
    /\ pc[p] = "create"
    /\ lock.held
    /\ IF probe[p] = "none" THEN Goto(p, "probe") /\ UNCHANGED locals ELSE Exit(p)
    /\ UNCHANGED <<lockVars, bounds, laneVars, handVars>>

\* Mutant: the test of the pid is the wrong way round.
StaleWhenAlive == ~lock.held \/ ~lock.written \/ Alive(lock.holder) \/ lock.aged

LockIsStale ==
    \/ ~lock.held
    \/ ~lock.written
    \/ ~Alive(lock.holder)
    \/ lock.aged

\* What the lock really is, whatever the code makes of it (history).
Observed ==
    CASE ~lock.held           -> "missing"
      [] lock.held /\ ~lock.written -> "empty"
      [] lock.held /\ lock.written /\ ~Alive(lock.holder) -> "dead"
      [] lock.held /\ lock.written /\ Alive(lock.holder) /\ lock.aged -> "aged"
      [] OTHER                -> "fresh"

ProbeLock(p) ==
    /\ pc[p] = "probe"
    /\ IF LockIsStale
       THEN /\ probe' = [probe EXCEPT ![p] = Observed]
            /\ Goto(p, "unlink")
            /\ UNCHANGED <<cmd, lane, evidence>>
       ELSE Exit(p)
    /\ UNCHANGED <<lockVars, bounds, laneVars, handVars>>

\* The file is removed by its name, whatever it is by now.
UnlinkStale(p) ==
    /\ pc[p] = "unlink"
    /\ lock' = NoLock
    /\ stolen' = (stolen \/ (lock.held /\ Alive(lock.holder) /\ probe[p] # "fresh"))
    /\ Goto(p, "create")
    /\ UNCHANGED <<locals, bounds, laneVars, handVars>>

\* os.write into the descriptor: seen in the lock file only while that file is
\* still the one this process created.
RecordHolder(p) ==
    /\ pc[p] = "record"
    /\ lock' = IF lock.held /\ lock.holder = p
               THEN [lock EXCEPT !.written = TRUE] ELSE lock
    /\ Goto(p, IF cmd[p].op = "start" THEN "check" ELSE "lookup")
    /\ UNCHANGED <<locals, bounds, stolen, laneVars, handVars>>

ReleaseLock(p) ==
    /\ pc[p] = "release"
    /\ lock' = NoLock
    /\ stolen' = (stolen \/ (lock.held /\ lock.holder # p /\ Alive(lock.holder)))
    /\ Exit(p)
    /\ UNCHANGED <<bounds, laneVars, handVars>>

ForceUnlock ==
    /\ lock.held
    /\ lock' = NoLock
    /\ stolen' = (stolen \/ Alive(lock.holder))
    /\ Fault
    /\ UNCHANGED <<pc, locals, issued, laneVars, handVars>>

\* An hour passes: _LOCK_TTL.
LockAges ==
    /\ lock.held /\ lock.written /\ ~lock.aged
    /\ lock' = [lock EXCEPT !.aged = TRUE]
    /\ Fault
    /\ UNCHANGED <<pc, locals, issued, stolen, laneVars, handVars>>

------------------------------------------------------------------------------
(* start_lane, inside the lock. *)

\* A task that is active, or an active lane that owns one of the paths.
Refused(c) ==
    \/ Active(c.task)
    \/ \E t \in Tasks : Active(t) /\ Collide(c.owned, manifests[t].owned)

CheckLanes(p) ==
    /\ pc[p] = "check"
    /\ Goto(p, IF Refused(cmd[p]) THEN "release" ELSE "add")
    /\ UNCHANGED <<locals, lockVars, bounds, laneVars, handVars>>

\* Mutant: git worktree add -B, which resets a branch that exists.
AddWorktreeOverBranch(p) ==
    LET b == cmd[p].branch IN
    /\ pc[p] = "add"
    /\ branches' = branches \cup {b}
    /\ heads' = [heads EXCEPT ![b] = 0]
    /\ Goto(p, "manifest")
    /\ UNCHANGED <<locals, lockVars, bounds, manifests, served, strayed, halfAdded,
                   made, handoffs, overlapped>>

\* git worktree add -b: one of two fails when the branch exists.
AddWorktree(p) ==
    LET b == cmd[p].branch IN
    /\ pc[p] = "add"
    /\ b \notin branches
    /\ branches' = branches \cup {b}
    /\ heads' = [heads EXCEPT ![b] = 0]
    /\ Goto(p, "manifest")
    /\ UNCHANGED <<locals, lockVars, bounds, manifests, served, strayed, halfAdded,
                   made, handoffs, overlapped>>

\* Mutant: the rollback does not ask whether this start created the worktree.
WorktreeFailsUndone(p) ==
    /\ pc[p] = "add"
    /\ Goto(p, "rollback")
    /\ IF cmd[p].branch \in branches THEN NoFault ELSE Fault
    /\ UNCHANGED <<locals, lockVars, issued, laneVars, handVars>>

\* The branch exists, or git fails before it has made it: nothing was created.
WorktreeFails(p) ==
    /\ pc[p] = "add"
    /\ Goto(p, "release")
    /\ IF cmd[p].branch \in branches THEN NoFault ELSE Fault
    /\ UNCHANGED <<locals, lockVars, issued, laneVars, handVars>>

\* git worktree add -b makes the branch before it checks out.  The checkout or
\* a hook fails, an interrupt arrives before worktree_created is set, or the
\* process dies: the branch stays, since the rollback asks for the flag.
WorktreeBreaksOff(p) ==
    LET b == cmd[p].branch IN
    /\ pc[p] = "add"
    /\ b \notin branches
    /\ branches' = branches \cup {b}
    /\ heads' = [heads EXCEPT ![b] = 0]
    /\ halfAdded' = halfAdded \cup {b}
    /\ \/ Goto(p, "release") /\ UNCHANGED locals
       \/ Leave(p, "dead")
    /\ Fault
    /\ UNCHANGED <<lockVars, issued, manifests, served, strayed,
                   made, handoffs, overlapped>>

\* os.replace of the manifest.  An interrupt that arrives after it and before
\* the return still rolls the worktree and the branch back.
WriteManifest(p) ==
    LET c == cmd[p] IN
    /\ pc[p] = "manifest"
    /\ manifests' = [manifests EXCEPT ![c.task] =
           [status |-> "active", branch |-> c.branch, owned |-> c.owned]]
    /\ served' = served \cup {c.branch}
    /\ \/ Goto(p, "release") /\ NoFault /\ UNCHANGED strayed
       \/ Goto(p, "rollback") /\ Fault /\ strayed' = strayed \cup {c.branch}
    /\ UNCHANGED <<locals, lockVars, issued, branches, halfAdded, handVars>>

ManifestFails(p) ==
    /\ pc[p] = "manifest"
    /\ Goto(p, "rollback")
    /\ Fault
    /\ UNCHANGED <<locals, lockVars, issued, laneVars, handVars>>

\* Mutant: the rollback removes the worktree and forgets the branch.
RollbackWorktreeOnly(p) ==
    /\ pc[p] = "rollback"
    /\ Goto(p, "release")
    /\ UNCHANGED <<locals, lockVars, bounds, laneVars, handVars>>

\* git worktree remove --force and git branch -D; their failures are ignored.
Rollback(p) ==
    LET b == cmd[p].branch IN
    /\ pc[p] = "rollback"
    /\ \/ branches' = branches \ {b} /\ NoFault /\ UNCHANGED strayed
       \/ strayed' = strayed \cup {b} /\ Fault /\ UNCHANGED branches
    /\ Goto(p, "release")
    /\ UNCHANGED <<locals, lockVars, issued, manifests, served, halfAdded, handVars>>

------------------------------------------------------------------------------
(* finish_lane, inside the lock. *)

LookupLane(p) ==
    LET t == cmd[p].task IN
    /\ pc[p] = "lookup"
    /\ IF Active(t)
       THEN lane' = [lane EXCEPT ![p] = manifests[t]] /\ Goto(p, "finish")
       ELSE UNCHANGED lane /\ Goto(p, "release")
    /\ UNCHANGED <<cmd, probe, evidence, lockVars, bounds, laneVars, handVars>>

WriteFinished(p) ==
    /\ pc[p] = "finish"
    /\ manifests' = [manifests EXCEPT ![cmd[p].task] =
                        [lane[p] EXCEPT !.status = "finished"]]
    /\ Goto(p, "release")
    /\ UNCHANGED <<locals, lockVars, bounds, branches, served, strayed, halfAdded, handVars>>

FinishFails(p) ==
    /\ pc[p] = "finish"
    /\ Goto(p, "release")
    /\ Fault
    /\ UNCHANGED <<locals, lockVars, issued, laneVars, handVars>>

------------------------------------------------------------------------------
(* handoff_lane, without the lock. *)

HandoffLane(p, t, n) ==
    /\ Active(t)
    /\ Issue(p, [op |-> "handoff", task |-> t, note |-> n], "inspect")
    /\ lane' = [lane EXCEPT ![p] = manifests[t]]
    /\ UNCHANGED <<faults, probe, evidence, lockVars, laneVars, handVars>>

\* The worktree is clean, on the lane's branch, changed inside its paths.
Inspect(p) ==
    LET b == lane[p].branch
        e == [stored |-> TRUE, branch |-> b, owned |-> lane[p].owned,
              note |-> cmd[p].note]
    IN
    /\ pc[p] = "inspect"
    /\ b \in branches
    /\ evidence' = [evidence EXCEPT ![p] =
           [found |-> TRUE, key |-> <<cmd[p].task, heads[b]>>, value |-> e]]
    /\ Goto(p, "existing")
    /\ UNCHANGED <<cmd, probe, lane, lockVars, bounds, laneVars, handVars>>

\* Dirty, drifted, outside the owned paths, or the worktree is gone.
HandoffRefused(p) ==
    /\ pc[p] = "inspect"
    /\ Exit(p)
    /\ UNCHANGED <<lockVars, bounds, laneVars, handVars>>

\* Evidence for this commit exists: it is returned, or, when it differs,
\* refused.  Nothing is written either way.
HandoffExists(p) ==
    /\ pc[p] = "existing"
    /\ handoffs[evidence[p].key].stored
    /\ Exit(p)
    /\ UNCHANGED <<lockVars, bounds, laneVars, handVars>>

FindNothing(p) ==
    LET k == evidence[p].key IN
    /\ pc[p] = "existing"
    /\ ~handoffs[k].stored
    /\ overlapped' = IF \E q \in Procs \ {p} : pc[q] = "store" /\ evidence[q].key = k
                     THEN overlapped \cup {k} ELSE overlapped
    /\ Goto(p, "store")
    /\ UNCHANGED <<locals, lockVars, bounds, laneVars, heads, made, handoffs>>

StoreEvidence(p) ==
    /\ pc[p] = "store"
    /\ handoffs' = [handoffs EXCEPT ![evidence[p].key] = evidence[p].value]
    /\ Exit(p)
    /\ UNCHANGED <<lockVars, bounds, laneVars, heads, made, overlapped>>

------------------------------------------------------------------------------
(* The agents and the user. *)

\* The process dies, or leaves _acquire_lock or _worktree_candidate with an
\* error: the lock file stays as it is.
Crash(p) ==
    /\ pc[p] \notin {"idle", "dead"}
    /\ Leave(p, "dead")
    /\ strayed' = IF pc[p] \in {"manifest", "rollback"}
                  THEN strayed \cup {cmd[p].branch} ELSE strayed
    /\ Fault
    /\ UNCHANGED <<lockVars, issued, manifests, branches, served, halfAdded, handVars>>

Commit(b) ==
    /\ b \in branches
    /\ made < MaxCommits
    /\ made' = made + 1
    /\ heads' = [heads EXCEPT ![b] = made + 1]
    /\ UNCHANGED <<pc, locals, lockVars, bounds, laneVars, handoffs, overlapped>>

\* The user removes the branch of a lane that is over, or one that was left
\* behind; not the branch of an active lane or of a start under way.
DeleteBranch(b) ==
    /\ b \in branches
    /\ \A t \in Tasks : Active(t) => manifests[t].branch # b
    /\ \A p \in Procs : pc[p] \in {"manifest", "rollback"} => cmd[p].branch # b
    /\ branches' = branches \ {b}
    /\ Fault
    /\ UNCHANGED <<pc, locals, lockVars, issued, manifests, served, strayed, halfAdded,
                   handVars>>

ProcStep(p) ==
    \/ \E s \in Starts : StartLane(p, s[1], s[2], s[3])
    \/ \E t \in Tasks : FinishLane(p, t)
    \/ \E t \in Tasks, n \in Notes : HandoffLane(p, t, n)
    \/ CreateLock(p) \/ LockExists(p) \/ ProbeLock(p) \/ UnlinkStale(p)
    \/ RecordHolder(p) \/ ReleaseLock(p)
    \/ CheckLanes(p) \/ AddWorktree(p) \/ WorktreeFails(p) \/ WorktreeBreaksOff(p)
    \/ WriteManifest(p) \/ ManifestFails(p) \/ Rollback(p)
    \/ LookupLane(p) \/ WriteFinished(p) \/ FinishFails(p)
    \/ Inspect(p) \/ HandoffRefused(p)
    \/ HandoffExists(p) \/ FindNothing(p) \/ StoreEvidence(p)
    \/ Crash(p)

Next ==
    \/ \E p \in Procs : ProcStep(p)
    \/ ForceUnlock
    \/ LockAges
    \/ \E b \in Branches : Commit(b) \/ DeleteBranch(b)

Spec == Init /\ [][Next]_vars

------------------------------------------------------------------------------
Labels == Section \cup {"idle", "create", "probe", "unlink", "inspect",
                       "existing", "store", "dead"}
Causes == {"none", "missing", "empty", "dead", "aged", "fresh"}

\* The command a process runs is one its place in the code belongs to.
StartLabels == {"check", "add", "manifest", "rollback"}
FinishLabels == {"lookup", "finish"}
HandoffLabels == {"inspect", "existing", "store"}
LockLabels == {"create", "probe", "unlink", "record", "release"}

(* Every variable has the shape of the files and the locals it stands for,  *)
(* and a process runs the command its place in the code belongs to.         *)
TypeOK ==
    /\ lock \in Locks
    /\ pc \in [Procs -> Labels]
    /\ cmd \in [Procs -> Commands]
    /\ \A p \in Procs :
          /\ pc[p] \in StartLabels => cmd[p].op = "start"
          /\ pc[p] \in FinishLabels => cmd[p].op = "finish"
          /\ pc[p] \in HandoffLabels => cmd[p].op = "handoff"
          /\ pc[p] \in LockLabels => cmd[p].op \in {"start", "finish"}
          /\ pc[p] \in {"inspect", "finish"} => lane[p] # NoLane
          /\ pc[p] \in {"existing", "store"} => evidence[p] # NoFinding
    /\ probe \in [Procs -> Causes]
    /\ lane \in [Procs -> Lanes]
    /\ evidence \in [Procs -> Findings]
    /\ manifests \in [Tasks -> Lanes]
    /\ branches \subseteq Branches
    /\ heads \in [Branches -> Shas]
    /\ made \in Shas
    /\ handoffs \in [Keys -> {NoEvidence} \cup Evidence]
    /\ issued \in 0 .. MaxCommands
    /\ faults \in 0 .. MaxFaults
    /\ stolen \in BOOLEAN
    /\ served \subseteq Branches
    /\ strayed \subseteq Branches
    /\ halfAdded \subseteq Branches
    /\ overlapped \subseteq Keys

\* An agent in the lane may change the file (handoff_lane checks it).
Owns(t, file) == \E path \in manifests[t].owned : StartsWith(file, path)

(* No file belongs to two active lanes: start_lane, "ownership 取得と repo 外    *)
(* worktree 作成を1つの排他区間で行う".                                       *)
DisjointOwnership ==
    \A t, u \in Tasks, file \in Files :
        Active(t) /\ Active(u) /\ Owns(t, file) /\ Owns(u, file) => t = u

(* No file belongs to two active lanes while no live process has lost its   *)
(* lock: to force-unlock, to the hour, to a look at the file it had not yet *)
(* written, or to a removal decided on an earlier lock file.                *)
DisjointUnlessStolen == stolen \/ DisjointOwnership

(* The manifest of an active lane gives way to nothing but its own finish.  *)
(* When locks were stolen it may be lost to another lane, but never to a    *)
(* second start on its own branch: git refuses the branch, whatever the     *)
(* lock is worth, unless the first start was interrupted after its write.   *)
LaneGivesWay(t) ==
    \/ manifests'[t] = [manifests[t] EXCEPT !.status = "finished"]
    \/ /\ stolen
       /\ Active(t)' /\ manifests'[t].branch = manifests[t].branch
          => manifests[t].branch \in strayed

(* What was recorded stays: active lanes as above, and the evidence of a    *)
(* handoff for good, unless two handoffs of one commit overlapped between   *)
(* the look for a file and its replacement.                                 *)
RecordsKept ==
    [][/\ \A t \in Tasks :
             Active(t) /\ manifests'[t] # manifests[t] => LaneGivesWay(t)
       /\ \A k \in Keys :
             handoffs[k].stored /\ handoffs'[k] # handoffs[k] => k \in overlapped]_vars

(* The branch of an active lane exists, unless its start was interrupted    *)
(* after the manifest was in place: the rollback takes branch and worktree  *)
(* back and leaves the lane active.                                         *)
BranchBehindLane ==
    \A t \in Tasks :
        Active(t) => manifests[t].branch \in branches \cup strayed

(* A start that fails can be repeated: it leaves no branch that would make  *)
(* git refuse the next one, unless git worktree add broke off after it had  *)
(* made the branch (nothing undoes that), or the start died, was            *)
(* interrupted after its manifest, or could not undo itself.                *)
NoBranchLeftBehind ==
    \A b \in branches :
        \/ b \in served \cup strayed \cup halfAdded
        \/ \E p \in Procs : pc[p] \in {"manifest", "rollback"} /\ cmd[p].branch = b
==============================================================================
