----------------------- MODULE AgentCoordinationProofs -----------------------
(***************************************************************************)
(* What AgentCoordination promises, for any number of processes, tasks,    *)
(* starts, files, commands and faults.                                     *)
(*                                                                         *)
(* The argument has three parts that need each other only at the end.      *)
(* The lock: until a live holder loses coordination.lock, whoever is in    *)
(* the section holds it, so the check of the paths is still true when the  *)
(* manifest is written.  The branches: git gives a branch to one start,    *)
(* which is why a lost lock cannot give one branch to two lanes.  The      *)
(* handoffs: whoever stores evidence saw none, and an overlap of two such  *)
(* sights is remembered.                                                   *)
(***************************************************************************)
EXTENDS AgentCoordination, SequenceTheorems, TLAPS

------------------------------------------------------------------------------
(* The shapes of records, one fact each. *)

LEMMA LockFacts ==
    /\ NoLock \in Locks /\ ~NoLock.held
    /\ \A k \in Locks :
          /\ k.held \in BOOLEAN
          /\ k.held => k.holder \in Procs /\ k.written \in BOOLEAN /\ k.aged \in BOOLEAN
    /\ \A p \in Procs :
          LET new == [held |-> TRUE, holder |-> p, written |-> FALSE, aged |-> FALSE]
          IN new \in Locks /\ new.held /\ new.holder = p
    /\ \A k \in Locks : k.held =>
          /\ [k EXCEPT !.written = TRUE] \in Locks
          /\ [k EXCEPT !.written = TRUE].held
          /\ [k EXCEPT !.written = TRUE].holder = k.holder
          /\ [k EXCEPT !.aged = TRUE] \in Locks
          /\ [k EXCEPT !.aged = TRUE].held
          /\ [k EXCEPT !.aged = TRUE].holder = k.holder
<1>1. NoLock \in Locks /\ ~NoLock.held
  BY DEF Locks, NoLock
<1>2. ASSUME NEW k \in Locks
      PROVE  /\ k.held \in BOOLEAN
             /\ k.held => k.holder \in Procs /\ k.written \in BOOLEAN /\ k.aged \in BOOLEAN
  <2>1. CASE k = NoLock
    BY <2>1 DEF NoLock
  <2>2. CASE k \in [held : {TRUE}, holder : Procs, written : BOOLEAN, aged : BOOLEAN]
    <3>1. k.held = TRUE /\ k.holder \in Procs
      BY <2>2
    <3>2. k.written \in BOOLEAN /\ k.aged \in BOOLEAN
      BY <2>2
    <3> QED
      BY <3>1, <3>2
  <2> QED
    BY <2>1, <2>2 DEF Locks
<1>3. ASSUME NEW p \in Procs, NEW new,
             new = [held |-> TRUE, holder |-> p, written |-> FALSE, aged |-> FALSE]
      PROVE  new \in Locks /\ new.held /\ new.holder = p
  BY <1>3 DEF Locks
<1>4. ASSUME NEW k \in Locks, k.held
      PROVE  /\ [k EXCEPT !.written = TRUE] \in Locks
             /\ [k EXCEPT !.written = TRUE].held
             /\ [k EXCEPT !.written = TRUE].holder = k.holder
             /\ [k EXCEPT !.aged = TRUE] \in Locks
             /\ [k EXCEPT !.aged = TRUE].held
             /\ [k EXCEPT !.aged = TRUE].holder = k.holder
  BY <1>4 DEF Locks, NoLock
<1> QED
  BY <1>1, <1>2, <1>3, <1>4

LEMMA CommandFacts ==
    /\ Idle \in Commands
    /\ \A s \in Starts :
          LET c == [op |-> "start", task |-> s[1], branch |-> <<s[2], s[1]>>, owned |-> s[3]]
          IN c \in Commands /\ c.op = "start"
    /\ \A t \in Tasks : LET c == [op |-> "finish", task |-> t]
                        IN c \in Commands /\ c.op = "finish"
    /\ \A t \in Tasks, n \in Notes :
          LET c == [op |-> "handoff", task |-> t, note |-> n]
          IN c \in Commands /\ c.op = "handoff"
    /\ \A c \in Commands :
          /\ c.op = "start" => c.task \in Tasks /\ c.branch \in Branches /\ c.owned \in Claims
          /\ c.op = "finish" => c.task \in Tasks
          /\ c.op = "handoff" => c.task \in Tasks /\ c.note \in Notes
<1>1. \A s \in Starts : s[1] \in Tasks /\ <<s[2], s[1]>> \in Branches /\ s[3] \in Claims
  BY StartsAssumption DEF Branches, Claims
<1> QED
  BY <1>1 DEF Commands, Idle

LEMMA LaneFacts ==
    /\ NoLane \in Lanes /\ NoLane.status # "active"
    /\ \A b \in Branches, c \in Claims :
          LET l == [status |-> "active", branch |-> b, owned |-> c]
          IN l \in Lanes /\ l # NoLane /\ l.status = "active" /\ l.branch = b /\ l.owned = c
    /\ \A l \in Lanes :
          /\ l.status = "active" => l # NoLane
          /\ l # NoLane => l.branch \in Branches /\ l.owned \in Claims
          /\ l # NoLane => [l EXCEPT !.status = "finished"] \in Lanes
          /\ [l EXCEPT !.status = "finished"].status = "finished"
<1>1. /\ NoLane \in Lanes /\ NoLane.status # "active"
      /\ \A l \in Lanes : l.status = "active" => l # NoLane
  BY DEF Lanes, NoLane
<1>2. ASSUME NEW b \in Branches, NEW c \in Claims, NEW l,
             l = [status |-> "active", branch |-> b, owned |-> c]
      PROVE  l \in Lanes /\ l # NoLane /\ l.status = "active" /\ l.branch = b /\ l.owned = c
  BY <1>2 DEF Lanes, NoLane
<1>3. ASSUME NEW l \in Lanes, l # NoLane
      PROVE  /\ l.branch \in Branches /\ l.owned \in Claims
             /\ [l EXCEPT !.status = "finished"] \in Lanes
  BY <1>3 DEF Lanes
<1>4. ASSUME NEW l \in Lanes
      PROVE  [l EXCEPT !.status = "finished"].status = "finished"
  BY DEF Lanes, NoLane
<1> QED
  BY <1>1, <1>2, <1>3, <1>4

LEMMA EvidenceFacts ==
    /\ NoFinding \in Findings
    /\ \A k \in Keys, e \in Evidence :
          LET f == [found |-> TRUE, key |-> k, value |-> e] IN f \in Findings /\ f # NoFinding
    /\ \A f \in Findings : f # NoFinding => f.key \in Keys /\ f.value \in Evidence
    /\ \A b \in Branches, c \in Claims, n \in Notes :
          [stored |-> TRUE, branch |-> b, owned |-> c, note |-> n] \in Evidence
    /\ \A t \in Tasks, h \in Shas : <<t, h>> \in Keys
<1>1. NoFinding \in Findings
  BY DEF Findings
<1>2. ASSUME NEW k \in Keys, NEW e \in Evidence, NEW f,
             f = [found |-> TRUE, key |-> k, value |-> e]
      PROVE  f \in Findings /\ f # NoFinding
  BY <1>2 DEF Findings, NoFinding
<1>3. ASSUME NEW f \in Findings, f # NoFinding
      PROVE  f.key \in Keys /\ f.value \in Evidence
  BY <1>3 DEF Findings
<1>4. ASSUME NEW b \in Branches, NEW c \in Claims, NEW n \in Notes
      PROVE  [stored |-> TRUE, branch |-> b, owned |-> c, note |-> n] \in Evidence
  BY DEF Evidence
<1>5. ASSUME NEW t \in Tasks, NEW h \in Shas PROVE <<t, h>> \in Keys
  BY DEF Keys
<1> QED
  BY <1>1, <1>2, <1>3, <1>4, <1>5

------------------------------------------------------------------------------
(* Prefixes of one path are comparable. *)

LEMMA PrefixesOverlap ==
    ASSUME NEW f \in Seq(STRING), NEW a \in Seq(STRING), NEW b \in Seq(STRING),
           StartsWith(f, a), StartsWith(f, b)
    PROVE  PathsOverlap(a, b)
<1>1. ASSUME NEW x \in Seq(STRING), NEW y \in Seq(STRING), StartsWith(f, x), StartsWith(f, y),
             Len(x) <= Len(y)
      PROVE  StartsWith(y, x)
  <2>1. Len(x) \in Nat /\ Len(y) \in Nat /\ Len(f) \in Nat
    BY LenProperties
  <2>2. Len(SubSeq(y, 1, Len(x))) = Len(x) /\ SubSeq(y, 1, Len(x)) \in Seq(STRING)
    BY <1>1, <2>1, SubSeqProperties
  <2>3. ASSUME NEW i \in 1 .. Len(x) PROVE SubSeq(y, 1, Len(x))[i] = x[i]
    <3>1. SubSeq(f, 1, Len(x))[i] = f[i]
      BY <1>1, <2>1, <2>3 DEF StartsWith
    <3>2. SubSeq(f, 1, Len(y))[i] = f[i]
      BY <1>1, <2>1, <2>3 DEF StartsWith
    <3>3. SubSeq(y, 1, Len(x))[i] = y[i]
      BY <1>1, <2>1, <2>3
    <3> QED
      BY <1>1, <3>1, <3>2, <3>3 DEF StartsWith
  <2>4. SubSeq(y, 1, Len(x)) = x
    BY <2>2, <2>3, SeqEqual
  <2> QED
    BY <1>1, <2>4 DEF StartsWith
<1>2. Len(a) \in Nat /\ Len(b) \in Nat
  BY LenProperties
<1> QED
  BY <1>1, <1>2 DEF PathsOverlap

LEMMA CollideSymmetric == \A c, d : Collide(c, d) => Collide(d, c)
BY DEF Collide, PathsOverlap

------------------------------------------------------------------------------
(* Type correctness. *)

Fits(p) ==
    /\ pc[p] \in StartLabels => cmd[p].op = "start"
    /\ pc[p] \in FinishLabels => cmd[p].op = "finish"
    /\ pc[p] \in HandoffLabels => cmd[p].op = "handoff"
    /\ pc[p] \in LockLabels => cmd[p].op \in {"start", "finish"}
    /\ pc[p] \in {"inspect", "finish"} => lane[p] # NoLane
    /\ pc[p] \in {"existing", "store"} => evidence[p] # NoFinding

LocalsOK ==
    /\ pc \in [Procs -> Labels]
    /\ cmd \in [Procs -> Commands]
    /\ probe \in [Procs -> Causes]
    /\ lane \in [Procs -> Lanes]
    /\ evidence \in [Procs -> Findings]
    /\ \A p \in Procs : Fits(p)

FilesOK ==
    /\ lock \in Locks
    /\ manifests \in [Tasks -> Lanes]
    /\ branches \subseteq Branches
    /\ heads \in [Branches -> Shas]
    /\ made \in Shas
    /\ handoffs \in [Keys -> {NoEvidence} \cup Evidence]
    /\ issued \in 0 .. MaxCommands
    /\ faults \in 0 .. MaxFaults
    /\ stolen \in BOOLEAN
    /\ served \subseteq Branches
    /\ strayed \subseteq Branches
    /\ halfAdded \subseteq Branches
    /\ overlapped \subseteq Keys

LEMMA TypeParts ==
    /\ TypeOK <=> LocalsOK /\ FilesOK
    /\ TypeOK' <=> LocalsOK' /\ FilesOK'
BY Zenon DEF TypeOK, LocalsOK, FilesOK, Fits

LEMMA GotoKeeps ==
    ASSUME LocalsOK, NEW p \in Procs, NEW label \in Labels, Goto(p, label), UNCHANGED locals,
           label \in StartLabels => cmd[p].op = "start",
           label \in FinishLabels => cmd[p].op = "finish",
           label \in HandoffLabels => cmd[p].op = "handoff",
           label \in LockLabels => cmd[p].op \in {"start", "finish"},
           label \in {"inspect", "finish"} => lane[p] # NoLane,
           label \in {"existing", "store"} => evidence[p] # NoFinding
    PROVE  LocalsOK'
<1>1. pc' \in [Procs -> Labels] /\ pc'[p] = label /\ \A q \in Procs \ {p} : pc'[q] = pc[q]
  BY DEF LocalsOK, Goto
<1>2. cmd' = cmd /\ probe' = probe /\ lane' = lane /\ evidence' = evidence
  BY DEF locals
<1>3. ASSUME NEW q \in Procs PROVE Fits(q)'
  BY <1>1, <1>2 DEF LocalsOK, Fits
<1> QED
  BY <1>1, <1>2, <1>3 DEF LocalsOK

LEMMA LeaveKeeps ==
    ASSUME LocalsOK, NEW p \in Procs, NEW label \in {"idle", "dead"}, Leave(p, label)
    PROVE  LocalsOK'
<1>1. /\ pc' \in [Procs -> Labels] /\ pc'[p] = label
      /\ \A q \in Procs \ {p} : pc'[q] = pc[q]
  BY DEF LocalsOK, Leave, Goto, Labels
<1>2. /\ cmd' \in [Procs -> Commands] /\ probe' \in [Procs -> Causes]
      /\ lane' \in [Procs -> Lanes] /\ evidence' \in [Procs -> Findings]
  BY CommandFacts, LaneFacts, EvidenceFacts DEF LocalsOK, Leave, Causes
<1>3. \A q \in Procs \ {p} :
          cmd'[q] = cmd[q] /\ lane'[q] = lane[q] /\ evidence'[q] = evidence[q]
  BY DEF LocalsOK, Leave
<1>4. ASSUME NEW q \in Procs PROVE Fits(q)'
  BY <1>1, <1>3 DEF LocalsOK, Fits, StartLabels, FinishLabels, HandoffLabels, LockLabels
<1> QED
  BY <1>1, <1>2, <1>4 DEF LocalsOK

(* A command that begins: its locals have been reset, or are set with it. *)
LEMMA IssueKeeps ==
    ASSUME LocalsOK, NEW p \in Procs, NEW c \in Commands, NEW label \in {"create", "inspect"},
           Issue(p, c, label), probe' = probe, evidence' = evidence,
           NEW l \in Lanes, lane' = [lane EXCEPT ![p] = l],
           label = "create" => c.op \in {"start", "finish"},
           label = "inspect" => c.op = "handoff" /\ l # NoLane
    PROVE  LocalsOK'
<1>1. /\ pc' \in [Procs -> Labels] /\ pc'[p] = label
      /\ \A q \in Procs \ {p} : pc'[q] = pc[q]
  BY DEF LocalsOK, Issue, Goto, Labels
<1>2. cmd' \in [Procs -> Commands] /\ lane' \in [Procs -> Lanes]
  BY DEF LocalsOK, Issue
<1>3. /\ cmd'[p] = c /\ lane'[p] = l
      /\ \A q \in Procs \ {p} :
          cmd'[q] = cmd[q] /\ lane'[q] = lane[q] /\ evidence'[q] = evidence[q]
  BY DEF LocalsOK, Issue
<1>4. ASSUME NEW q \in Procs PROVE Fits(q)'
  <2>1. CASE q # p
    BY <2>1, <1>1, <1>3 DEF LocalsOK, Fits
  <2>2. CASE q = p
    BY <2>2, <1>1, <1>3 DEF Fits, StartLabels, FinishLabels, HandoffLabels, LockLabels
  <2> QED
    BY <2>1, <2>2
<1> QED
  BY <1>1, <1>2, <1>4 DEF LocalsOK

LEMMA TypeInit == Init => TypeOK
<1> SUFFICES ASSUME Init PROVE TypeOK
  OBVIOUS
<1>1. LocalsOK
  BY CommandFacts, LaneFacts, EvidenceFacts
     DEF Init, LocalsOK, Fits, Labels, Causes, StartLabels, FinishLabels, HandoffLabels, LockLabels
<1>2. lock \in Locks /\ manifests \in [Tasks -> Lanes]
  BY LockFacts, LaneFacts DEF Init
<1>3. heads \in [Branches -> Shas] /\ made \in Shas
  BY BoundsAssumption DEF Init, Shas
<1>4. /\ branches \subseteq Branches /\ served \subseteq Branches /\ strayed \subseteq Branches
      /\ halfAdded \subseteq Branches
      /\ overlapped \subseteq Keys /\ handoffs \in [Keys -> {NoEvidence} \cup Evidence]
      /\ stolen \in BOOLEAN
  BY DEF Init
<1>5. issued \in 0 .. MaxCommands /\ faults \in 0 .. MaxFaults
  BY BoundsAssumption DEF Init
<1> QED
  BY <1>1, <1>2, <1>3, <1>4, <1>5, TypeParts DEF FilesOK

LEMMA CountersStay ==
    ASSUME TypeOK
    PROVE  /\ Fault => faults' \in 0 .. MaxFaults
           /\ \A p \in Procs, c \in Commands, label \in Labels :
                 Issue(p, c, label) => issued' \in 0 .. MaxCommands
BY BoundsAssumption DEF TypeOK, Fault, Issue

LEMMA CommandOf ==
    ASSUME TypeOK, NEW p \in Procs
    PROVE  /\ pc[p] \in StartLabels => /\ cmd[p].op = "start" /\ cmd[p].task \in Tasks
                                       /\ cmd[p].branch \in Branches /\ cmd[p].owned \in Claims
           /\ pc[p] \in FinishLabels => cmd[p].op = "finish" /\ cmd[p].task \in Tasks
           /\ pc[p] \in HandoffLabels => /\ cmd[p].op = "handoff" /\ cmd[p].task \in Tasks
                                         /\ cmd[p].note \in Notes
           /\ pc[p] \in {"inspect", "finish"} =>
                 lane[p] # NoLane /\ lane[p].branch \in Branches /\ lane[p].owned \in Claims
           /\ pc[p] \in {"existing", "store"} =>
                 evidence[p].key \in Keys /\ evidence[p].value \in Evidence
<1>1. cmd[p] \in Commands /\ lane[p] \in Lanes /\ evidence[p] \in Findings /\ Fits(p)
  BY TypeParts DEF LocalsOK
<1> QED
  BY <1>1, CommandFacts, LaneFacts, EvidenceFacts
     DEF Fits, StartLabels, FinishLabels, HandoffLabels

LEMMA TypeStep == TypeOK /\ [Next]_vars => TypeOK'
<1> SUFFICES ASSUME TypeOK, [Next]_vars PROVE TypeOK'
  OBVIOUS
<1> USE DEF lockVars, laneVars, handVars, bounds
<1>0. LocalsOK /\ FilesOK
  BY TypeParts
<1>p. ASSUME NEW p \in Procs
      PROVE  /\ pc[p] \in {"record"} => cmd[p].op \in {"start", "finish"}
             /\ pc[p] \in LockLabels => cmd[p].op \in {"start", "finish"}
             /\ pc[p] \in StartLabels => cmd[p].op = "start"
             /\ pc[p] \in FinishLabels => cmd[p].op = "finish"
             /\ pc[p] \in HandoffLabels => cmd[p].op = "handoff"
             /\ pc[p] \in {"inspect", "finish"} => lane[p] # NoLane
             /\ pc[p] \in {"existing", "store"} => evidence[p] # NoFinding
  BY <1>0 DEF LocalsOK, Fits, LockLabels
<1>1. ASSUME NEW p \in Procs, NEW s \in Starts, StartLane(p, s[1], s[2], s[3]) PROVE TypeOK'
  <2> DEFINE c == [op |-> "start", task |-> s[1], branch |-> <<s[2], s[1]>>, owned |-> s[3]]
  <2>1. c \in Commands /\ c.op = "start"
    BY CommandFacts
  <2> HIDE DEF c
  <2>2. Issue(p, c, "create") /\ UNCHANGED <<faults, probe, lane, evidence, lockVars, laneVars, handVars>>
    BY <1>1 DEF StartLane, Locking, c
  <2>3. lane[p] \in Lanes /\ lane' = [lane EXCEPT ![p] = lane[p]]
    BY <1>0, <2>2 DEF LocalsOK
  <2>4. LocalsOK'
    BY <1>0, <2>1, <2>2, <2>3, IssueKeeps
  <2> QED
    BY <1>0, <2>1, <2>2, <2>4, CountersStay, TypeParts DEF FilesOK, Labels, Section
<1>2. ASSUME NEW p \in Procs, NEW t \in Tasks, FinishLane(p, t) PROVE TypeOK'
  <2> DEFINE c == [op |-> "finish", task |-> t]
  <2>1. c \in Commands /\ c.op = "finish"
    BY CommandFacts
  <2> HIDE DEF c
  <2>2. Issue(p, c, "create") /\ UNCHANGED <<faults, probe, lane, evidence, lockVars, laneVars, handVars>>
    BY <1>2 DEF FinishLane, Locking, c
  <2>3. lane[p] \in Lanes /\ lane' = [lane EXCEPT ![p] = lane[p]]
    BY <1>0, <2>2 DEF LocalsOK
  <2>4. LocalsOK'
    BY <1>0, <2>1, <2>2, <2>3, IssueKeeps
  <2> QED
    BY <1>0, <2>1, <2>2, <2>4, CountersStay, TypeParts DEF FilesOK, Labels, Section
<1>3. ASSUME NEW p \in Procs, NEW t \in Tasks, NEW n \in Notes, HandoffLane(p, t, n) PROVE TypeOK'
  <2> DEFINE c == [op |-> "handoff", task |-> t, note |-> n]
  <2>1. c \in Commands /\ c.op = "handoff"
    BY CommandFacts
  <2> HIDE DEF c
  <2>2. /\ Issue(p, c, "inspect") /\ Active(t) /\ lane' = [lane EXCEPT ![p] = manifests[t]]
        /\ UNCHANGED <<faults, probe, evidence, lockVars, laneVars, handVars>>
    BY <1>3 DEF HandoffLane, c
  <2>3. manifests[t] \in Lanes /\ manifests[t] # NoLane
    BY <1>0, <2>2, LaneFacts DEF FilesOK, Active
  <2>4. LocalsOK'
    BY <1>0, <2>1, <2>2, <2>3, IssueKeeps
  <2> QED
    BY <1>0, <2>1, <2>2, <2>4, CountersStay, TypeParts DEF FilesOK, Labels, Section
<1>4. ASSUME NEW p \in Procs, CreateLock(p) PROVE TypeOK'
  <2>1. LocalsOK'
    BY <1>0, <1>4, <1>p, GotoKeeps
       DEF CreateLock, Labels, Section, StartLabels, FinishLabels, HandoffLabels, LockLabels
  <2>2. lock' \in Locks
    BY <1>4, LockFacts DEF CreateLock
  <2> QED
    BY <1>0, <1>4, <2>1, <2>2, TypeParts DEF FilesOK, CreateLock
<1>5. ASSUME NEW p \in Procs, LockExists(p) PROVE TypeOK'
  <2>1. LocalsOK'
    BY <1>0, <1>5, <1>p, GotoKeeps, LeaveKeeps
       DEF LockExists, Exit, Labels, Section, StartLabels, FinishLabels, HandoffLabels, LockLabels
  <2> QED
    BY <1>0, <1>5, <2>1, TypeParts DEF FilesOK, LockExists
<1>6. ASSUME NEW p \in Procs, ProbeLock(p) PROVE TypeOK'
  <2>1. CASE LockIsStale
    <3>1. Observed \in Causes
      BY DEF Observed, Causes
    <3> HIDE DEF Observed
    <3>2. /\ pc[p] = "probe" /\ probe' = [probe EXCEPT ![p] = Observed]
          /\ pc' = [pc EXCEPT ![p] = "unlink"] /\ UNCHANGED <<cmd, lane, evidence>>
      BY <1>6, <2>1 DEF ProbeLock, Goto
    <3>3. probe' \in [Procs -> Causes] /\ pc' \in [Procs -> Labels]
      BY <1>0, <3>1, <3>2 DEF LocalsOK, Labels
    <3>4. ASSUME NEW q \in Procs PROVE Fits(q)'
      BY <1>0, <1>p, <3>2
         DEF LocalsOK, Fits, StartLabels, FinishLabels, HandoffLabels, LockLabels
    <3>5. LocalsOK'
      BY <1>0, <3>2, <3>3, <3>4 DEF LocalsOK
    <3> QED
      BY <1>0, <1>6, <3>5, TypeParts DEF FilesOK, ProbeLock
  <2>2. CASE ~LockIsStale
    <3>1. LocalsOK'
      BY <1>0, <1>6, <2>2, LeaveKeeps DEF ProbeLock, Exit
    <3> QED
      BY <1>0, <1>6, <3>1, TypeParts DEF FilesOK, ProbeLock
  <2> QED
    BY <2>1, <2>2
<1>7. ASSUME NEW p \in Procs, UnlinkStale(p) PROVE TypeOK'
  <2>1. LocalsOK'
    BY <1>0, <1>7, <1>p, GotoKeeps
       DEF UnlinkStale, Labels, Section, StartLabels, FinishLabels, HandoffLabels, LockLabels
  <2>2. lock' \in Locks /\ stolen' \in BOOLEAN
    BY <1>7, LockFacts DEF UnlinkStale
  <2> QED
    BY <1>0, <1>7, <2>1, <2>2, TypeParts DEF FilesOK, UnlinkStale
<1>8. ASSUME NEW p \in Procs, RecordHolder(p) PROVE TypeOK'
  <2>1. LocalsOK'
    BY <1>0, <1>8, <1>p, GotoKeeps
       DEF RecordHolder, Labels, Section, StartLabels, FinishLabels, HandoffLabels, LockLabels
  <2>2. lock' \in Locks
    BY <1>0, <1>8, LockFacts DEF RecordHolder, FilesOK
  <2> QED
    BY <1>0, <1>8, <2>1, <2>2, TypeParts DEF FilesOK, RecordHolder
<1>9. ASSUME NEW p \in Procs, ReleaseLock(p) PROVE TypeOK'
  <2>1. LocalsOK'
    BY <1>0, <1>9, LeaveKeeps DEF ReleaseLock, Exit
  <2>2. lock' \in Locks /\ stolen' \in BOOLEAN
    BY <1>9, LockFacts DEF ReleaseLock
  <2> QED
    BY <1>0, <1>9, <2>1, <2>2, TypeParts DEF FilesOK, ReleaseLock
<1>10. ASSUME NEW p \in Procs, CheckLanes(p) PROVE TypeOK'
  <2>1. LocalsOK'
    BY <1>0, <1>10, <1>p, GotoKeeps
       DEF CheckLanes, Labels, Section, StartLabels, FinishLabels, HandoffLabels, LockLabels
  <2> QED
    BY <1>0, <1>10, <2>1, TypeParts DEF FilesOK, CheckLanes
<1>11. ASSUME NEW p \in Procs, AddWorktree(p) PROVE TypeOK'
  <2>1. LocalsOK'
    BY <1>0, <1>11, <1>p, GotoKeeps
       DEF AddWorktree, Labels, Section, StartLabels, FinishLabels, HandoffLabels, LockLabels
  <2>2. cmd[p].branch \in Branches
    BY <1>11, CommandOf DEF AddWorktree, StartLabels
  <2>3. heads' \in [Branches -> Shas]
    BY <1>0, <1>11, <2>2, BoundsAssumption DEF AddWorktree, FilesOK, Shas
  <2> QED
    BY <1>0, <1>11, <2>1, <2>2, <2>3, TypeParts DEF FilesOK, AddWorktree
<1>12. ASSUME NEW p \in Procs, WorktreeFails(p) PROVE TypeOK'
  <2>1. LocalsOK'
    BY <1>0, <1>12, <1>p, GotoKeeps
       DEF WorktreeFails, Labels, Section, StartLabels, FinishLabels, HandoffLabels, LockLabels
  <2> QED
    BY <1>0, <1>12, <2>1, CountersStay, TypeParts DEF FilesOK, WorktreeFails, NoFault
<1>28. ASSUME NEW p \in Procs, WorktreeBreaksOff(p) PROVE TypeOK'
  <2>1. LocalsOK'
    <3>1. CASE Goto(p, "release") /\ UNCHANGED locals
      BY <1>0, <1>28, <1>p, <3>1, GotoKeeps
         DEF WorktreeBreaksOff, Labels, Section, StartLabels, FinishLabels, HandoffLabels,
             LockLabels
    <3>2. CASE Leave(p, "dead")
      BY <1>0, <3>2, LeaveKeeps
    <3> QED
      BY <1>28, <3>1, <3>2 DEF WorktreeBreaksOff
  <2>2. cmd[p].branch \in Branches
    BY <1>28, CommandOf DEF WorktreeBreaksOff, StartLabels
  <2>3. heads' \in [Branches -> Shas]
    BY <1>0, <1>28, <2>2, BoundsAssumption DEF WorktreeBreaksOff, FilesOK, Shas
  <2>4. branches' \subseteq Branches /\ halfAdded' \subseteq Branches
    BY <1>0, <1>28, <2>2 DEF WorktreeBreaksOff, FilesOK
  <2>5. Fault /\ UNCHANGED <<lock, stolen, issued, manifests, served, strayed,
                             made, handoffs, overlapped>>
    BY <1>28 DEF WorktreeBreaksOff
  <2> QED
    BY <1>0, <2>1, <2>3, <2>4, <2>5, CountersStay, TypeParts DEF FilesOK
<1>13. ASSUME NEW p \in Procs, WriteManifest(p) PROVE TypeOK'
  <2>1. LocalsOK'
    BY <1>0, <1>13, <1>p, GotoKeeps
       DEF WriteManifest, Labels, Section, StartLabels, FinishLabels, HandoffLabels, LockLabels
  <2>2. cmd[p].branch \in Branches /\ cmd[p].owned \in Claims /\ cmd[p].task \in Tasks
    BY <1>13, CommandOf DEF WriteManifest, StartLabels
  <2>3. manifests' \in [Tasks -> Lanes]
    BY <1>0, <1>13, <2>2, LaneFacts DEF WriteManifest, FilesOK
  <2>4. faults' \in 0 .. MaxFaults
    BY <1>0, <1>13, CountersStay DEF WriteManifest, NoFault, FilesOK
  <2>5. served' \subseteq Branches /\ strayed' \subseteq Branches
    BY <1>0, <1>13, <2>2 DEF WriteManifest, FilesOK
  <2> QED
    BY <1>0, <1>13, <2>1, <2>3, <2>4, <2>5, TypeParts DEF FilesOK, WriteManifest
<1>14. ASSUME NEW p \in Procs, ManifestFails(p) PROVE TypeOK'
  <2>1. LocalsOK'
    BY <1>0, <1>14, <1>p, GotoKeeps
       DEF ManifestFails, Labels, Section, StartLabels, FinishLabels, HandoffLabels, LockLabels
  <2> QED
    BY <1>0, <1>14, <2>1, CountersStay, TypeParts DEF FilesOK, ManifestFails
<1>15. ASSUME NEW p \in Procs, Rollback(p) PROVE TypeOK'
  <2>1. LocalsOK'
    BY <1>0, <1>15, <1>p, GotoKeeps
       DEF Rollback, Labels, Section, StartLabels, FinishLabels, HandoffLabels, LockLabels
  <2>2. cmd[p].branch \in Branches
    BY <1>15, CommandOf DEF Rollback, StartLabels
  <2>3. faults' \in 0 .. MaxFaults
    BY <1>0, <1>15, CountersStay DEF Rollback, NoFault, FilesOK
  <2>4. branches' \subseteq Branches /\ strayed' \subseteq Branches
    BY <1>0, <1>15, <2>2 DEF Rollback, FilesOK
  <2> QED
    BY <1>0, <1>15, <2>1, <2>3, <2>4, TypeParts DEF FilesOK, Rollback
<1>16. ASSUME NEW p \in Procs, LookupLane(p) PROVE TypeOK'
  <2>1. LocalsOK'
    <3>1. CASE Active(cmd[p].task)
      <4>1. cmd[p].task \in Tasks
        BY <1>16, CommandOf DEF LookupLane, FinishLabels
      <4>2. manifests[cmd[p].task] \in Lanes /\ manifests[cmd[p].task] # NoLane
        BY <1>0, <3>1, <4>1, LaneFacts DEF FilesOK, Active
      <4>3. /\ pc[p] = "lookup" /\ lane' = [lane EXCEPT ![p] = manifests[cmd[p].task]]
            /\ pc' = [pc EXCEPT ![p] = "finish"] /\ UNCHANGED <<cmd, probe, evidence>>
        BY <1>16, <3>1 DEF LookupLane, Goto
      <4>4. lane' \in [Procs -> Lanes] /\ pc' \in [Procs -> Labels]
        BY <1>0, <4>2, <4>3 DEF LocalsOK, Labels, Section
      <4>5. lane'[p] # NoLane /\ pc'[p] = "finish" /\ cmd'[p].op = "finish"
        BY <1>0, <1>p, <4>2, <4>3 DEF LocalsOK, FinishLabels
      <4>6. \A q \in Procs \ {p} : pc'[q] = pc[q] /\ lane'[q] = lane[q]
        BY <1>0, <4>3 DEF LocalsOK
      <4>7. ASSUME NEW q \in Procs PROVE Fits(q)'
        BY <1>0, <4>3, <4>5, <4>6
           DEF LocalsOK, Fits, StartLabels, FinishLabels, HandoffLabels, LockLabels
      <4> QED
        BY <1>0, <4>3, <4>4, <4>7 DEF LocalsOK
    <3>2. CASE ~Active(cmd[p].task)
      BY <1>0, <1>16, <1>p, <3>2, GotoKeeps
         DEF LookupLane, locals, Labels, Section, StartLabels, FinishLabels, HandoffLabels, LockLabels
    <3> QED
      BY <3>1, <3>2
  <2> QED
    BY <1>0, <1>16, <2>1, TypeParts DEF FilesOK, LookupLane
<1>17. ASSUME NEW p \in Procs, WriteFinished(p) PROVE TypeOK'
  <2>1. LocalsOK'
    BY <1>0, <1>17, <1>p, GotoKeeps
       DEF WriteFinished, Labels, Section, StartLabels, FinishLabels, HandoffLabels, LockLabels
  <2>2. lane[p] \in Lanes /\ lane[p] # NoLane
    BY <1>0, <1>17, <1>p DEF LocalsOK, WriteFinished
  <2>3. manifests' \in [Tasks -> Lanes]
    BY <1>0, <1>17, <2>2, LaneFacts DEF WriteFinished, FilesOK
  <2> QED
    BY <1>0, <1>17, <2>1, <2>3, TypeParts DEF FilesOK, WriteFinished
<1>18. ASSUME NEW p \in Procs, FinishFails(p) PROVE TypeOK'
  <2>1. LocalsOK'
    BY <1>0, <1>18, <1>p, GotoKeeps
       DEF FinishFails, Labels, Section, StartLabels, FinishLabels, HandoffLabels, LockLabels
  <2> QED
    BY <1>0, <1>18, <2>1, CountersStay, TypeParts DEF FilesOK, FinishFails
<1>19. ASSUME NEW p \in Procs, Inspect(p) PROVE TypeOK'
  <2> DEFINE e == [stored |-> TRUE, branch |-> lane[p].branch, owned |-> lane[p].owned,
                   note |-> cmd[p].note]
             k == <<cmd[p].task, heads[lane[p].branch]>>
             f == [found |-> TRUE, key |-> k, value |-> e]
  <2>1. e \in Evidence /\ k \in Keys
    <3>1. /\ lane[p].branch \in Branches /\ lane[p].owned \in Claims
          /\ cmd[p].note \in Notes /\ cmd[p].task \in Tasks
      BY <1>19, CommandOf DEF Inspect, HandoffLabels
    <3>2. heads[lane[p].branch] \in Shas
      BY <1>0, <3>1 DEF FilesOK
    <3> QED
      BY <3>1, <3>2, EvidenceFacts
  <2>2. f \in Findings /\ f # NoFinding
    BY <2>1, EvidenceFacts
  <2>3. /\ pc[p] = "inspect" /\ evidence' = [evidence EXCEPT ![p] = f]
        /\ pc' = [pc EXCEPT ![p] = "existing"] /\ UNCHANGED <<cmd, probe, lane>>
    BY <1>19 DEF Inspect, Goto
  <2> HIDE DEF f
  <2>4. evidence' \in [Procs -> Findings] /\ pc' \in [Procs -> Labels]
    BY <1>0, <2>2, <2>3 DEF LocalsOK, Labels
  <2>5. evidence'[p] # NoFinding /\ pc'[p] = "existing" /\ cmd'[p].op = "handoff"
    BY <1>0, <1>p, <2>2, <2>3 DEF LocalsOK, HandoffLabels
  <2>6. \A q \in Procs \ {p} : pc'[q] = pc[q] /\ evidence'[q] = evidence[q]
    BY <1>0, <2>3 DEF LocalsOK
  <2>7. ASSUME NEW q \in Procs PROVE Fits(q)'
    BY <1>0, <2>3, <2>5, <2>6
       DEF LocalsOK, Fits, StartLabels, FinishLabels, HandoffLabels, LockLabels
  <2>8. LocalsOK'
    BY <1>0, <2>3, <2>4, <2>7 DEF LocalsOK
  <2> QED
    BY <1>0, <1>19, <2>8, TypeParts DEF FilesOK, Inspect
<1>20. ASSUME NEW p \in Procs, HandoffRefused(p) \/ HandoffExists(p) PROVE TypeOK'
  <2>1. LocalsOK'
    BY <1>0, <1>20, LeaveKeeps DEF HandoffRefused, HandoffExists, Exit
  <2> QED
    BY <1>0, <1>20, <2>1, TypeParts DEF FilesOK, HandoffRefused, HandoffExists
<1>21. ASSUME NEW p \in Procs, FindNothing(p) PROVE TypeOK'
  <2>1. LocalsOK'
    BY <1>0, <1>21, <1>p, GotoKeeps
       DEF FindNothing, Labels, Section, StartLabels, FinishLabels, HandoffLabels, LockLabels
  <2>2. evidence[p].key \in Keys
    BY <1>21, CommandOf DEF FindNothing
  <2>3. overlapped' \subseteq Keys
    BY <1>0, <1>21, <2>2 DEF FindNothing, FilesOK
  <2> QED
    BY <1>0, <1>21, <2>1, <2>3, TypeParts DEF FilesOK, FindNothing
<1>22. ASSUME NEW p \in Procs, StoreEvidence(p) PROVE TypeOK'
  <2>1. LocalsOK'
    BY <1>0, <1>22, LeaveKeeps DEF StoreEvidence, Exit
  <2>2. evidence[p].value \in Evidence
    BY <1>22, CommandOf DEF StoreEvidence
  <2>3. handoffs' \in [Keys -> {NoEvidence} \cup Evidence]
    BY <1>0, <1>22, <2>2 DEF StoreEvidence, FilesOK
  <2> QED
    BY <1>0, <1>22, <2>1, <2>3, TypeParts DEF FilesOK, StoreEvidence
<1>23. ASSUME NEW p \in Procs, Crash(p) PROVE TypeOK'
  <2>1. LocalsOK'
    BY <1>0, <1>23, LeaveKeeps DEF Crash
  <2>2. strayed' \subseteq Branches
    BY <1>0, <1>23, CommandOf DEF Crash, FilesOK, StartLabels
  <2> QED
    BY <1>0, <1>23, <2>1, <2>2, CountersStay, TypeParts DEF FilesOK, Crash
<1>24. ASSUME ForceUnlock \/ LockAges PROVE TypeOK'
  <2>1. LocalsOK'
    BY <1>0, <1>24 DEF LocalsOK, Fits, ForceUnlock, LockAges, locals
  <2>2. lock' \in Locks
    <3>1. CASE ForceUnlock
      BY <3>1, LockFacts DEF ForceUnlock
    <3>2. CASE LockAges
      <4>1. lock \in Locks /\ lock.held /\ lock' = [lock EXCEPT !.aged = TRUE]
        BY <1>0, <3>2 DEF LockAges, FilesOK
      <4> QED
        BY <4>1, LockFacts
    <3> QED
      BY <1>24, <3>1, <3>2
  <2>3. stolen' \in BOOLEAN
    <3>1. CASE ForceUnlock
      BY <3>1 DEF ForceUnlock
    <3>2. CASE LockAges
      <4>1. stolen' = stolen /\ stolen \in BOOLEAN
        BY <1>0, <3>2 DEF LockAges, FilesOK
      <4> QED
        BY <4>1
    <3> QED
      BY <1>24, <3>1, <3>2
  <2> QED
    BY <1>0, <1>24, <2>1, <2>2, <2>3, CountersStay, TypeParts DEF FilesOK, ForceUnlock, LockAges
<1>25. ASSUME NEW b \in Branches, Commit(b) PROVE TypeOK'
  <2>1. LocalsOK'
    BY <1>0, <1>25 DEF LocalsOK, Fits, Commit, locals
  <2>2. made' \in Shas /\ heads' \in [Branches -> Shas]
    BY <1>0, <1>25, BoundsAssumption DEF FilesOK, Commit, Shas
  <2> QED
    BY <1>0, <1>25, <2>1, <2>2, TypeParts DEF FilesOK, Commit
<1>26. ASSUME NEW b \in Branches, DeleteBranch(b) PROVE TypeOK'
  <2>1. LocalsOK'
    BY <1>0, <1>26 DEF LocalsOK, Fits, DeleteBranch, locals
  <2>2. branches' \subseteq Branches
    BY <1>0, <1>26 DEF FilesOK, DeleteBranch
  <2> QED
    BY <1>0, <1>26, <2>1, <2>2, CountersStay, TypeParts DEF FilesOK, DeleteBranch
<1>27. CASE UNCHANGED vars
  <2>1. LocalsOK'
    BY <1>0, <1>27 DEF LocalsOK, Fits, vars
  <2> QED
    BY <1>0, <1>27, <2>1, TypeParts DEF FilesOK, vars
<1> QED
  BY <1>1, <1>2, <1>3, <1>4, <1>5, <1>6, <1>7, <1>8, <1>9, <1>10, <1>11, <1>12, <1>13, <1>14,
     <1>15, <1>16, <1>17, <1>18, <1>19, <1>20, <1>21, <1>22, <1>23, <1>24, <1>25, <1>26, <1>27,
     <1>28
     DEF Next, ProcStep

(* The lock file, the locals of every process, the manifests, branches and   *)
(* handoffs have their shape, and a process runs the command its place in    *)
(* the code belongs to, for any number of processes, tasks and starts.       *)
THEOREM TypeCorrect == Spec => []TypeOK
<1>1. Init => TypeOK
  BY TypeInit
<1>2. TypeOK /\ [Next]_vars => TypeOK'
  BY TypeStep
<1> QED
  BY <1>1, <1>2, PTL DEF Spec

------------------------------------------------------------------------------
(* What a step may do, in the terms of the invariants below. *)

Starting(p) == pc[p] \in {"manifest", "rollback"}

\* Another process does not notice a step, except through the files.
Frame(p) ==
    \A q \in Procs \ {p} :
        /\ pc'[q] = pc[q] /\ cmd'[q] = cmd[q] /\ probe'[q] = probe[q]
        /\ lane'[q] = lane[q] /\ evidence'[q] = evidence[q]

\* A step of p that changes no file but, perhaps, the lock.
Quiet(p) ==
    /\ UNCHANGED <<manifests, branches, served, strayed, halfAdded, handoffs, overlapped>>
    /\ stolen => stolen'
    /\ Frame(p)
    /\ pc'[p] # "manifest" /\ pc'[p] # "store"
    /\ pc'[p] = "add" => ~Refused(cmd[p]) /\ cmd'[p] = cmd[p]
    /\ pc'[p] = "finish" => lane'[p] = manifests[cmd[p].task] /\ cmd'[p] = cmd[p]
    /\ pc'[p] = "unlink" => probe'[p] # "fresh"
    /\ Starting(p)' <=> Starting(p)
    /\ Starting(p) => cmd'[p] = cmd[p]

LEMMA GotoFrame ==
    ASSUME TypeOK, NEW p \in Procs, NEW label, Goto(p, label), UNCHANGED locals
    PROVE  /\ Frame(p) /\ pc'[p] = label
           /\ cmd'[p] = cmd[p] /\ lane'[p] = lane[p] /\ evidence'[p] = evidence[p]
BY DEF TypeOK, Goto, locals, Frame

LEMMA LeaveFrame ==
    ASSUME TypeOK, NEW p \in Procs, NEW label, Leave(p, label)
    PROVE  Frame(p) /\ pc'[p] = label
BY DEF TypeOK, Leave, Goto, Frame

LEMMA QuietSteps ==
    ASSUME TypeOK, NEW p \in Procs
    PROVE  /\ \A s \in Starts : StartLane(p, s[1], s[2], s[3]) => Quiet(p)
           /\ \A t \in Tasks : FinishLane(p, t) => Quiet(p)
           /\ \A t \in Tasks, n \in Notes : HandoffLane(p, t, n) => Quiet(p)
           /\ LockExists(p) \/ ProbeLock(p) \/ CheckLanes(p) => Quiet(p)
           /\ WorktreeFails(p) \/ ManifestFails(p) \/ LookupLane(p) \/ FinishFails(p) => Quiet(p)
           /\ Inspect(p) \/ HandoffRefused(p) \/ HandoffExists(p) => Quiet(p)
           /\ CreateLock(p) \/ UnlinkStale(p) \/ RecordHolder(p) \/ ReleaseLock(p) => Quiet(p)
<1> USE DEF lockVars, laneVars, handVars, bounds
<1>1. ASSUME NEW c, NEW label \in {"create", "inspect"}, Issue(p, c, label),
             probe' = probe, evidence' = evidence, NEW l, lane' = [lane EXCEPT ![p] = l],
             UNCHANGED <<lockVars, laneVars, handVars>>
      PROVE  Quiet(p)
  <2>1. Frame(p) /\ pc'[p] = label /\ pc[p] = "idle"
    BY <1>1 DEF TypeOK, Issue, Goto, Frame
  <2> QED
    BY <1>1, <2>1 DEF Quiet, Starting
<1>2. lane = [lane EXCEPT ![p] = lane[p]]
  BY DEF TypeOK
<1>3. ASSUME NEW s \in Starts, StartLane(p, s[1], s[2], s[3]) PROVE Quiet(p)
  <2> DEFINE c == [op |-> "start", task |-> s[1], branch |-> <<s[2], s[1]>>, owned |-> s[3]]
  <2> HIDE DEF c
  <2>1. Issue(p, c, "create") /\ UNCHANGED <<faults, probe, lane, evidence, lockVars, laneVars, handVars>>
    BY <1>3 DEF StartLane, Locking, c
  <2> QED
    BY <1>1, <1>2, <2>1
<1>4. ASSUME NEW t \in Tasks, FinishLane(p, t) PROVE Quiet(p)
  <2> DEFINE c == [op |-> "finish", task |-> t]
  <2> HIDE DEF c
  <2>1. Issue(p, c, "create") /\ UNCHANGED <<faults, probe, lane, evidence, lockVars, laneVars, handVars>>
    BY <1>4 DEF FinishLane, Locking, c
  <2> QED
    BY <1>1, <1>2, <2>1
<1>5. ASSUME NEW t \in Tasks, NEW n \in Notes, HandoffLane(p, t, n) PROVE Quiet(p)
  <2> DEFINE c == [op |-> "handoff", task |-> t, note |-> n]
  <2> HIDE DEF c
  <2>1. /\ Issue(p, c, "inspect") /\ lane' = [lane EXCEPT ![p] = manifests[t]]
        /\ UNCHANGED <<faults, probe, evidence, lockVars, laneVars, handVars>>
    BY <1>5 DEF HandoffLane, c
  <2> QED
    BY <1>1, <2>1
<1>6. ASSUME LockExists(p) PROVE Quiet(p)
  <2>1. Frame(p) /\ pc'[p] \in {"probe", "idle"} /\ pc[p] = "create"
    BY <1>6, GotoFrame, LeaveFrame DEF LockExists, Exit
  <2> QED
    BY <1>6, <2>1 DEF Quiet, Starting, LockExists
<1>7. ASSUME ProbeLock(p) PROVE Quiet(p)
  <2>1. CASE LockIsStale
    <3>1. Observed # "fresh"
      BY <2>1 DEF LockIsStale, Observed
    <3> HIDE DEF Observed
    <3>2. /\ Frame(p) /\ pc'[p] = "unlink" /\ pc[p] = "probe" /\ probe'[p] = Observed
      BY <1>7, <2>1 DEF ProbeLock, Goto, Frame, TypeOK
    <3> QED
      BY <1>7, <3>1, <3>2 DEF Quiet, Starting, ProbeLock
  <2>2. CASE ~LockIsStale
    <3>1. Frame(p) /\ pc'[p] = "idle" /\ pc[p] = "probe"
      BY <1>7, <2>2, LeaveFrame DEF ProbeLock, Exit
    <3> QED
      BY <1>7, <3>1 DEF Quiet, Starting, ProbeLock
  <2> QED
    BY <2>1, <2>2
<1>8. ASSUME CheckLanes(p) PROVE Quiet(p)
  <2>1. CASE Refused(cmd[p])
    <3>1. Frame(p) /\ pc'[p] = "release" /\ pc[p] = "check"
      BY <1>8, <2>1, GotoFrame DEF CheckLanes
    <3> QED
      BY <1>8, <3>1 DEF Quiet, Starting, CheckLanes
  <2>2. CASE ~Refused(cmd[p])
    <3>1. Frame(p) /\ pc'[p] = "add" /\ pc[p] = "check" /\ cmd'[p] = cmd[p]
      BY <1>8, <2>2, GotoFrame DEF CheckLanes
    <3> QED
      BY <1>8, <2>2, <3>1 DEF Quiet, Starting, CheckLanes
  <2> QED
    BY <2>1, <2>2
<1>9. ASSUME WorktreeFails(p) \/ ManifestFails(p) \/ FinishFails(p) PROVE Quiet(p)
  <2>1. /\ Frame(p) /\ cmd'[p] = cmd[p] /\ UNCHANGED <<lockVars, laneVars, handVars>>
        /\ \/ pc'[p] = "release" /\ pc[p] \in {"add", "finish"}
           \/ pc'[p] = "rollback" /\ pc[p] = "manifest"
    BY <1>9, GotoFrame DEF WorktreeFails, ManifestFails, FinishFails
  <2> QED
    BY <2>1 DEF Quiet, Starting
<1>10. ASSUME LookupLane(p) PROVE Quiet(p)
  <2>1. CASE Active(cmd[p].task)
    <3>1. /\ Frame(p) /\ pc'[p] = "finish" /\ pc[p] = "lookup" /\ cmd'[p] = cmd[p]
          /\ lane'[p] = manifests[cmd[p].task]
      BY <1>10, <2>1 DEF LookupLane, Goto, Frame, TypeOK
    <3> QED
      BY <1>10, <3>1 DEF Quiet, Starting, LookupLane
  <2>2. CASE ~Active(cmd[p].task)
    <3>1. Frame(p) /\ pc'[p] = "release" /\ pc[p] = "lookup"
      BY <1>10, <2>2, GotoFrame DEF LookupLane, locals
    <3> QED
      BY <1>10, <3>1 DEF Quiet, Starting, LookupLane
  <2> QED
    BY <2>1, <2>2
<1>11. ASSUME Inspect(p) PROVE Quiet(p)
  <2>1. Frame(p) /\ pc'[p] = "existing" /\ pc[p] = "inspect"
    BY <1>11 DEF Inspect, Goto, Frame, TypeOK
  <2> QED
    BY <1>11, <2>1 DEF Quiet, Starting, Inspect
<1>12. ASSUME HandoffRefused(p) \/ HandoffExists(p) PROVE Quiet(p)
  <2>1. Frame(p) /\ pc'[p] = "idle" /\ pc[p] \in {"inspect", "existing"}
    BY <1>12, LeaveFrame DEF HandoffRefused, HandoffExists, Exit
  <2> QED
    BY <1>12, <2>1 DEF Quiet, Starting, HandoffRefused, HandoffExists
<1>13. ASSUME CreateLock(p) \/ RecordHolder(p) PROVE Quiet(p)
  <2>1. /\ Frame(p) /\ pc'[p] \in {"record", "check", "lookup"} /\ pc[p] \in {"create", "record"}
        /\ UNCHANGED <<stolen, laneVars, handVars>>
    BY <1>13, GotoFrame DEF CreateLock, RecordHolder
  <2> QED
    BY <2>1 DEF Quiet, Starting
<1>14. ASSUME UnlinkStale(p) PROVE Quiet(p)
  <2>1. Frame(p) /\ pc'[p] = "create" /\ pc[p] = "unlink"
    BY <1>14, GotoFrame DEF UnlinkStale
  <2>2. stolen => stolen'
    BY <1>14, Zenon DEF UnlinkStale
  <2> QED
    BY <1>14, <2>1, <2>2 DEF Quiet, Starting, UnlinkStale
<1>15. ASSUME ReleaseLock(p) PROVE Quiet(p)
  <2>1. Frame(p) /\ pc'[p] = "idle" /\ pc[p] = "release"
    BY <1>15, LeaveFrame DEF ReleaseLock, Exit
  <2>2. stolen => stolen'
    BY <1>15, Zenon DEF ReleaseLock
  <2> QED
    BY <1>15, <2>1, <2>2 DEF Quiet, Starting, ReleaseLock
<1> QED
  BY <1>3, <1>4, <1>5, <1>6, <1>7, <1>8, <1>9, <1>10, <1>11, <1>12, <1>13, <1>14, <1>15

\* A step that no process takes and that changes at most the lock or a commit.
Still ==
    /\ UNCHANGED <<manifests, branches, served, strayed, halfAdded, handoffs, overlapped>>
    /\ UNCHANGED <<pc, cmd, probe, lane, evidence>>
    /\ stolen => stolen'

Loud(p) ==
    \/ AddWorktree(p) \/ WriteManifest(p) \/ Rollback(p) \/ WriteFinished(p)
    \/ FindNothing(p) \/ StoreEvidence(p) \/ Crash(p) \/ WorktreeBreaksOff(p)

LEMMA StepCases ==
    ASSUME TypeOK, [Next]_vars
    PROVE  \/ \E p \in Procs : Quiet(p) \/ Loud(p)
           \/ \E b \in Branches : DeleteBranch(b)
           \/ Still
<1> USE DEF lockVars, laneVars, handVars, bounds
<1>1. CASE \E p \in Procs : ProcStep(p)
  BY <1>1, QuietSteps DEF ProcStep, Loud
<1>2. CASE ForceUnlock
  <2>1. stolen => stolen'
    BY <1>2, Zenon DEF ForceUnlock
  <2> QED
    BY <1>2, <2>1 DEF ForceUnlock, Still, locals
<1>3. CASE LockAges
  BY <1>3 DEF LockAges, Still, locals
<1>4. CASE \E b \in Branches : Commit(b)
  BY <1>4 DEF Commit, Still, locals
<1>5. CASE UNCHANGED vars
  BY <1>5 DEF vars, Still
<1> QED
  BY <1>1, <1>2, <1>3, <1>4, <1>5 DEF Next

(* Loud steps of p, as seen by the invariants. *)
LEMMA LoudFrames ==
    ASSUME TypeOK, NEW p \in Procs
    PROVE  /\ Loud(p) => Frame(p)
           /\ AddWorktree(p) => pc[p] = "add" /\ pc'[p] = "manifest" /\ cmd'[p] = cmd[p]
           /\ WriteManifest(p) => /\ pc[p] = "manifest" /\ cmd'[p] = cmd[p]
                                  /\ \/ pc'[p] = "release"
                                     \/ pc'[p] = "rollback" /\ cmd[p].branch \in strayed'
           /\ Rollback(p) => pc[p] = "rollback" /\ pc'[p] = "release" /\ cmd'[p] = cmd[p]
           /\ WriteFinished(p) => pc[p] = "finish" /\ pc'[p] = "release" /\ cmd'[p] = cmd[p]
           /\ FindNothing(p) => /\ pc[p] = "existing" /\ pc'[p] = "store"
                                /\ cmd'[p] = cmd[p] /\ evidence'[p] = evidence[p]
           /\ StoreEvidence(p) => pc[p] = "store" /\ pc'[p] = "idle"
           /\ Crash(p) => pc'[p] = "dead"
           /\ WorktreeBreaksOff(p) => pc[p] = "add" /\ pc'[p] \in {"release", "dead"}
<1>1. ASSUME AddWorktree(p)
      PROVE  Frame(p) /\ pc[p] = "add" /\ pc'[p] = "manifest" /\ cmd'[p] = cmd[p]
  BY <1>1, GotoFrame DEF AddWorktree
<1>2. ASSUME WriteManifest(p)
      PROVE  /\ Frame(p) /\ pc[p] = "manifest" /\ cmd'[p] = cmd[p]
             /\ \/ pc'[p] = "release"
                \/ pc'[p] = "rollback" /\ cmd[p].branch \in strayed'
  BY <1>2, GotoFrame DEF WriteManifest
<1>3. ASSUME Rollback(p)
      PROVE  Frame(p) /\ pc[p] = "rollback" /\ pc'[p] = "release" /\ cmd'[p] = cmd[p]
  BY <1>3, GotoFrame DEF Rollback
<1>4. ASSUME WriteFinished(p)
      PROVE  Frame(p) /\ pc[p] = "finish" /\ pc'[p] = "release" /\ cmd'[p] = cmd[p]
  BY <1>4, GotoFrame DEF WriteFinished
<1>5. ASSUME FindNothing(p)
      PROVE  /\ Frame(p) /\ pc[p] = "existing" /\ pc'[p] = "store"
             /\ cmd'[p] = cmd[p] /\ evidence'[p] = evidence[p]
  BY <1>5, GotoFrame DEF FindNothing
<1>6. ASSUME StoreEvidence(p)
      PROVE  Frame(p) /\ pc[p] = "store" /\ pc'[p] = "idle"
  BY <1>6, LeaveFrame DEF StoreEvidence, Exit
<1>7. ASSUME Crash(p) PROVE Frame(p) /\ pc'[p] = "dead"
  BY <1>7, LeaveFrame DEF Crash
<1>8. ASSUME WorktreeBreaksOff(p)
      PROVE  Frame(p) /\ pc[p] = "add" /\ pc'[p] \in {"release", "dead"}
  BY <1>8, GotoFrame, LeaveFrame DEF WorktreeBreaksOff
<1> QED
  BY <1>1, <1>2, <1>3, <1>4, <1>5, <1>6, <1>7, <1>8 DEF Loud

------------------------------------------------------------------------------
(* Who holds the lock.  Until a live holder loses its file, everybody in the *)
(* section is the holder: a removal is either of nothing, or of the lock of  *)
(* a dead process, or of one's own.                                          *)

ProbeOK == \A p \in Procs : pc[p] = "unlink" => probe[p] # "fresh"

HolderOK == ~stolen => \A p \in Procs : InSection(p) => lock.held /\ lock.holder = p

LEMMA ProbeStep == TypeOK /\ ProbeOK /\ [Next]_vars => ProbeOK'
<1> SUFFICES ASSUME TypeOK, ProbeOK, [Next]_vars, NEW q \in Procs, pc'[q] = "unlink"
             PROVE  probe'[q] # "fresh"
  BY DEF ProbeOK
<1>1. CASE \E p \in Procs : Quiet(p)
  BY <1>1 DEF Quiet, Frame, ProbeOK
<1>2. CASE \E p \in Procs : Loud(p)
  BY <1>2, LoudFrames DEF Loud, Frame, ProbeOK
<1>3. CASE \E b \in Branches : DeleteBranch(b)
  BY <1>3 DEF DeleteBranch, ProbeOK, locals
<1>4. CASE Still
  BY <1>4 DEF Still, ProbeOK
<1> QED
  BY <1>1, <1>2, <1>3, <1>4, StepCases

(* Outside the four steps of the lock, and the user's two, nobody enters the *)
(* section and the lock stays.                                               *)
LockKept ==
    /\ lock' = lock /\ stolen' = stolen
    /\ \A q \in Procs : InSection(q)' => InSection(q)

LEMMA LockKeptSteps ==
    ASSUME TypeOK, NEW p \in Procs, ProcStep(p)
    PROVE  LockKept \/ CreateLock(p) \/ UnlinkStale(p) \/ RecordHolder(p) \/ ReleaseLock(p)
<1> USE DEF lockVars, laneVars, handVars, bounds
<1>1. ASSUME NEW label, Leave(p, label), label \in {"idle", "dead"}, UNCHANGED lockVars
      PROVE  LockKept
  BY <1>1, LeaveFrame DEF LockKept, Frame, InSection, Section
<1>2. ASSUME NEW label, Goto(p, label), UNCHANGED lockVars, label \in Section => InSection(p)
      PROVE  LockKept
  BY <1>2 DEF LockKept, Goto, InSection, TypeOK
<1>3. CASE \E s \in Starts : StartLane(p, s[1], s[2], s[3])
  BY <1>3, <1>2 DEF StartLane, Locking, Issue, Section
<1>4. CASE \E t \in Tasks : FinishLane(p, t)
  BY <1>4, <1>2 DEF FinishLane, Locking, Issue, Section
<1>5. CASE \E t \in Tasks, n \in Notes : HandoffLane(p, t, n)
  BY <1>5, <1>2 DEF HandoffLane, Issue, Section
<1>6. CASE LockExists(p)
  BY <1>6, <1>1, <1>2 DEF LockExists, Exit, Section
<1>7. CASE ProbeLock(p)
  BY <1>7, <1>1, <1>2 DEF ProbeLock, Exit, Section
<1>8. CASE CheckLanes(p)
  BY <1>8, <1>2 DEF CheckLanes, InSection, Section
<1>9. CASE AddWorktree(p) \/ WorktreeFails(p)
  BY <1>9, <1>2 DEF AddWorktree, WorktreeFails, InSection, Section
<1>10. CASE WriteManifest(p)
  BY <1>10, <1>2 DEF WriteManifest, InSection, Section
<1>11. CASE ManifestFails(p) \/ Rollback(p)
  BY <1>11, <1>2 DEF ManifestFails, Rollback, InSection, Section
<1>12. CASE LookupLane(p)
  BY <1>12, <1>2 DEF LookupLane, InSection, Section
<1>13. CASE WriteFinished(p) \/ FinishFails(p)
  BY <1>13, <1>2 DEF WriteFinished, FinishFails, InSection, Section
<1>14. CASE Inspect(p) \/ FindNothing(p)
  BY <1>14, <1>2 DEF Inspect, FindNothing, Section
<1>15. CASE HandoffRefused(p) \/ HandoffExists(p) \/ StoreEvidence(p)
  BY <1>15, <1>1 DEF HandoffRefused, HandoffExists, StoreEvidence, Exit
<1>16. CASE Crash(p)
  BY <1>16, <1>1 DEF Crash
<1>17. CASE WorktreeBreaksOff(p)
  BY <1>17, <1>1, <1>2 DEF WorktreeBreaksOff, InSection, Section
<1> QED
  BY <1>3, <1>4, <1>5, <1>6, <1>7, <1>8, <1>9, <1>10, <1>11, <1>12, <1>13, <1>14, <1>15, <1>16,
     <1>17 DEF ProcStep

LEMMA HolderStep == TypeOK /\ ProbeOK /\ HolderOK /\ [Next]_vars => HolderOK'
<1> SUFFICES ASSUME TypeOK, ProbeOK, HolderOK, [Next]_vars, ~stolen', NEW q \in Procs, InSection(q)'
             PROVE  lock'.held /\ lock'.holder = q
  BY DEF HolderOK
<1> USE DEF lockVars, laneVars, handVars, bounds
<1>0. ASSUME NEW r \in Procs, ~stolen, InSection(r)
      PROVE  lock.held /\ lock.holder = r /\ Alive(lock.holder)
  BY <1>0 DEF HolderOK, InSection, Section, Alive
<1>1. CASE LockKept
  BY <1>1 DEF LockKept, HolderOK
<1>2. ASSUME NEW p \in Procs, CreateLock(p) PROVE lock'.held /\ lock'.holder = q
  <2>1. Frame(p) /\ ~stolen /\ ~lock.held
    BY <1>2, GotoFrame DEF CreateLock
  <2>2. \A r \in Procs : ~InSection(r)
    BY <1>0, <2>1
  <2>3. q = p
    BY <2>1, <2>2 DEF Frame, InSection
  <2> QED
    BY <1>2, <2>3, LockFacts DEF CreateLock
<1>3. ASSUME NEW p \in Procs, UnlinkStale(p) PROVE FALSE
  <2>1. Frame(p) /\ pc'[p] = "create" /\ pc[p] = "unlink" /\ probe[p] # "fresh"
    BY <1>3, GotoFrame DEF UnlinkStale, ProbeOK
  <2>2. ~(stolen \/ (lock.held /\ Alive(lock.holder) /\ probe[p] # "fresh"))
    BY <1>3, Zenon DEF UnlinkStale
  <2>3. InSection(q)
    BY <2>1 DEF Frame, InSection, Section
  <2>4. ~stolen /\ ~(lock.held /\ Alive(lock.holder))
    BY <2>1, <2>2, Zenon
  <2> QED
    BY <1>0, <2>3, <2>4, Zenon
<1>4. ASSUME NEW p \in Procs, RecordHolder(p) PROVE lock'.held /\ lock'.holder = q
  <2>1. Frame(p) /\ pc[p] = "record" /\ stolen' = stolen
    BY <1>4, GotoFrame DEF RecordHolder
  <2>2. InSection(q)
    BY <2>1 DEF Frame, InSection, Section
  <2>3. lock.held /\ lock.holder = q
    BY <1>0, <2>1, <2>2
  <2>4. lock \in Locks
    BY DEF TypeOK
  <2>5. lock' = [lock EXCEPT !.written = TRUE] \/ lock' = lock
    BY <1>4 DEF RecordHolder
  <2>6. [lock EXCEPT !.written = TRUE].held /\ [lock EXCEPT !.written = TRUE].holder = lock.holder
    BY <2>3, <2>4, LockFacts
  <2> QED
    BY <2>3, <2>5, <2>6, Zenon
<1>5. ASSUME NEW p \in Procs, ReleaseLock(p) PROVE FALSE
  <2>1. Frame(p) /\ pc'[p] = "idle" /\ pc[p] = "release"
    BY <1>5, LeaveFrame DEF ReleaseLock, Exit
  <2>2. ~(stolen \/ (lock.held /\ lock.holder # p /\ Alive(lock.holder)))
    BY <1>5, Zenon DEF ReleaseLock
  <2>3. InSection(q) /\ q # p
    BY <2>1 DEF Frame, InSection, Section
  <2> QED
    BY <1>0, <2>2, <2>3, Zenon
<1>6. CASE ForceUnlock
  <2>1. ~(stolen \/ Alive(lock.holder))
    BY <1>6, Zenon DEF ForceUnlock
  <2>2. InSection(q)
    BY <1>6 DEF ForceUnlock, InSection
  <2> QED
    BY <1>0, <2>1, <2>2, Zenon
<1>7. CASE LockAges
  <2>1. InSection(q) /\ ~stolen
    BY <1>7 DEF LockAges, InSection
  <2>2. lock.held /\ lock.holder = q /\ lock \in Locks
    BY <1>0, <2>1 DEF TypeOK
  <2> QED
    BY <1>7, <2>2, LockFacts DEF LockAges
<1>8. CASE \E b \in Branches : Commit(b) \/ DeleteBranch(b)
  BY <1>8 DEF Commit, DeleteBranch, InSection, HolderOK
<1>9. CASE UNCHANGED vars
  BY <1>9 DEF vars, InSection, HolderOK
<1> QED
  BY <1>1, <1>2, <1>3, <1>4, <1>5, <1>6, <1>7, <1>8, <1>9, LockKeptSteps DEF Next

------------------------------------------------------------------------------
(* Disjoint ownership.  Under the lock, nothing changes the manifests       *)
(* between the check of the paths and the write of the manifest.            *)

ClaimOK == ~stolen => \A p \in Procs : pc[p] \in {"add", "manifest"} => ~Refused(cmd[p])

\* finish_lane still holds the manifest it read.
CopyOK == ~stolen => \A p \in Procs : pc[p] = "finish" => lane[p] = manifests[cmd[p].task]

Disjoint ==
    ~stolen => \A t, u \in Tasks :
        Active(t) /\ Active(u) /\ t # u => ~Collide(manifests[t].owned, manifests[u].owned)

LockInv == TypeOK /\ ProbeOK /\ HolderOK

(* Whoever writes a manifest is alone in the section. *)
LEMMA AloneInSection ==
    ASSUME LockInv, ~stolen, NEW p \in Procs, NEW q \in Procs, InSection(p), InSection(q)
    PROVE  p = q
BY DEF LockInv, HolderOK

LEMMA ManifestsKept ==
    ASSUME TypeOK, NEW p \in Procs, Loud(p), ~WriteManifest(p), ~WriteFinished(p)
    PROVE  manifests' = manifests /\ stolen' = stolen
BY DEF Loud, AddWorktree, Rollback, FindNothing, StoreEvidence, Crash, WorktreeBreaksOff,
   lockVars, laneVars

LEMMA ClaimStep == LockInv /\ ClaimOK /\ CopyOK /\ [Next]_vars => ClaimOK' /\ CopyOK'
<1> SUFFICES ASSUME LockInv, ClaimOK, CopyOK, [Next]_vars, ~stolen', NEW q \in Procs
             PROVE  /\ pc'[q] \in {"add", "manifest"} => ~Refused(cmd[q])'
                    /\ pc'[q] = "finish" => lane'[q] = manifests'[cmd'[q].task]
  BY DEF ClaimOK, CopyOK
<1>0. TypeOK
  BY DEF LockInv
<1>1. ASSUME NEW p \in Procs, Quiet(p)
      PROVE  /\ pc'[q] \in {"add", "manifest"} => ~Refused(cmd[q])'
             /\ pc'[q] = "finish" => lane'[q] = manifests'[cmd'[q].task]
  <2>1. ~stolen /\ manifests' = manifests /\ Frame(p)
    BY <1>1 DEF Quiet
  <2>2. CASE q = p
    BY <1>1, <2>1, <2>2 DEF Quiet, Refused, Active
  <2>3. CASE q # p
    BY <2>1, <2>3 DEF Frame, ClaimOK, CopyOK, Refused, Active
  <2> QED
    BY <2>2, <2>3
<1>2. ASSUME NEW p \in Procs, WriteManifest(p) \/ WriteFinished(p)
      PROVE  pc'[q] \notin {"add", "manifest", "finish"}
  <2>1. ~stolen /\ Frame(p) /\ InSection(p) /\ pc'[p] \in {"release", "rollback"}
    BY <1>0, <1>2, LoudFrames
       DEF Loud, WriteManifest, WriteFinished, lockVars, InSection, Section
  <2>2. q # p => ~InSection(q)
    BY <2>1, AloneInSection
  <2> QED
    BY <2>1, <2>2 DEF Frame, InSection, Section
<1>3. ASSUME NEW p \in Procs, Loud(p), ~WriteManifest(p), ~WriteFinished(p)
      PROVE  /\ pc'[q] \in {"add", "manifest"} => ~Refused(cmd[q])'
             /\ pc'[q] = "finish" => lane'[q] = manifests'[cmd'[q].task]
  <2>1. ~stolen /\ manifests' = manifests /\ Frame(p)
    BY <1>0, <1>3, ManifestsKept, LoudFrames
  <2>2. CASE q = p
    <3>1. /\ pc'[p] = "manifest" => pc[p] = "add" /\ cmd'[p] = cmd[p]
          /\ pc'[p] # "add" /\ pc'[p] # "finish"
      BY <1>0, <1>3, LoudFrames DEF Loud
    <3> QED
      BY <2>1, <2>2, <3>1 DEF ClaimOK, Refused, Active
  <2>3. CASE q # p
    BY <2>1, <2>3 DEF Frame, ClaimOK, CopyOK, Refused, Active
  <2> QED
    BY <2>2, <2>3
<1>4. CASE (\E b \in Branches : DeleteBranch(b)) \/ Still
  <2>1. /\ ~stolen /\ manifests' = manifests
        /\ pc'[q] = pc[q] /\ cmd'[q] = cmd[q] /\ lane'[q] = lane[q]
    BY <1>4 DEF DeleteBranch, Still, locals, lockVars
  <2> QED
    BY <2>1 DEF ClaimOK, CopyOK, Refused, Active
<1> QED
  BY <1>0, <1>1, <1>2, <1>3, <1>4, StepCases

LEMMA DisjointStep ==
    LockInv /\ ClaimOK /\ CopyOK /\ Disjoint /\ [Next]_vars => Disjoint'
<1> SUFFICES ASSUME LockInv, ClaimOK, CopyOK, Disjoint, [Next]_vars, ~stolen',
                    NEW t \in Tasks, NEW u \in Tasks, Active(t)', Active(u)', t # u
             PROVE  ~Collide(manifests'[t].owned, manifests'[u].owned)
  BY DEF Disjoint
<1>0. TypeOK
  BY DEF LockInv
<1>1. CASE manifests' = manifests /\ ~stolen
  BY <1>1 DEF Disjoint, Active
<1>2. ASSUME NEW p \in Procs, WriteManifest(p)
      PROVE  ~Collide(manifests'[t].owned, manifests'[u].owned)
  <2> DEFINE c == cmd[p]
             l == [status |-> "active", branch |-> c.branch, owned |-> c.owned]
  <2>1. /\ ~stolen /\ pc[p] = "manifest" /\ ~Refused(c)
        /\ manifests' = [manifests EXCEPT ![c.task] = l]
    BY <1>2 DEF WriteManifest, lockVars, ClaimOK
  <2>2. l.owned = c.owned
    OBVIOUS
  <2> HIDE DEF l, c
  <2>3. ASSUME NEW v \in Tasks, v # c.task
        PROVE  /\ manifests'[v] = manifests[v]
               /\ Active(v)' => Active(v) /\ ~Collide(c.owned, manifests[v].owned)
    BY <1>0, <2>1, <2>3 DEF TypeOK, Active, Refused
  <2>4. ASSUME NEW v \in Tasks, v = c.task PROVE manifests'[v].owned = c.owned
    BY <1>0, <2>1, <2>2, <2>4 DEF TypeOK
  <2>5. CASE t = c.task
    BY <2>3, <2>4, <2>5
  <2>6. CASE u = c.task
    BY <2>3, <2>4, <2>6, CollideSymmetric
  <2>7. CASE t # c.task /\ u # c.task
    BY <2>1, <2>3, <2>7 DEF Disjoint
  <2> QED
    BY <2>5, <2>6, <2>7
<1>3. ASSUME NEW p \in Procs, WriteFinished(p)
      PROVE  ~Collide(manifests'[t].owned, manifests'[u].owned)
  <2>1. /\ ~stolen /\ pc[p] = "finish"
        /\ manifests' = [manifests EXCEPT ![cmd[p].task] = [lane[p] EXCEPT !.status = "finished"]]
    BY <1>3 DEF WriteFinished, lockVars
  <2>2. lane[p] \in Lanes
    BY <1>0 DEF TypeOK
  <2>3. [lane[p] EXCEPT !.status = "finished"].status = "finished"
    BY <2>2, LaneFacts
  <2>4. ASSUME NEW v \in Tasks, Active(v)' PROVE Active(v) /\ manifests'[v] = manifests[v]
    <3>1. v # cmd[p].task
      BY <1>0, <2>1, <2>3, <2>4 DEF Active, TypeOK
    <3> QED
      BY <1>0, <2>1, <2>4, <3>1 DEF Active, TypeOK
  <2> QED
    BY <2>1, <2>4 DEF Disjoint
<1>4. ASSUME NEW p \in Procs, Quiet(p) PROVE manifests' = manifests /\ ~stolen
  BY <1>4 DEF Quiet
<1>5. ASSUME (\E b \in Branches : DeleteBranch(b)) \/ Still PROVE manifests' = manifests /\ ~stolen
  BY <1>5 DEF DeleteBranch, Still, lockVars
<1> QED
  BY <1>0, <1>1, <1>2, <1>3, <1>4, <1>5, StepCases, ManifestsKept

LEMMA OwnershipDisjoint == TypeOK /\ Disjoint => DisjointUnlessStolen
<1> SUFFICES ASSUME TypeOK, Disjoint, ~stolen,
                    NEW t \in Tasks, NEW u \in Tasks, NEW file \in Files,
                    Active(t), Active(u), Owns(t, file), Owns(u, file), t # u
             PROVE  FALSE
  BY DEF DisjointUnlessStolen, DisjointOwnership
<1>1. PICK left \in manifests[t].owned : StartsWith(file, left)
  BY DEF Owns
<1>2. PICK right \in manifests[u].owned : StartsWith(file, right)
  BY DEF Owns
<1>3. manifests[t].owned \in Claims /\ manifests[u].owned \in Claims
  BY LaneFacts DEF TypeOK, Active
<1>4. left \in Seq(STRING) /\ right \in Seq(STRING) /\ file \in Seq(STRING)
  BY <1>3, StartsAssumption, FilesAssumption DEF Claims
<1>5. PathsOverlap(left, right)
  BY <1>1, <1>2, <1>4, PrefixesOverlap
<1> QED
  BY <1>1, <1>2, <1>5 DEF Disjoint, Collide

------------------------------------------------------------------------------
(* Branches.  A start that has added its worktree owns its branch: git      *)
(* refused everybody else.                                                  *)

OwnBranch ==
    /\ \A p \in Procs : Starting(p) => cmd[p].branch \in branches
    /\ \A p, q \in Procs :
          Starting(p) /\ Starting(q) /\ p # q => cmd[p].branch # cmd[q].branch

\* No lane is active on a branch that a start may still take back.
NewBranch ==
    \A p \in Procs, t \in Tasks :
        Starting(p) /\ Active(t) /\ manifests[t].branch = cmd[p].branch
            => cmd[p].branch \in strayed

BranchInv == OwnBranch /\ NewBranch /\ BranchBehindLane

LEMMA ManifestChange ==
    ASSUME TypeOK, NEW p \in Procs, WriteManifest(p) \/ WriteFinished(p), NEW t \in Tasks, Active(t)'
    PROVE  \/ Active(t) /\ manifests'[t] = manifests[t]
           \/ WriteManifest(p) /\ t = cmd[p].task /\ manifests'[t].branch = cmd[p].branch
<1>1. CASE WriteManifest(p)
  <2> DEFINE l == [status |-> "active", branch |-> cmd[p].branch, owned |-> cmd[p].owned]
  <2>1. l.branch = cmd[p].branch /\ manifests' = [manifests EXCEPT ![cmd[p].task] = l]
    BY <1>1 DEF WriteManifest
  <2> HIDE DEF l
  <2> QED
    BY <1>1, <2>1 DEF TypeOK, Active
<1>2. CASE WriteFinished(p)
  <2>1. [lane[p] EXCEPT !.status = "finished"].status = "finished"
    BY LaneFacts DEF TypeOK
  <2>2. manifests' = [manifests EXCEPT ![cmd[p].task] = [lane[p] EXCEPT !.status = "finished"]]
    BY <1>2 DEF WriteFinished
  <2>3. t # cmd[p].task
    BY <2>1, <2>2 DEF TypeOK, Active
  <2> QED
    BY <2>2, <2>3 DEF TypeOK, Active
<1> QED
  BY <1>1, <1>2

\* A step that leaves manifests and starts as they are, and removes no branch.
BranchesQuiet ==
    /\ manifests' = manifests /\ branches \subseteq branches'
    /\ strayed \subseteq strayed'
    /\ \A q \in Procs : Starting(q)' => Starting(q) /\ cmd'[q] = cmd[q]

LEMMA BranchesQuietSteps ==
    ASSUME TypeOK, [Next]_vars
    PROVE  \/ BranchesQuiet
           \/ \E p \in Procs : \/ AddWorktree(p) \/ WriteManifest(p)
                               \/ Rollback(p) \/ WriteFinished(p)
           \/ \E b \in Branches : DeleteBranch(b)
<1>1. CASE \E p \in Procs : Quiet(p)
  BY <1>1 DEF Quiet, Frame, BranchesQuiet, Starting
<1>2. ASSUME NEW p \in Procs, FindNothing(p) \/ StoreEvidence(p) PROVE BranchesQuiet
  <2>1. Frame(p) /\ ~Starting(p)'
    BY <1>2, LoudFrames DEF Loud, Starting
  <2> QED
    BY <1>2, <2>1 DEF FindNothing, StoreEvidence, laneVars, BranchesQuiet, Frame, Starting
<1>3. ASSUME NEW p \in Procs, Crash(p) PROVE BranchesQuiet
  <2>1. Frame(p) /\ ~Starting(p)'
    BY <1>3, LoudFrames DEF Loud, Starting
  <2> QED
    BY <1>3, <2>1 DEF Crash, BranchesQuiet, Frame, Starting
<1>4. CASE Still
  BY <1>4 DEF Still, BranchesQuiet, Starting
<1>5. ASSUME NEW p \in Procs, WorktreeBreaksOff(p) PROVE BranchesQuiet
  <2>1. Frame(p) /\ ~Starting(p)'
    BY <1>5, LoudFrames DEF Loud, Starting
  <2> QED
    BY <1>5, <2>1 DEF WorktreeBreaksOff, BranchesQuiet, Frame, Starting
<1> QED
  BY <1>1, <1>2, <1>3, <1>4, <1>5, StepCases DEF Loud

LEMMA BranchStep == TypeOK /\ BranchInv /\ [Next]_vars => BranchInv'
<1> SUFFICES ASSUME TypeOK, BranchInv, [Next]_vars PROVE BranchInv'
  OBVIOUS
<1>1. CASE BranchesQuiet
  <2>1. OwnBranch'
    BY <1>1 DEF BranchesQuiet, BranchInv, OwnBranch
  <2>2. NewBranch'
    BY <1>1 DEF BranchesQuiet, BranchInv, NewBranch, Active
  <2>3. BranchBehindLane'
    BY <1>1 DEF BranchesQuiet, BranchInv, BranchBehindLane, Active
  <2> QED
    BY <2>1, <2>2, <2>3 DEF BranchInv
<1>2. ASSUME NEW p \in Procs, AddWorktree(p) PROVE BranchInv'
  <2>1. /\ Frame(p) /\ ~Starting(p) /\ Starting(p)' /\ cmd'[p] = cmd[p]
        /\ cmd[p].branch \notin branches /\ branches' = branches \cup {cmd[p].branch}
        /\ UNCHANGED <<manifests, strayed>>
    BY <1>2, LoudFrames DEF Loud, AddWorktree, Starting
  <2>2. ASSUME NEW q \in Procs, q # p PROVE Starting(q)' = Starting(q) /\ cmd'[q] = cmd[q]
    BY <2>1, <2>2 DEF Frame, Starting
  <2>3. OwnBranch'
    BY <2>1, <2>2 DEF BranchInv, OwnBranch
  <2>4. NewBranch'
    <3> SUFFICES ASSUME NEW q \in Procs, NEW t \in Tasks, Starting(q)', Active(t)',
                        manifests'[t].branch = cmd'[q].branch
                 PROVE  cmd'[q].branch \in strayed'
      BY DEF NewBranch
    <3>1. Active(t) /\ manifests[t].branch = cmd'[q].branch
      BY <2>1 DEF Active
    <3>2. CASE q = p
      BY <2>1, <3>1, <3>2 DEF BranchInv, BranchBehindLane
    <3>3. CASE q # p
      BY <2>1, <2>2, <3>1, <3>3 DEF BranchInv, NewBranch
    <3> QED
      BY <3>2, <3>3
  <2>5. BranchBehindLane'
    BY <2>1 DEF BranchInv, BranchBehindLane, Active
  <2> QED
    BY <2>3, <2>4, <2>5 DEF BranchInv
<1>3. ASSUME NEW p \in Procs, WriteManifest(p) PROVE BranchInv'
  <2>1. /\ Frame(p) /\ Starting(p) /\ cmd'[p] = cmd[p]
        /\ Starting(p)' => cmd[p].branch \in strayed'
        /\ branches' = branches /\ strayed \subseteq strayed'
    BY <1>3, LoudFrames DEF Loud, WriteManifest, Starting
  <2>2. ASSUME NEW q \in Procs, q # p PROVE Starting(q)' = Starting(q) /\ cmd'[q] = cmd[q]
    BY <2>1, <2>2 DEF Frame, Starting
  <2>3. OwnBranch'
    BY <2>1, <2>2 DEF BranchInv, OwnBranch
  <2>4. NewBranch'
    <3> SUFFICES ASSUME NEW q \in Procs, NEW t \in Tasks, Starting(q)', Active(t)',
                        manifests'[t].branch = cmd'[q].branch
                 PROVE  cmd'[q].branch \in strayed'
      BY DEF NewBranch
    <3>1. CASE q = p
      BY <2>1, <3>1
    <3>2. CASE q # p
      <4>1. Starting(q) /\ cmd'[q] = cmd[q] /\ cmd[q].branch # cmd[p].branch
        BY <2>1, <2>2, <3>2 DEF BranchInv, OwnBranch
      <4>2. Active(t) /\ manifests'[t] = manifests[t]
        BY <1>3, <4>1, ManifestChange
      <4> QED
        BY <2>1, <4>1, <4>2 DEF BranchInv, NewBranch
    <3> QED
      BY <3>1, <3>2
  <2>5. BranchBehindLane'
    <3> SUFFICES ASSUME NEW t \in Tasks, Active(t)'
                 PROVE  manifests'[t].branch \in branches' \cup strayed'
      BY DEF BranchBehindLane
    <3>1. CASE Active(t) /\ manifests'[t] = manifests[t]
      BY <2>1, <3>1 DEF BranchInv, BranchBehindLane
    <3>2. CASE manifests'[t].branch = cmd[p].branch
      BY <2>1, <3>2 DEF BranchInv, OwnBranch
    <3> QED
      BY <1>3, <3>1, <3>2, ManifestChange
  <2> QED
    BY <2>3, <2>4, <2>5 DEF BranchInv
<1>4. ASSUME NEW p \in Procs, Rollback(p) PROVE BranchInv'
  <2>1. /\ Frame(p) /\ Starting(p) /\ ~Starting(p)' /\ cmd'[p] = cmd[p]
        /\ \/ branches' = branches \ {cmd[p].branch} /\ strayed' = strayed
           \/ branches' = branches /\ strayed \subseteq strayed'
        /\ manifests' = manifests
    BY <1>4, LoudFrames DEF Loud, Rollback, Starting
  <2>2. ASSUME NEW q \in Procs, Starting(q)'
        PROVE  q # p /\ Starting(q) /\ cmd'[q] = cmd[q] /\ cmd[q].branch # cmd[p].branch
    BY <2>1, <2>2 DEF Frame, Starting, BranchInv, OwnBranch
  <2>3. OwnBranch'
    BY <2>1, <2>2 DEF BranchInv, OwnBranch
  <2>4. NewBranch'
    BY <2>1, <2>2 DEF BranchInv, NewBranch, Active
  <2>5. BranchBehindLane'
    <3> SUFFICES ASSUME NEW t \in Tasks, Active(t)'
                 PROVE  manifests'[t].branch \in branches' \cup strayed'
      BY DEF BranchBehindLane
    <3>1. Active(t) /\ manifests'[t].branch = manifests[t].branch
      BY <2>1 DEF Active
    <3>2. manifests[t].branch \in branches \cup strayed
      BY <3>1 DEF BranchInv, BranchBehindLane
    <3>3. manifests[t].branch = cmd[p].branch => cmd[p].branch \in strayed
      BY <2>1, <3>1 DEF BranchInv, NewBranch
    <3> QED
      BY <2>1, <3>1, <3>2, <3>3
  <2> QED
    BY <2>3, <2>4, <2>5 DEF BranchInv
<1>5. ASSUME NEW p \in Procs, WriteFinished(p) PROVE BranchInv'
  <2>1. Frame(p) /\ ~Starting(p) /\ ~Starting(p)' /\ UNCHANGED <<branches, strayed>>
    BY <1>5, LoudFrames DEF Loud, WriteFinished, Starting
  <2>2. ASSUME NEW q \in Procs, Starting(q)' PROVE Starting(q) /\ cmd'[q] = cmd[q]
    BY <2>1, <2>2 DEF Frame, Starting
  <2>3. ASSUME NEW t \in Tasks, Active(t)' PROVE Active(t) /\ manifests'[t] = manifests[t]
    <3>1. pc[p] = "finish"
      BY <1>5 DEF WriteFinished
    <3>2. ~WriteManifest(p)
      BY <3>1 DEF WriteManifest
    <3> QED
      BY <1>5, <2>3, <3>2, ManifestChange
  <2>4. OwnBranch'
    BY <2>1, <2>2 DEF BranchInv, OwnBranch
  <2>5. NewBranch'
    BY <2>1, <2>2, <2>3 DEF BranchInv, NewBranch
  <2>6. BranchBehindLane'
    BY <2>1, <2>3 DEF BranchInv, BranchBehindLane
  <2> QED
    BY <2>4, <2>5, <2>6 DEF BranchInv
<1>6. ASSUME NEW b \in Branches, DeleteBranch(b) PROVE BranchInv'
  <2>1. /\ UNCHANGED <<pc, cmd, manifests, strayed>> /\ branches' = branches \ {b}
        /\ \A t \in Tasks : Active(t) => manifests[t].branch # b
        /\ \A q \in Procs : Starting(q) => cmd[q].branch # b
    BY <1>6 DEF DeleteBranch, locals, Starting
  <2> QED
    BY <2>1 DEF BranchInv, OwnBranch, NewBranch, BranchBehindLane, Starting, Active
<1> QED
  BY <1>1, <1>2, <1>3, <1>4, <1>5, <1>6, BranchesQuietSteps

LEMMA NoBranchLeftStep == TypeOK /\ NoBranchLeftBehind /\ [Next]_vars => NoBranchLeftBehind'
<1> SUFFICES ASSUME TypeOK, NoBranchLeftBehind, [Next]_vars, NEW b \in branches',
                    b \notin served' \cup strayed' \cup halfAdded'
             PROVE  \E q \in Procs : Starting(q)' /\ cmd'[q].branch = b
  BY DEF NoBranchLeftBehind, Starting
<1>0. ASSUME b \in branches, served \subseteq served', strayed \subseteq strayed',
             halfAdded \subseteq halfAdded'
      PROVE  \E q \in Procs : Starting(q) /\ cmd[q].branch = b
  BY <1>0 DEF NoBranchLeftBehind, Starting
<1>1. ASSUME NEW p \in Procs, Quiet(p)
      PROVE  \E q \in Procs : Starting(q)' /\ cmd'[q].branch = b
  <2>1. PICK q \in Procs : Starting(q) /\ cmd[q].branch = b
    BY <1>0, <1>1 DEF Quiet
  <2>2. Starting(q)' /\ cmd'[q] = cmd[q]
    BY <1>1, <2>1 DEF Quiet, Frame, Starting
  <2> QED
    BY <2>1, <2>2
<1>2. ASSUME NEW p \in Procs, AddWorktree(p)
      PROVE  \E q \in Procs : Starting(q)' /\ cmd'[q].branch = b
  <2>1. /\ Frame(p) /\ ~Starting(p) /\ Starting(p)' /\ cmd'[p] = cmd[p]
        /\ branches' = branches \cup {cmd[p].branch}
        /\ UNCHANGED <<served, strayed, halfAdded>>
    BY <1>2, LoudFrames DEF Loud, AddWorktree, Starting
  <2>2. CASE b = cmd[p].branch
    BY <2>1, <2>2
  <2>3. CASE b # cmd[p].branch
    <3>1. PICK q \in Procs : Starting(q) /\ cmd[q].branch = b
      BY <1>0, <2>1, <2>3
    <3>2. Starting(q)' /\ cmd'[q] = cmd[q]
      BY <2>1, <3>1 DEF Frame, Starting
    <3> QED
      BY <3>1, <3>2
  <2> QED
    BY <2>2, <2>3
<1>3. ASSUME NEW p \in Procs, WriteManifest(p) \/ Rollback(p) \/ Crash(p)
      PROVE  \E q \in Procs : Starting(q)' /\ cmd'[q].branch = b
  <2>1. /\ Frame(p) /\ b \in branches
        /\ served \subseteq served' /\ strayed \subseteq strayed' /\ halfAdded' = halfAdded
        /\ Starting(p) => b # cmd[p].branch
    BY <1>3, LoudFrames DEF Loud, WriteManifest, Rollback, Crash, Starting
  <2>2. PICK q \in Procs : Starting(q) /\ cmd[q].branch = b
    BY <1>0, <2>1
  <2>3. Starting(q)' /\ cmd'[q] = cmd[q]
    BY <2>1, <2>2 DEF Frame, Starting
  <2> QED
    BY <2>2, <2>3
<1>4. ASSUME NEW p \in Procs, WriteFinished(p) \/ FindNothing(p) \/ StoreEvidence(p)
      PROVE  \E q \in Procs : Starting(q)' /\ cmd'[q].branch = b
  <2>1. Frame(p) /\ ~Starting(p) /\ UNCHANGED <<branches, served, strayed, halfAdded>>
    BY <1>4, LoudFrames
       DEF Loud, WriteFinished, FindNothing, StoreEvidence, laneVars, Starting
  <2>2. PICK q \in Procs : Starting(q) /\ cmd[q].branch = b
    BY <1>0, <2>1
  <2>3. Starting(q)' /\ cmd'[q] = cmd[q]
    BY <2>1, <2>2 DEF Frame, Starting
  <2> QED
    BY <2>2, <2>3
<1>5. CASE (\E c \in Branches : DeleteBranch(c)) \/ Still
  <2>1. /\ b \in branches /\ UNCHANGED <<served, strayed, halfAdded>>
        /\ \A q \in Procs : Starting(q)' = Starting(q) /\ cmd'[q] = cmd[q]
    BY <1>5 DEF DeleteBranch, Still, locals, Starting
  <2> QED
    BY <1>0, <2>1
<1>6. ASSUME NEW p \in Procs, WorktreeBreaksOff(p)
      PROVE  \E q \in Procs : Starting(q)' /\ cmd'[q].branch = b
  <2>1. /\ Frame(p) /\ ~Starting(p) /\ UNCHANGED <<served, strayed>>
        /\ branches' = branches \cup {cmd[p].branch}
        /\ halfAdded' = halfAdded \cup {cmd[p].branch}
    BY <1>6, LoudFrames DEF Loud, WorktreeBreaksOff, Starting
  <2>2. PICK q \in Procs : Starting(q) /\ cmd[q].branch = b
    BY <1>0, <2>1
  <2>3. Starting(q)' /\ cmd'[q] = cmd[q]
    BY <2>1, <2>2 DEF Frame, Starting
  <2> QED
    BY <2>2, <2>3
<1> QED
  BY <1>1, <1>2, <1>3, <1>4, <1>5, <1>6, StepCases DEF Loud

------------------------------------------------------------------------------
(* Handoffs.  Whoever is about to store evidence saw that there was none,   *)
(* and somebody else with the same sight is remembered.                     *)

StoreOK ==
    /\ \A p \in Procs : pc[p] = "store" =>
          ~handoffs[evidence[p].key].stored \/ evidence[p].key \in overlapped
    /\ \A p, q \in Procs :
          pc[p] = "store" /\ pc[q] = "store" /\ p # q /\ evidence[p].key = evidence[q].key
              => evidence[p].key \in overlapped

LEMMA StoreStep == TypeOK /\ StoreOK /\ [Next]_vars => StoreOK'
<1> SUFFICES ASSUME TypeOK, StoreOK, [Next]_vars PROVE StoreOK'
  OBVIOUS
<1>1. ASSUME UNCHANGED <<handoffs, overlapped>>,
             \A q \in Procs : pc'[q] = "store" => pc[q] = "store" /\ evidence'[q] = evidence[q]
      PROVE  StoreOK'
  BY <1>1 DEF StoreOK
<1>2. CASE \E p \in Procs : Quiet(p)
  <2>1. UNCHANGED <<handoffs, overlapped>>
    BY <1>2 DEF Quiet
  <2>2. \A q \in Procs : pc'[q] = "store" => pc[q] = "store" /\ evidence'[q] = evidence[q]
    BY <1>2 DEF Quiet, Frame
  <2> QED
    BY <1>1, <2>1, <2>2
<1>3. ASSUME NEW p \in Procs, Loud(p), ~FindNothing(p), ~StoreEvidence(p) PROVE StoreOK'
  <2>1. UNCHANGED <<handoffs, overlapped>>
    BY <1>3 DEF Loud, AddWorktree, WriteManifest, Rollback, WriteFinished, Crash,
       WorktreeBreaksOff, handVars
  <2>2. Frame(p) /\ pc'[p] # "store"
    BY <1>3, LoudFrames DEF Loud
  <2> QED
    BY <1>1, <2>1, <2>2 DEF Frame
<1>4. ASSUME NEW p \in Procs, FindNothing(p) PROVE StoreOK'
  <2> DEFINE k == evidence[p].key
  <2>1. /\ Frame(p) /\ pc[p] # "store" /\ evidence'[p] = evidence[p]
        /\ ~handoffs[k].stored /\ handoffs' = handoffs /\ overlapped \subseteq overlapped'
        /\ (\E q \in Procs \ {p} : pc[q] = "store" /\ evidence[q].key = k) => k \in overlapped'
    BY <1>4, LoudFrames DEF Loud, FindNothing
  <2>2. ASSUME NEW q \in Procs, q # p PROVE pc'[q] = pc[q] /\ evidence'[q] = evidence[q]
    BY <2>1, <2>2 DEF Frame
  <2>3. ASSUME NEW q \in Procs, pc'[q] = "store"
        PROVE  ~handoffs'[evidence'[q].key].stored \/ evidence'[q].key \in overlapped'
    BY <2>1, <2>2, <2>3 DEF StoreOK
  <2>4. ASSUME NEW q \in Procs, NEW r \in Procs, pc'[q] = "store", pc'[r] = "store", q # r,
               evidence'[q].key = evidence'[r].key
        PROVE  evidence'[q].key \in overlapped'
    BY <2>1, <2>2, <2>4 DEF StoreOK
  <2> QED
    BY <2>3, <2>4 DEF StoreOK
<1>5. ASSUME NEW p \in Procs, StoreEvidence(p) PROVE StoreOK'
  <2> DEFINE k == evidence[p].key
  <2>1. /\ Frame(p) /\ pc[p] = "store" /\ pc'[p] # "store"
        /\ handoffs' = [handoffs EXCEPT ![k] = evidence[p].value] /\ overlapped' = overlapped
    BY <1>5, LoudFrames DEF Loud, StoreEvidence
  <2>2. ASSUME NEW q \in Procs, pc'[q] = "store"
        PROVE  q # p /\ pc[q] = "store" /\ evidence'[q] = evidence[q]
    BY <2>1, <2>2 DEF Frame
  <2>3. ASSUME NEW q \in Procs, pc'[q] = "store"
        PROVE  ~handoffs'[evidence'[q].key].stored \/ evidence'[q].key \in overlapped'
    <3>1. CASE evidence[q].key = k
      BY <2>1, <2>2, <2>3, <3>1 DEF StoreOK
    <3>2. CASE evidence[q].key # k
      <4>1. handoffs'[evidence[q].key] = handoffs[evidence[q].key]
        BY <2>1, <3>2 DEF TypeOK
      <4> QED
        BY <2>1, <2>2, <2>3, <4>1 DEF StoreOK
    <3> QED
      BY <3>1, <3>2
  <2>4. ASSUME NEW q \in Procs, NEW r \in Procs, pc'[q] = "store", pc'[r] = "store", q # r,
               evidence'[q].key = evidence'[r].key
        PROVE  evidence'[q].key \in overlapped'
    BY <2>1, <2>2, <2>4 DEF StoreOK
  <2> QED
    BY <2>3, <2>4 DEF StoreOK
<1>6. CASE (\E b \in Branches : DeleteBranch(b)) \/ Still
  BY <1>1, <1>6 DEF DeleteBranch, Still, locals, handVars
<1> QED
  BY <1>2, <1>3, <1>4, <1>5, <1>6, StepCases

RecordsKeptStep ==
    /\ \A t \in Tasks : Active(t) /\ manifests'[t] # manifests[t] => LaneGivesWay(t)
    /\ \A k \in Keys : handoffs[k].stored /\ handoffs'[k] # handoffs[k] => k \in overlapped

LEMMA RecordsStep ==
    TypeOK /\ ClaimOK /\ CopyOK /\ BranchInv /\ StoreOK /\ [Next]_vars => RecordsKeptStep
<1> SUFFICES ASSUME TypeOK, ClaimOK, CopyOK, BranchInv, StoreOK, [Next]_vars
             PROVE  RecordsKeptStep
  OBVIOUS
<1>1. ASSUME NEW t \in Tasks, Active(t), manifests'[t] # manifests[t],
             NEW p \in Procs, WriteManifest(p)
      PROVE  LaneGivesWay(t)
  <2> DEFINE c == cmd[p]
             l == [status |-> "active", branch |-> c.branch, owned |-> c.owned]
  <2>1. pc[p] = "manifest" /\ manifests' = [manifests EXCEPT ![c.task] = l]
    BY <1>1 DEF WriteManifest
  <2>2. l.branch = c.branch
    OBVIOUS
  <2> HIDE DEF l
  <2>3. t = c.task /\ manifests'[t].branch = c.branch
    BY <1>1, <2>1, <2>2 DEF TypeOK
  <2>4. stolen
    BY <1>1, <2>1, <2>3 DEF ClaimOK, Refused
  <2>5. manifests[t].branch = c.branch => c.branch \in strayed
    BY <1>1, <2>1 DEF BranchInv, NewBranch, Starting
  <2> QED
    BY <2>3, <2>4, <2>5 DEF LaneGivesWay
<1>2. ASSUME NEW t \in Tasks, Active(t), manifests'[t] # manifests[t],
             NEW p \in Procs, WriteFinished(p)
      PROVE  LaneGivesWay(t)
  <2> DEFINE l == [lane[p] EXCEPT !.status = "finished"]
  <2>1. pc[p] = "finish" /\ manifests' = [manifests EXCEPT ![cmd[p].task] = l]
    BY <1>2 DEF WriteFinished
  <2>2. l.status = "finished"
    BY LaneFacts DEF TypeOK
  <2>3. stolen \/ l = [manifests[cmd[p].task] EXCEPT !.status = "finished"]
    BY <2>1 DEF CopyOK
  <2> HIDE DEF l
  <2>4. t = cmd[p].task /\ manifests'[t] = l
    BY <1>2, <2>1 DEF TypeOK
  <2>5. ~Active(t)'
    BY <2>2, <2>4 DEF Active
  <2> QED
    BY <2>3, <2>4, <2>5 DEF LaneGivesWay
<1>3. ASSUME NEW k \in Keys, handoffs[k].stored, handoffs'[k] # handoffs[k],
             NEW p \in Procs, StoreEvidence(p)
      PROVE  k \in overlapped
  <2>1. /\ pc[p] = "store"
        /\ handoffs' = [handoffs EXCEPT ![evidence[p].key] = evidence[p].value]
    BY <1>3 DEF StoreEvidence
  <2>2. k = evidence[p].key
    BY <1>3, <2>1 DEF TypeOK
  <2> QED
    BY <1>3, <2>1, <2>2 DEF StoreOK
<1>4. ASSUME NEW p \in Procs, Loud(p), ~WriteManifest(p), ~WriteFinished(p)
      PROVE  manifests' = manifests
  BY <1>4, ManifestsKept
<1>5. ASSUME NEW p \in Procs, Loud(p), ~StoreEvidence(p) PROVE handoffs' = handoffs
  BY <1>5 DEF Loud, AddWorktree, WriteManifest, Rollback, WriteFinished, FindNothing, Crash,
     WorktreeBreaksOff, handVars
<1>6. ASSUME \/ \E p \in Procs : Quiet(p)
             \/ \E b \in Branches : DeleteBranch(b)
             \/ Still
      PROVE  manifests' = manifests /\ handoffs' = handoffs
  BY <1>6 DEF Quiet, DeleteBranch, Still, handVars
<1>7. ASSUME NEW t \in Tasks, Active(t), manifests'[t] # manifests[t] PROVE LaneGivesWay(t)
  BY <1>1, <1>2, <1>4, <1>6, <1>7, StepCases
<1>8. ASSUME NEW k \in Keys, handoffs[k].stored, handoffs'[k] # handoffs[k] PROVE k \in overlapped
  BY <1>3, <1>5, <1>6, <1>8, StepCases
<1> QED
  BY <1>7, <1>8 DEF RecordsKeptStep

------------------------------------------------------------------------------
(* The inductive invariant, and what follows from it. *)

IInv ==
    /\ LockInv
    /\ ClaimOK
    /\ CopyOK
    /\ Disjoint
    /\ BranchInv
    /\ NoBranchLeftBehind
    /\ StoreOK

LEMMA InvInit == Init => IInv
<1> SUFFICES ASSUME Init PROVE IInv
  OBVIOUS
<1>1. TypeOK
  BY TypeInit
<1>2. \A p \in Procs : pc[p] = "idle"
  BY DEF Init
<1>3. \A t \in Tasks : ~Active(t)
  BY LaneFacts DEF Init, Active
<1>4. branches = {}
  BY DEF Init
<1>5. LockInv /\ ClaimOK /\ CopyOK
  BY <1>1, <1>2 DEF LockInv, ProbeOK, HolderOK, InSection, Section, ClaimOK, CopyOK
<1>6. Disjoint /\ BranchInv
  BY <1>2, <1>3 DEF Disjoint, BranchInv, OwnBranch, NewBranch, BranchBehindLane, Starting
<1>7. NoBranchLeftBehind /\ StoreOK
  BY <1>2, <1>4 DEF NoBranchLeftBehind, StoreOK
<1> QED
  BY <1>5, <1>6, <1>7 DEF IInv

LEMMA InvStep == IInv /\ [Next]_vars => IInv'
<1> SUFFICES ASSUME IInv, [Next]_vars PROVE IInv'
  OBVIOUS
<1>1. LockInv /\ ClaimOK /\ CopyOK /\ Disjoint /\ BranchInv /\ NoBranchLeftBehind /\ StoreOK
  BY DEF IInv
<1>2. TypeOK /\ ProbeOK /\ HolderOK
  BY <1>1 DEF LockInv
<1>3. LockInv'
  BY <1>2, TypeStep, ProbeStep, HolderStep DEF LockInv
<1>4. ClaimOK' /\ CopyOK'
  BY <1>1, ClaimStep
<1>5. Disjoint'
  BY <1>1, DisjointStep
<1>6. BranchInv' /\ NoBranchLeftBehind' /\ StoreOK'
  BY <1>1, <1>2, BranchStep, NoBranchLeftStep, StoreStep
<1> QED
  BY <1>3, <1>4, <1>5, <1>6 DEF IInv

LEMMA InvAlways == Spec => []IInv
BY InvInit, InvStep, PTL DEF Spec

(* While no live process has lost coordination.lock, no file belongs to two *)
(* active lanes: start_lane checks the paths and writes the manifest in one *)
(* section, and two prefixes of one path overlap.                           *)
THEOREM OwnershipIsDisjoint == Spec => []DisjointUnlessStolen
<1>1. IInv => DisjointUnlessStolen
  BY OwnershipDisjoint DEF IInv, LockInv
<1> QED
  BY <1>1, InvAlways, PTL

(* The branch of an active lane exists, lock or no lock: git hands a branch *)
(* to one start, and only that start takes it back.                         *)
THEOREM LaneHasBranch == Spec => []BranchBehindLane
<1>1. IInv => BranchBehindLane
  BY DEF IInv, BranchInv
<1> QED
  BY <1>1, InvAlways, PTL

(* A branch without a lane belongs to a start that is under way, to one     *)
(* that died or could not undo itself, or to a git worktree add that broke  *)
(* off half-way: any other start that fails after it has its worktree takes *)
(* the branch back.                                                         *)
THEOREM FailedStartLeavesNothing == Spec => []NoBranchLeftBehind
<1>1. IInv => NoBranchLeftBehind
  BY DEF IInv
<1> QED
  BY <1>1, InvAlways, PTL

(* The manifest of an active lane and stored evidence are not overwritten,  *)
(* but for the two races the code leaves open.                              *)
THEOREM RecordsAreKept == Spec => RecordsKept
<1>1. IInv /\ [Next]_vars => [RecordsKeptStep]_vars
  BY RecordsStep DEF IInv, LockInv
<1>2. Spec => [][RecordsKeptStep]_vars
  BY <1>1, InvAlways, PTL DEF Spec
<1> QED
  BY <1>2 DEF RecordsKept, RecordsKeptStep

=============================================================================
