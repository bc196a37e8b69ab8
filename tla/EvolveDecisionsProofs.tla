----------------------- MODULE EvolveDecisionsProofs -----------------------
(***************************************************************************)
(* What holds of the decisions on evolve proposals for any number of       *)
(* files, runs, drains and reverts, and for any history to start with.     *)
(*                                                                         *)
(* The argument: a run proposes one change per file, so that an entry is   *)
(* known by its run and its file wherever it travels, in queue, marker,    *)
(* result JSON or the memory of a drain; and a revert event carries a      *)
(* generation above that of the decision it withdraws.                     *)
(***************************************************************************)
EXTENDS EvolveDecisions, TLAPS, WellFoundedInduction

-----------------------------------------------------------------------------
(* Types *)

LEMMA ConstantFacts ==
    /\ MaxRuns \in Nat /\ MaxEdits \in Nat /\ MaxGen \in Nat /\ MaxCrashes \in Nat
    /\ Emitters \subseteq Procs /\ Drainers \subseteq Procs /\ Reverters \subseteq Procs
    /\ DryEmitters \subseteq Emitters
    /\ Emitters \cap Drainers = {} /\ Emitters \cap Reverters = {}
    /\ Drainers \cap Reverters = {}
    /\ Nobody \notin Procs
    /\ Gone \notin Contents
BY DecisionsAssumption DEF Procs

LEMMA EntryFacts ==
    /\ \A x \in Entry : /\ x.path \in Paths /\ x.before \in Contents
                        /\ x.gen \in Gens /\ x.run \in Runs
                        /\ x = [path |-> x.path, before |-> x.before,
                                gen |-> x.gen, run |-> x.run]
    /\ \A p \in Paths, b \in Contents, g \in Gens, r \in Runs :
          [path |-> p, before |-> b, gen |-> g, run |-> r] \in Entry
    /\ \A i \in EventId : i.path \in Paths /\ i.before \in Contents /\ i.gen \in Gens
BY DEF Entry, EventId

LEMMA Labels ==
    /\ "idle" \in PC /\ "history" \in PC /\ "disk" \in PC /\ "check" \in PC
    /\ "queue" \in PC /\ "marker" \in PC /\ "result" \in PC /\ "drain" \in PC
    /\ "record" \in PC /\ "append" \in PC /\ "verify" \in PC /\ "replace" \in PC /\ "log" \in PC
BY DEF PC

(* A bounded set of naturals with a member has a largest one. *)
LEMMA LargestNatural ==
    ASSUME NEW n \in Nat, NEW S, S \subseteq 0 .. n, S # {}
    PROVE  \E x \in S : \A y \in S : y <= x
<1> DEFINE T == {n - x : x \in S}
<1>1. T \subseteq Nat /\ T # {}
  <2>1. \A x \in S : n - x \in Nat
    OBVIOUS
  <2>2. PICK x \in S : TRUE
    OBVIOUS
  <2>3. n - x \in T
    BY Zenon
  <2> QED
    BY <2>1, <2>3, Zenon
<1>2. \E m \in T : \A k \in T : ~(<<k, m>> \in OpToRel(<, Nat))
  <2> HIDE DEF T
  <2> QED
    BY <1>1, NatLessThanWellFounded, WFMin
<1>3. PICK m \in T : \A k \in T : ~(k < m)
  <2> HIDE DEF T
  <2> QED
    BY <1>1, <1>2 DEF OpToRel
<1>4. PICK x \in S : m = n - x
  BY <1>3
<1>5. \A y \in S : y <= x
  <2> TAKE y \in S
  <2>1. n - y \in T
    BY SMT
  <2>2. ~(n - y < m)
    BY <2>1, <1>3
  <2>3. n \in Int /\ x \in Int /\ y \in Int
    BY SMT
  <2> QED
    BY <2>2, <2>3, <1>4
<1> QED
  BY <1>5

LEMMA GenerationIsGen ==
    ASSUME TypeOK, NEW p
    PROVE  /\ Generation(p) \in GensOf(p)
           /\ \A m \in GensOf(p) : m <= Generation(p)
           /\ Generation(p) \in Gens
<1>1. GensOf(p) \subseteq Gens
  BY ConstantFacts DEF TypeOK, GensOf, Gens, RevertEvent
<1>2. GensOf(p) # {}
  BY DEF GensOf
<1>3. \E x \in GensOf(p) : \A y \in GensOf(p) : y <= x
  BY <1>1, <1>2, ConstantFacts, LargestNatural DEF Gens
<1> QED
  BY <1>1, <1>3 DEF Generation

LEMMA SnapshotIsEntries ==
    ASSUME TypeOK, NEW gen \in [Paths -> Gens], NEW r \in Runs
    PROVE  Snapshot(gen, r) \subseteq Entry
BY EntryFacts DEF TypeOK, Snapshot

LEMMA GensAreTyped ==
    ASSUME TypeOK
    PROVE  CurrentGens \in [Paths -> Gens] /\ NoGens \in [Paths -> Gens]
BY GenerationIsGen, ConstantFacts DEF CurrentGens, NoGens, Gens

LEMMA PublishAdds ==
    ASSUME NEW old, NEW new
    PROVE  Publish(old, new) \subseteq old \cup new
BY DEF Publish, Unsuperseded, Monotonic

(* A decision is a member of some row. *)
LEMMA DecidedIsDecision ==
    ASSUME TypeOK
    PROVE  decided \subseteq Decision
BY DEF TypeOK, decided

(* An appended row is read with those before it. *)
LEMMA AppendedIsDecided ==
    ASSUME TypeOK, NEW v \in Decision, history' = Append(history, v)
    PROVE  decided' = decided \cup {v}
<1>1. /\ DOMAIN history' = DOMAIN history \cup {Len(history) + 1}
      /\ \A i \in DOMAIN history : history'[i] = history[i]
      /\ history'[Len(history) + 1] = v
  BY DEF TypeOK
<1> QED
  BY <1>1 DEF decided

LEMMA InitTypeOK == Init => TypeOK
<1> SUFFICES ASSUME Init PROVE TypeOK
  OBVIOUS
<1>1. 0 \in Gens /\ 0 \in 0 .. MaxRuns /\ 0 \in 0 .. MaxEdits /\ 0 \in 0 .. MaxCrashes
  BY ConstantFacts DEF Gens
<1>2. disk \in [Paths -> Contents \cup {Gone}]
  BY DEF Init
<1>3. pc \in [Procs -> PC]
  BY Labels DEF Init
<1>4. oldGen \in [Emitters -> [Paths -> Gens]]
  BY <1>1 DEF Init
<1>5. /\ pending \in [Emitters -> SUBSET Entry]
      /\ taken \in [Drainers -> SUBSET Entry]
      /\ todo \in [Drainers -> SUBSET Entry]
      /\ consumed \in [Drainers -> SUBSET Entry]
      /\ verdict \in [Drainers -> SUBSET Decision]
      /\ target \in [Reverters -> SUBSET EventId]
  BY DEF Init
<1> QED
  BY <1>1, <1>2, <1>3, <1>4, <1>5, HistoryAssumption DEF Init, TypeOK

LEMMA VerdictIsDecision ==
    ASSUME TypeOK, NEW d \in Drainers, NEW x \in todo[d],
           NEW kind \in {"accept", "reject"}
    PROVE  [id |-> DecisionEventId(x, kind, disk[x.path]), run |-> x.run] \in Decision
<1>1. x \in Entry
  BY DEF TypeOK
<1>2. disk[x.path] \in Contents \cup {Gone}
  BY <1>1, EntryFacts DEF TypeOK
<1>3. DecisionEventId(x, kind, disk[x.path]) \in EventId
  BY <1>1, <1>2, EntryFacts DEF DecisionEventId, EventId
<1> QED
  BY <1>1, <1>3, EntryFacts DEF Decision

LEMMA RevertIsTyped ==
    ASSUME NEW id \in EventId, id.gen < MaxGen
    PROVE  [of |-> id, gen |-> RevertGen(id)] \in RevertEvent
<1>1. id.gen \in 0 .. MaxGen
  BY EntryFacts DEF Gens
<1>2. id.gen + 1 \in Gens
  BY <1>1, ConstantFacts DEF Gens
<1> QED
  BY <1>2 DEF RevertGen, RevertEvent

(* A revert in progress can still count one more. *)
TargetOK ==
    \A r \in Reverters : \A id \in target[r] : id.gen < MaxGen

LEMMA EmitKeepsTypes ==
    ASSUME TypeOK, NEW e \in Emitters, EmitStep(e)
    PROVE  TypeOK'
<1> USE ConstantFacts, Labels
<1>0. e \in Procs /\ run \in 0 .. MaxRuns
  BY DEF TypeOK
<1>1. CASE EmitLocked(e)
  <2>1. run' \in 0 .. MaxRuns /\ run' \in Runs
    BY <1>0, <1>1 DEF EmitLocked, Runs
  <2>2. Snapshot(CurrentGens, run') \subseteq Entry
    BY <2>1, GensAreTyped, SnapshotIsEntries
  <2>3. pending' \in [Emitters -> SUBSET Entry]
    BY <1>1, <2>2 DEF EmitLocked, TypeOK
  <2>4. oldGen' \in [Emitters -> [Paths -> Gens]]
    BY <1>1, GensAreTyped DEF EmitLocked, TypeOK
  <2>5. pc' \in [Procs -> PC] /\ sidecar' \in BOOLEAN
    BY <1>0, <1>1 DEF EmitLocked, TypeOK, Goto
  <2> QED
    BY <1>1, <2>1, <2>3, <2>4, <2>5 DEF EmitLocked, TypeOK, drainVars
<1>2. CASE DryHistory(e)
  <2>1. oldGen' \in [Emitters -> [Paths -> Gens]]
    BY <1>2, GensAreTyped DEF DryHistory, TypeOK
  <2>2. pc' \in [Procs -> PC]
    BY <1>0, <1>2 DEF DryHistory, TypeOK, Goto
  <2> QED
    BY <1>2, <2>1, <2>2 DEF DryHistory, TypeOK, drainVars, historyVars
<1>3. CASE DryDisk(e)
  <2>1. run' \in 0 .. MaxRuns /\ run' \in Runs
    BY <1>0, <1>3 DEF DryDisk, Runs
  <2>2. oldGen[e] \in [Paths -> Gens]
    BY DEF TypeOK
  <2>3. Snapshot(oldGen[e], run') \subseteq Entry
    BY <2>1, <2>2, SnapshotIsEntries
  <2>4. pending' \in [Emitters -> SUBSET Entry]
    BY <1>3, <2>3 DEF DryDisk, TypeOK
  <2>5. pc' \in [Procs -> PC]
    BY <1>0, <1>3 DEF DryDisk, TypeOK, Goto
  <2> QED
    BY <1>3, <2>1, <2>4, <2>5 DEF DryDisk, TypeOK, drainVars, historyVars
<1>4. CASE DryCheck(e)
  <2>1. oldGen' \in [Emitters -> [Paths -> Gens]]
    BY <1>4, GensAreTyped DEF DryCheck, TypeOK
  <2>2. pc' \in [Procs -> PC]
    <3>1. pc \in [Procs -> PC]
      BY DEF TypeOK
    <3>2. pc' = [pc EXCEPT ![e] = "marker"] \/ pc' = [pc EXCEPT ![e] = "history"]
      BY <1>4 DEF DryCheck, Goto
    <3> QED
      BY <1>0, <3>1, <3>2
  <2>3. pending' \in [Emitters -> SUBSET Entry]
    BY <1>4 DEF DryCheck, TypeOK
  <2> QED
    BY <1>4, <2>1, <2>2, <2>3 DEF DryCheck, TypeOK, drainVars, historyVars
<1>5. CASE EmitQueue(e)
  <2>1. queue' \subseteq Entry
    BY <1>5, PublishAdds DEF EmitQueue, TypeOK
  <2>2. pc' \in [Procs -> PC]
    BY <1>0, <1>5 DEF EmitQueue, TypeOK, Goto
  <2> QED
    BY <1>5, <2>1, <2>2 DEF EmitQueue, TypeOK, drainVars, historyVars
<1>6. CASE EmitMarker(e)
  <2>1. marker' \subseteq Entry
    BY <1>6, PublishAdds DEF EmitMarker, TypeOK
  <2>2. pc' \in [Procs -> PC]
    BY <1>0, <1>6 DEF EmitMarker, TypeOK, Goto
  <2> QED
    BY <1>6, <2>1, <2>2 DEF EmitMarker, TypeOK, drainVars, historyVars
<1>7. CASE EmitResult(e)
  <2>1. pending' \in [Emitters -> SUBSET Entry] /\ result' \subseteq Entry
    BY <1>7 DEF EmitResult, TypeOK
  <2>2. pc' \in [Procs -> PC]
    BY <1>0, <1>7 DEF EmitResult, TypeOK, Goto
  <2> QED
    BY <1>7, <2>1, <2>2 DEF EmitResult, TypeOK, drainVars, historyVars
<1> QED
  BY <1>1, <1>2, <1>3, <1>4, <1>5, <1>6, <1>7 DEF EmitStep

LEMMA DrainKeepsTypes ==
    ASSUME TypeOK, NEW d \in Drainers, DrainStep(d)
    PROVE  TypeOK'
<1> USE ConstantFacts, Labels
<1>0. d \in Procs
  OBVIOUS
<1>1. CASE DrainMarker(d)
  <2>1. /\ taken' \in [Drainers -> SUBSET Entry]
        /\ todo' \in [Drainers -> SUBSET Entry]
        /\ consumed' \in [Drainers -> SUBSET Entry]
    BY <1>1 DEF DrainMarker, TypeOK, Orphans
  <2>2. pc' \in [Procs -> PC]
    BY <1>0, <1>1 DEF DrainMarker, TypeOK, Goto
  <2> QED
    BY <1>1, <2>1, <2>2 DEF DrainMarker, TypeOK, emitVars, historyVars
<1>2. CASE DrainResult(d)
  <2>1. /\ taken' \in [Drainers -> SUBSET Entry]
        /\ todo' \in [Drainers -> SUBSET Entry]
    BY <1>2 DEF DrainResult, TypeOK
  <2>2. pc' \in [Procs -> PC]
    BY <1>0, <1>2 DEF DrainResult, TypeOK, Goto
  <2> QED
    BY <1>2, <2>1, <2>2 DEF DrainResult, TypeOK, emitVars, historyVars
<1>3. CASE Ingest(d)
  <2>1. PICK x \in todo[d], kind \in {"accept", "reject", "defer"} :
          /\ todo' = [todo EXCEPT ![d] = @ \ {x}]
          /\ IF kind = "defer"
             THEN UNCHANGED <<consumed, verdict, pc>>
             ELSE /\ consumed' = [consumed EXCEPT ![d] = @ \cup {x}]
                  /\ verdict' = [verdict EXCEPT ![d] =
                        {[id |-> DecisionEventId(x, kind, disk[x.path]), run |-> x.run]}]
                  /\ Goto(d, "record")
    BY <1>3 DEF Ingest
  <2>2. todo' \in [Drainers -> SUBSET Entry] /\ x \in Entry
    BY <2>1 DEF TypeOK
  <2>3. /\ consumed' \in [Drainers -> SUBSET Entry]
        /\ verdict' \in [Drainers -> SUBSET Decision]
        /\ pc' \in [Procs -> PC]
    <3>1. CASE kind = "defer"
      BY <2>1, <3>1 DEF TypeOK
    <3>2. CASE kind # "defer"
      <4>1. kind \in {"accept", "reject"}
        BY <3>2
      <4>2. [id |-> DecisionEventId(x, kind, disk[x.path]), run |-> x.run] \in Decision
        BY <4>1, VerdictIsDecision
      <4> DEFINE v == [id |-> DecisionEventId(x, kind, disk[x.path]), run |-> x.run]
      <4>3. v \in Decision /\ verdict' = [verdict EXCEPT ![d] = {v}]
        BY <2>1, <3>2, <4>2
      <4> HIDE DEF v
      <4>4. verdict' \in [Drainers -> SUBSET Decision]
        BY <4>3 DEF TypeOK
      <4>5. consumed' \in [Drainers -> SUBSET Entry]
        BY <2>1, <2>2, <3>2 DEF TypeOK
      <4>6. pc' \in [Procs -> PC]
        BY <1>0, <2>1, <3>2 DEF TypeOK, Goto
      <4> QED
        BY <4>4, <4>5, <4>6
    <3> QED
      BY <3>1, <3>2
  <2> QED
    BY <1>3, <2>2, <2>3 DEF Ingest, TypeOK, emitVars, historyVars
<1>4. CASE RecordLook(d)
  <2>1. verdict' \in [Drainers -> SUBSET Decision]
    BY <1>4 DEF RecordLook, TypeOK
  <2>2. pc' \in [Procs -> PC] /\ sidecar' \in BOOLEAN /\ lock' \in Procs \cup {Nobody}
    BY <1>0, <1>4 DEF RecordLook, TypeOK, Goto
  <2> QED
    BY <1>4, <2>1, <2>2 DEF RecordLook, TypeOK, emitVars
<1>6. CASE RecordAppend(d)
  <2>1. verdict' \in [Drainers -> SUBSET Decision]
    BY <1>6 DEF RecordAppend, TypeOK
  <2>2. PICK v \in verdict[d] : history' = Append(history, v)
    BY <1>6 DEF RecordAppend
  <2>3. v \in Decision
    BY DEF TypeOK
  <2>4. history' \in Seq(Decision)
    BY <2>2, <2>3 DEF TypeOK
  <2>5. pc' \in [Procs -> PC] /\ lock' \in Procs \cup {Nobody}
    BY <1>0, <1>6 DEF RecordAppend, TypeOK, Goto
  <2> QED
    BY <1>6, <2>1, <2>4, <2>5 DEF RecordAppend, TypeOK, emitVars
<1>5. CASE Purge(d)
  <2>1. /\ marker' \subseteq Entry
        /\ taken' \in [Drainers -> SUBSET Entry]
        /\ consumed' \in [Drainers -> SUBSET Entry]
    BY <1>5 DEF Purge, TypeOK
  <2>2. pc' \in [Procs -> PC]
    BY <1>0, <1>5 DEF Purge, TypeOK, Goto
  <2> QED
    BY <1>5, <2>1, <2>2 DEF Purge, TypeOK, emitVars, historyVars
<1> QED
  BY <1>1, <1>2, <1>3, <1>4, <1>5, <1>6 DEF DrainStep

LEMMA RevertKeepsTypes ==
    ASSUME TypeOK, TargetOK, NEW r \in Reverters, RevertStep(r)
    PROVE  TypeOK' /\ TargetOK'
<1> USE ConstantFacts, Labels
<1>0. r \in Procs
  OBVIOUS
<1>1. CASE RevertBegin(r)
  <2>1. PICK x \in decided : x.id.gen < MaxGen /\ target' = [target EXCEPT ![r] = {x.id}]
    BY <1>1 DEF RevertBegin
  <2>2. x.id \in EventId
    BY DecidedIsDecision DEF Decision
  <2>3. target' \in [Reverters -> SUBSET EventId]
    BY <2>1, <2>2 DEF TypeOK
  <2>4. TargetOK'
    BY <2>1 DEF TargetOK, TypeOK
  <2>5. pc' \in [Procs -> PC] /\ sidecar' \in BOOLEAN /\ lock' \in Procs \cup {Nobody}
    BY <1>0, <1>1 DEF RevertBegin, TypeOK, Goto
  <2> QED
    BY <1>1, <2>3, <2>4, <2>5 DEF RevertBegin, TypeOK, emitVars, drainVars
<1>2. CASE RevertIdempotent(r)
  <2>1. PICK x \in decided : x.id.gen < MaxGen /\ LogRevert(x.id)
    BY <1>2 DEF RevertIdempotent
  <2>2. x.id \in EventId
    BY DecidedIsDecision DEF Decision
  <2>3. reverted' \subseteq RevertEvent
    BY <2>1, <2>2, RevertIsTyped DEF TypeOK, LogRevert
  <2> QED
    BY <1>2, <2>3 DEF RevertIdempotent, TypeOK, TargetOK, emitVars, drainVars
<1>3. CASE RevertVerify(r)
  <2>1. target' \in [Reverters -> SUBSET EventId] /\ lock' \in Procs \cup {Nobody}
    BY <1>3 DEF RevertVerify, Release, TypeOK
  <2>2. TargetOK'
    BY <1>3 DEF RevertVerify, Release, TypeOK, TargetOK
  <2>3. pc' \in [Procs -> PC]
    <3>1. pc \in [Procs -> PC]
      BY DEF TypeOK
    <3>2. pc' = [pc EXCEPT ![r] = "replace"] \/ pc' = [pc EXCEPT ![r] = "idle"]
      BY <1>3 DEF RevertVerify, Release, Goto
    <3> QED
      BY <1>0, <3>1, <3>2
  <2> QED
    BY <1>3, <2>1, <2>2, <2>3 DEF RevertVerify, TypeOK, emitVars, drainVars
<1>4. CASE RevertReplace(r)
  <2>1. PICK id \in target[r] : disk' = [disk EXCEPT ![id.path] = id.before]
    BY <1>4 DEF RevertReplace
  <2>2. id \in EventId
    BY DEF TypeOK
  <2>3. disk' \in [Paths -> Contents \cup {Gone}]
    BY <2>1, <2>2, EntryFacts DEF TypeOK
  <2>4. pc' \in [Procs -> PC]
    BY <1>0, <1>4 DEF RevertReplace, TypeOK, Goto
  <2> QED
    BY <1>4, <2>3, <2>4 DEF RevertReplace, TypeOK, TargetOK, emitVars, drainVars, historyVars
<1>5. CASE RevertLog(r)
  <2>1. PICK id \in target[r] : LogRevert(id)
    BY <1>5 DEF RevertLog
  <2>2. id \in EventId /\ id.gen < MaxGen
    BY DEF TypeOK, TargetOK
  <2>3. reverted' \subseteq RevertEvent
    BY <2>1, <2>2, RevertIsTyped DEF TypeOK, LogRevert
  <2>4. target' \in [Reverters -> SUBSET EventId] /\ lock' \in Procs \cup {Nobody}
    BY <1>5 DEF RevertLog, Release, TypeOK
  <2>5. TargetOK'
    BY <1>5 DEF RevertLog, Release, TypeOK, TargetOK
  <2>6. pc' \in [Procs -> PC]
    BY <1>0, <1>5 DEF RevertLog, Release, TypeOK, Goto
  <2> QED
    BY <1>5, <2>3, <2>4, <2>5, <2>6 DEF RevertLog, TypeOK, emitVars, drainVars
<1> QED
  BY <1>1, <1>2, <1>3, <1>4, <1>5 DEF RevertStep

LEMMA CrashKeepsTypes ==
    ASSUME TypeOK, TargetOK, NEW p \in Procs, Crash(p)
    PROVE  TypeOK' /\ TargetOK'
<1>1. crashes' \in 0 .. MaxCrashes
  BY ConstantFacts DEF Crash, TypeOK
<1>2. pc' \in [Procs -> PC] /\ lock' \in Procs \cup {Nobody}
  BY Labels DEF Crash, TypeOK, Goto
<1>3. oldGen' \in [Emitters -> [Paths -> Gens]]
  BY GensAreTyped DEF Crash, TypeOK
<1>4. /\ pending' \in [Emitters -> SUBSET Entry]
      /\ taken' \in [Drainers -> SUBSET Entry]
      /\ todo' \in [Drainers -> SUBSET Entry]
      /\ consumed' \in [Drainers -> SUBSET Entry]
      /\ verdict' \in [Drainers -> SUBSET Decision]
      /\ target' \in [Reverters -> SUBSET EventId]
  BY DEF Crash, TypeOK
<1>5. TargetOK'
  BY DEF Crash, TypeOK, TargetOK
<1> QED
  BY <1>1, <1>2, <1>3, <1>4, <1>5 DEF Crash, TypeOK

-----------------------------------------------------------------------------
(* The invariant *)

(* Entry x is somewhere in the files, or in the memory of a process. *)
Known(x) ==
    \/ x \in marker \/ x \in queue \/ x \in result
    \/ \E e \in Emitters : x \in pending[e]
    \/ \E d \in Drainers : x \in taken[d] \/ x \in todo[d] \/ x \in consumed[d]

(* An entry is known by its run and its file. *)
KnownByRun ==
    /\ \A x \in Entry : Known(x) => x.run <= run
    /\ \A x, y \in Entry :
          Known(x) /\ Known(y) /\ x.run = y.run /\ x.path = y.path => x = y

OneRunPending ==
    \A e \in Emitters : \A x, y \in pending[e] : x.run = y.run

(* A drain is about to record one decision, on an entry it consumed. *)
VerdictOK ==
    \A d \in Drainers :
        /\ pc[d] \notin {"record", "append"} => verdict[d] = {}
        /\ \A u, v \in verdict[d] : u = v
        /\ \A v \in verdict[d] : \E y \in consumed[d] :
              /\ v.run = y.run
              /\ v.id.path = y.path /\ v.id.before = y.before /\ v.id.gen = y.gen

(* While a process is in the history, it has the lock.                     *)
LockOK ==
    /\ \A r \in Reverters : pc[r] # "idle" => lock = r
    /\ \A d \in Drainers : pc[d] = "append" => lock = d

(* What a drain is about to append has no row yet.                         *)
AppendOK ==
    \A d \in Drainers :
        pc[d] = "append" => \A v \in verdict[d] : \A x \in decided : x.id # v.id

RevertsAreAbove == \A v \in reverted : v.gen = v.of.gen + 1

IInv ==
    /\ TypeOK
    /\ TargetOK
    /\ KnownByRun
    /\ OneRunPending
    /\ VerdictOK
    /\ LockOK
    /\ AppendOK
    /\ RevertsAreAbove
    /\ OneEntryPerFile
    /\ UniqueDecisions

LEMMA StepLock == TypeOK /\ LockOK /\ [Next]_vars => LockOK'
<1> SUFFICES ASSUME TypeOK, LockOK, [Next]_vars PROVE LockOK'
  OBVIOUS
<1> USE ConstantFacts
<1>1. ASSUME NEW e \in Emitters, EmitStep(e) PROVE LockOK'
  <2>1. lock' = lock /\ \A p \in Reverters \cup Drainers : pc'[p] = pc[p]
    BY <1>1 DEF TypeOK, EmitStep, EmitLocked, DryHistory, DryDisk, DryCheck, EmitQueue,
       EmitMarker, EmitResult, Goto, historyVars
  <2> QED
    BY <2>1 DEF LockOK
<1>2. ASSUME NEW d \in Drainers, DrainStep(d) PROVE LockOK'
  <2>1. CASE RecordLook(d) \/ RecordAppend(d)
    <3>1. \A p \in Procs : p # d => pc'[p] = pc[p]
      BY <2>1 DEF RecordLook, RecordAppend, Goto, TypeOK
    <3>2. CASE RecordLook(d)
      <4>1. lock = Nobody /\ (pc'[d] = "append" => lock' = d)
        BY <3>2 DEF RecordLook, Goto, TypeOK
      <4>2. /\ \A r \in Reverters : pc[r] = "idle"
            /\ \A c \in Drainers : pc[c] # "append"
        BY <4>1 DEF LockOK
      <4> QED
        BY <3>1, <4>1, <4>2 DEF LockOK
    <3>3. CASE RecordAppend(d)
      <4>1. pc[d] = "append" /\ lock = d /\ pc'[d] # "append"
        BY <3>3 DEF RecordAppend, Goto, TypeOK, LockOK
      <4>2. /\ \A r \in Reverters : pc[r] = "idle"
            /\ \A c \in Drainers : c # d => pc[c] # "append"
        BY <4>1 DEF LockOK
      <4> QED
        BY <3>1, <4>1, <4>2 DEF LockOK
    <3> QED
      BY <2>1, <3>2, <3>3
  <2>2. CASE DrainMarker(d) \/ DrainResult(d) \/ Ingest(d) \/ Purge(d)
    <3>1. /\ lock' = lock
          /\ \A p \in Reverters : pc'[p] = pc[p]
          /\ \A c \in Drainers : pc'[c] = "append" => pc[c] = "append"
      BY <2>2 DEF TypeOK, DrainMarker, DrainResult, Ingest, Purge, Goto, historyVars
    <3> QED
      BY <3>1 DEF LockOK
  <2> QED
    BY <1>2, <2>1, <2>2 DEF DrainStep
<1>3. ASSUME NEW r \in Reverters, RevertStep(r) PROVE LockOK'
  <2>1. /\ \A p \in Procs : p # r => pc'[p] = pc[p]
        /\ \A d \in Drainers : d # r
    BY <1>3 DEF TypeOK, RevertStep, RevertBegin, RevertIdempotent, RevertVerify,
       RevertReplace, RevertLog, Release, Goto
  <2>2. lock = Nobody \/ (lock = r /\ pc[r] # "idle")
    BY <1>3 DEF LockOK, RevertStep, RevertBegin, RevertIdempotent, RevertVerify,
       RevertReplace, RevertLog
  <2>3. /\ \A q \in Reverters : q # r => pc[q] = "idle"
        /\ \A d \in Drainers : pc[d] # "append"
    BY <2>1, <2>2 DEF LockOK
  <2>4. lock' = r \/ pc'[r] = "idle"
    <3>1. pc \in [Procs -> PC]
      BY DEF TypeOK
    <3>2. CASE RevertBegin(r) \/ RevertIdempotent(r)
      BY <3>2 DEF RevertBegin, RevertIdempotent
    <3>3. CASE RevertVerify(r) \/ RevertReplace(r)
      BY <2>2, <3>1, <3>3 DEF RevertVerify, RevertReplace, Release, Goto, historyVars, LockOK
    <3>4. CASE RevertLog(r)
      BY <3>1, <3>4 DEF RevertLog, Release, Goto
    <3> QED
      BY <1>3, <3>2, <3>3, <3>4 DEF RevertStep
  <2> QED
    BY <2>1, <2>3, <2>4 DEF LockOK
<1>4. ASSUME NEW p \in Procs, Crash(p) PROVE LockOK'
  BY <1>4 DEF LockOK, Crash, Goto, TypeOK
<1>5. CASE (\E p \in Paths : Edit(p)) \/ (\E r \in Runs : Expire(r)) \/ UNCHANGED vars
  BY <1>5 DEF LockOK, Edit, Expire, vars, historyVars
<1> QED
  BY <1>1, <1>2, <1>3, <1>4, <1>5 DEF Next

LEMMA StepAppend == TypeOK /\ LockOK /\ AppendOK /\ [Next]_vars => AppendOK'
<1> SUFFICES ASSUME TypeOK, LockOK, AppendOK, [Next]_vars PROVE AppendOK'
  OBVIOUS
<1> USE ConstantFacts
<1> DEFINE Quiet ==
        /\ decided' = decided
        /\ \A d \in Drainers :
              pc'[d] = "append" => pc[d] = "append" /\ verdict'[d] = verdict[d]
<1>1. Quiet => AppendOK'
  BY DEF AppendOK
<1>2. ASSUME NEW e \in Emitters, EmitStep(e) PROVE Quiet
  BY <1>2 DEF TypeOK, EmitStep, EmitLocked, DryHistory, DryDisk, DryCheck, EmitQueue,
     EmitMarker, EmitResult, Goto, historyVars, drainVars, decided
<1>3. ASSUME NEW r \in Reverters, RevertStep(r) PROVE Quiet
  BY <1>3 DEF TypeOK, RevertStep, RevertBegin, RevertIdempotent, RevertVerify,
     RevertReplace, RevertLog, Release, Goto, historyVars, drainVars, decided
<1>4. ASSUME NEW p \in Procs, Crash(p) PROVE Quiet
  BY <1>4 DEF Crash, Goto, TypeOK, decided
<1>5. ASSUME (\E p \in Paths : Edit(p)) \/ (\E r \in Runs : Expire(r)) \/ UNCHANGED vars
      PROVE  Quiet
  BY <1>5 DEF Edit, Expire, vars, historyVars, drainVars, decided
<1>6. ASSUME NEW d \in Drainers, DrainStep(d) PROVE AppendOK'
  <2>1. CASE DrainMarker(d) \/ DrainResult(d) \/ Ingest(d) \/ Purge(d)
    <3>1. Quiet
      BY <2>1 DEF TypeOK, DrainMarker, DrainResult, Ingest, Purge, Goto, historyVars, decided
    <3> QED
      BY <1>1, <3>1
  <2>2. CASE RecordLook(d)
    <3>1. decided' = decided
      BY <2>2 DEF RecordLook, decided
    <3>2. \A c \in Drainers : c # d => pc'[c] = pc[c] /\ verdict'[c] = verdict[c]
      BY <2>2 DEF RecordLook, Goto, TypeOK
    <3>3. pc'[d] = "append" =>
             /\ verdict'[d] = verdict[d]
             /\ \A v \in verdict[d] : \A x \in decided : x.id # v.id
      BY <2>2 DEF RecordLook, Goto, TypeOK
    <3> QED
      BY <3>1, <3>2, <3>3 DEF AppendOK
  <2>3. CASE RecordAppend(d)
    <3>1. lock = d /\ pc'[d] = "drain"
      BY <2>3 DEF RecordAppend, LockOK, Goto, TypeOK
    <3>2. \A c \in Drainers : c # d => pc'[c] = pc[c] /\ pc[c] # "append"
      BY <2>3, <3>1 DEF RecordAppend, LockOK, Goto, TypeOK
    <3> QED
      BY <3>1, <3>2 DEF AppendOK
  <2> QED
    BY <1>6, <2>1, <2>2, <2>3 DEF DrainStep
<1> QED
  BY <1>1, <1>2, <1>3, <1>4, <1>5, <1>6 DEF Next

(* A step learns of no entry, or of those of a run that begins. *)
LearnsOf(S) ==
    \A x \in Entry : Known(x)' => Known(x) \/ x \in S

Begins(S) ==
    /\ run' = run + 1
    /\ \A x \in S : x.run = run'
    /\ \A x, y \in S : x.path = y.path => x = y

LEMMA SnapshotBegins ==
    ASSUME NEW gen, NEW S, run' = run + 1, S \subseteq Snapshot(gen, run')
    PROVE  Begins(S)
BY DEF Begins, Snapshot

LEMMA EmitLearns ==
    ASSUME TypeOK, NEW e \in Emitters, EmitStep(e)
    PROVE  \/ LearnsOf({}) /\ run' = run /\ (pending'[e] = {} \/ pending'[e] = pending[e])
           \/ LearnsOf(pending'[e]) /\ Begins(pending'[e])
<1>1. CASE EmitLocked(e)
  <2>1. PICK S \in SUBSET Snapshot(CurrentGens, run') :
            pending' = [pending EXCEPT ![e] = S]
    BY <1>1 DEF EmitLocked
  <2>2. pending'[e] = S /\ \A f \in Emitters : f # e => pending'[f] = pending[f]
    BY <2>1 DEF TypeOK
  <2>3. Begins(S)
    BY <1>1, SnapshotBegins DEF EmitLocked
  <2>4. LearnsOf(S)
    BY <1>1, <2>2 DEF EmitLocked, LearnsOf, Known, drainVars
  <2> QED
    BY <2>2, <2>3, <2>4
<1>2. CASE DryDisk(e)
  <2>1. PICK S \in SUBSET Snapshot(oldGen[e], run') :
            pending' = [pending EXCEPT ![e] = S]
    BY <1>2 DEF DryDisk
  <2>2. pending'[e] = S /\ \A f \in Emitters : f # e => pending'[f] = pending[f]
    BY <2>1 DEF TypeOK
  <2>3. Begins(S)
    BY <1>2, SnapshotBegins DEF DryDisk
  <2>4. LearnsOf(S)
    BY <1>2, <2>2 DEF DryDisk, LearnsOf, Known, drainVars
  <2> QED
    BY <2>2, <2>3, <2>4
<1>3. CASE DryHistory(e)
  BY <1>3 DEF DryHistory, LearnsOf, Known, drainVars
<1>4. CASE DryCheck(e)
  <2>1. \A f \in Emitters : pending'[f] = {} \/ pending'[f] = pending[f]
    BY <1>4 DEF DryCheck, TypeOK
  <2> QED
    BY <1>4, <2>1 DEF DryCheck, LearnsOf, Known, drainVars
<1>5. CASE EmitQueue(e)
  BY <1>5, PublishAdds DEF EmitQueue, LearnsOf, Known, drainVars
<1>6. CASE EmitMarker(e)
  BY <1>6, PublishAdds DEF EmitMarker, LearnsOf, Known, drainVars
<1>7. CASE EmitResult(e)
  <2>1. \A f \in Emitters : pending'[f] = {} \/ pending'[f] = pending[f]
    BY <1>7 DEF EmitResult, TypeOK
  <2>2. pending'[e] = {}
    BY <1>7 DEF EmitResult, TypeOK
  <2> QED
    BY <1>7, <2>1, <2>2 DEF EmitResult, LearnsOf, Known, drainVars
<1> QED
  BY <1>1, <1>2, <1>3, <1>4, <1>5, <1>6, <1>7 DEF EmitStep

LEMMA DrainLearns ==
    ASSUME TypeOK, NEW d \in Drainers, DrainStep(d)
    PROVE  LearnsOf({})
<1>0. \A x \in consumed'[d] : x \in consumed[d] \/ x \in todo[d] \/ x \in marker
  BY DEF DrainStep, DrainMarker, DrainResult, Ingest, RecordLook, RecordAppend, Purge, Orphans, TypeOK
<1>1. \A x \in todo'[d] : x \in todo[d] \/ x \in marker \/ x \in result
  BY DEF DrainStep, DrainMarker, DrainResult, Ingest, RecordLook, RecordAppend, Purge, Orphans, TypeOK
<1>2. \A x \in taken'[d] : x \in taken[d] \/ x \in marker \/ x \in result
  BY DEF DrainStep, DrainMarker, DrainResult, Ingest, RecordLook, RecordAppend, Purge, TypeOK
<1>3. \A c \in Drainers : c # d => /\ consumed'[c] = consumed[c]
                                   /\ todo'[c] = todo[c]
                                   /\ taken'[c] = taken[c]
  BY DEF DrainStep, DrainMarker, DrainResult, Ingest, RecordLook, RecordAppend, Purge, TypeOK
<1>4. /\ marker' \subseteq marker
      /\ queue' = queue /\ result' = result /\ pending' = pending
  BY DEF DrainStep, DrainMarker, DrainResult, Ingest, RecordLook, RecordAppend, Purge, emitVars
<1> QED
  BY <1>0, <1>1, <1>2, <1>3, <1>4 DEF LearnsOf, Known

LEMMA CrashLearns ==
    ASSUME TypeOK, NEW p \in Procs, Crash(p)
    PROVE  LearnsOf({})
<1>1. \A e \in Emitters : pending'[e] \subseteq pending[e]
  BY DEF Crash
<1>2. \A d \in Drainers : /\ taken'[d] \subseteq taken[d]
                          /\ todo'[d] \subseteq todo[d]
                          /\ consumed'[d] \subseteq consumed[d]
  BY DEF Crash
<1> QED
  BY <1>1, <1>2 DEF Crash, LearnsOf, Known

LEMMA KnownByRunIfNothingNew ==
    ASSUME KnownByRun, LearnsOf({}), run' = run
    PROVE  KnownByRun'
BY DEF KnownByRun, LearnsOf

LEMMA KnownByRunIfBegins ==
    ASSUME TypeOK, KnownByRun, NEW S, LearnsOf(S), Begins(S)
    PROVE  KnownByRun'
<1>1. run \in Int /\ run' = run + 1
  BY DEF TypeOK, Begins
<1>2. \A x \in Entry : x.run \in Int
  BY EntryFacts DEF Runs
<1>3. \A x \in Entry : Known(x)' => (Known(x) /\ x.run <= run) \/ (x \in S /\ x.run = run + 1)
  BY DEF LearnsOf, Begins, KnownByRun
<1>4. ASSUME NEW x \in Entry, NEW y \in Entry, Known(x)', Known(y)',
             x.run = y.run, x.path = y.path
      PROVE  x = y
  <2>1. (Known(x) /\ Known(y)) \/ (x \in S /\ y \in S)
    BY <1>1, <1>2, <1>3, <1>4
  <2> QED
    BY <1>4, <2>1 DEF KnownByRun, Begins
<1>5. ASSUME NEW x \in Entry, Known(x)'
      PROVE  x.run <= run'
  BY <1>1, <1>2, <1>3, <1>5
<1> QED
  BY <1>4, <1>5 DEF KnownByRun

(* Publishing a run's entries keeps one entry per file. *)
LEMMA PublishKeepsOnePerFile ==
    ASSUME NEW old, NEW new,
           \A x, y \in old : x.path = y.path => x = y,
           \A x, y \in new : x.path = y.path => x = y
    PROVE  \A x, y \in Publish(old, new) : x.path = y.path => x = y
BY DEF Publish, Unsuperseded, Monotonic

LEMMA PendingHasOnePerFile ==
    ASSUME TypeOK, KnownByRun, OneRunPending, NEW e \in Emitters
    PROVE  \A x, y \in pending[e] : x.path = y.path => x = y
BY DEF TypeOK, KnownByRun, OneRunPending, Known

LEMMA EmitKeepsIInv ==
    ASSUME IInv, NEW e \in Emitters, EmitStep(e)
    PROVE  IInv'
<1> USE ConstantFacts
<1>1. TypeOK'
  BY EmitKeepsTypes DEF IInv
<1>2. TargetOK'
  BY DEF IInv, TargetOK, EmitStep, EmitLocked, DryHistory, DryDisk, DryCheck, EmitQueue,
         EmitMarker, EmitResult
<1>3. KnownByRun' /\ OneRunPending'
  <2>1. \A f \in Emitters : f # e => pending'[f] = pending[f]
    BY DEF IInv, TypeOK, EmitStep, EmitLocked, DryHistory, DryDisk, DryCheck, EmitQueue,
           EmitMarker, EmitResult
  <2>2. CASE LearnsOf({}) /\ run' = run /\ (pending'[e] = {} \/ pending'[e] = pending[e])
    BY <2>1, <2>2, KnownByRunIfNothingNew DEF IInv, OneRunPending
  <2>3. CASE LearnsOf(pending'[e]) /\ Begins(pending'[e])
    <3>1. KnownByRun'
      BY <2>3, KnownByRunIfBegins DEF IInv
    <3>2. OneRunPending'
      BY <2>1, <2>3 DEF IInv, OneRunPending, Begins
    <3> QED
      BY <3>1, <3>2
  <2> QED
    BY <2>2, <2>3, EmitLearns DEF IInv
<1>4. VerdictOK'
  <2>1. \A d \in Drainers : pc'[d] = pc[d]
    BY DEF IInv, TypeOK, EmitStep, EmitLocked, DryHistory, DryDisk, DryCheck, EmitQueue,
           EmitMarker, EmitResult, Goto
  <2>2. verdict' = verdict /\ consumed' = consumed
    BY DEF EmitStep, EmitLocked, DryHistory, DryDisk, DryCheck, EmitQueue,
           EmitMarker, EmitResult, drainVars
  <2> QED
    BY <2>1, <2>2 DEF IInv, VerdictOK
<1>5. RevertsAreAbove' /\ UniqueDecisions'
  <2>1. reverted' = reverted /\ history' = history
    BY DEF EmitStep, EmitLocked, DryHistory, DryDisk, DryCheck, EmitQueue,
           EmitMarker, EmitResult, historyVars
  <2> QED
    BY <2>1 DEF IInv, RevertsAreAbove, UniqueDecisions
<1>6. OneEntryPerFile'
  <2>1. \A x, y \in pending[e] : x.path = y.path => x = y
    BY PendingHasOnePerFile DEF IInv
  <2>2. /\ queue' = queue \/ queue' = Publish(queue, pending[e])
        /\ marker' = marker \/ marker' = Publish(marker, pending[e])
    BY DEF EmitStep, EmitLocked, DryHistory, DryDisk, DryCheck, EmitQueue,
           EmitMarker, EmitResult
  <2>3. \A x, y \in queue' : x.path = y.path => x = y
    BY <2>1, <2>2, PublishKeepsOnePerFile DEF IInv, OneEntryPerFile
  <2>4. \A x, y \in marker' : x.path = y.path => x = y
    BY <2>1, <2>2, PublishKeepsOnePerFile DEF IInv, OneEntryPerFile
  <2> QED
    BY <2>3, <2>4 DEF OneEntryPerFile
<1>9. LockOK' /\ AppendOK'
  BY StepLock, StepAppend DEF IInv, Next
<1> QED
  BY <1>1, <1>2, <1>3, <1>4, <1>5, <1>6, <1>9 DEF IInv

LEMMA DrainKeepsVerdict ==
    ASSUME TypeOK, VerdictOK, NEW d \in Drainers, DrainStep(d)
    PROVE  VerdictOK'
<1> USE ConstantFacts
<1>1. \A c \in Drainers : c # d => /\ pc'[c] = pc[c]
                                   /\ verdict'[c] = verdict[c]
                                   /\ consumed'[c] = consumed[c]
  BY DEF DrainStep, DrainMarker, DrainResult, Ingest, RecordLook, RecordAppend, Purge, Goto, TypeOK
<1>2. CASE DrainMarker(d) \/ DrainResult(d) \/ Purge(d) \/ RecordAppend(d)
  <2>1. verdict'[d] = {}
    BY <1>2 DEF DrainMarker, DrainResult, RecordAppend, Purge, TypeOK, VerdictOK
  <2> QED
    BY <1>1, <2>1 DEF VerdictOK
<1>4. CASE RecordLook(d)
  <2>1. \/ verdict'[d] = {}
        \/ verdict'[d] = verdict[d] /\ pc'[d] = "append"
    BY <1>4 DEF RecordLook, Goto, TypeOK
  <2>2. consumed'[d] = consumed[d]
    BY <1>4 DEF RecordLook
  <2> QED
    BY <1>1, <2>1, <2>2 DEF VerdictOK
<1>3. CASE Ingest(d)
  <2>1. PICK x \in todo[d], kind \in {"accept", "reject", "defer"} :
          IF kind = "defer"
             THEN UNCHANGED <<consumed, verdict, pc>>
             ELSE /\ consumed' = [consumed EXCEPT ![d] = @ \cup {x}]
                  /\ verdict' = [verdict EXCEPT ![d] =
                        {[id |-> DecisionEventId(x, kind, disk[x.path]), run |-> x.run]}]
                  /\ Goto(d, "record")
    BY <1>3 DEF Ingest
  <2>2. CASE kind = "defer"
    BY <2>1, <2>2 DEF VerdictOK
  <2>3. CASE kind # "defer"
    <3> DEFINE v == [id |-> DecisionEventId(x, kind, disk[x.path]), run |-> x.run]
    <3>1. /\ v.run = x.run /\ v.id.path = x.path /\ v.id.before = x.before
          /\ v.id.gen = x.gen
      BY DEF DecisionEventId
    <3>2. verdict' = [verdict EXCEPT ![d] = {v}]
      BY <2>1, <2>3
    <3> HIDE DEF v
    <3>3. verdict'[d] = {v} /\ x \in consumed'[d] /\ pc'[d] = "record"
      BY <2>1, <2>3, <3>2 DEF TypeOK, Goto
    <3> QED
      BY <1>1, <3>1, <3>3 DEF VerdictOK
  <2> QED
    BY <2>2, <2>3
<1> QED
  BY <1>2, <1>3, <1>4 DEF DrainStep

LEMMA DrainKeepsIInv ==
    ASSUME IInv, NEW d \in Drainers, DrainStep(d)
    PROVE  IInv'
<1>1. TypeOK'
  BY DrainKeepsTypes DEF IInv
<1>2. VerdictOK'
  BY DrainKeepsVerdict DEF IInv
<1>3. /\ target' = target /\ reverted' = reverted /\ run' = run
      /\ pending' = pending /\ queue' = queue /\ marker' \subseteq marker
  BY DEF DrainStep, DrainMarker, DrainResult, Ingest, RecordLook, RecordAppend, Purge, emitVars, historyVars
<1>4. KnownByRun'
  BY <1>3, DrainLearns, KnownByRunIfNothingNew DEF IInv
<1>5. TargetOK' /\ OneRunPending' /\ RevertsAreAbove' /\ OneEntryPerFile'
  BY <1>3 DEF IInv, TargetOK, OneRunPending, RevertsAreAbove, OneEntryPerFile
<1>6. UniqueDecisions'
  <2>1. CASE RecordAppend(d)
    <3>1. PICK v \in verdict[d] : history' = Append(history, v) /\ pc[d] = "append"
      BY <2>1 DEF RecordAppend
    <3>2. \A x \in decided : x.id # v.id
      BY <3>1 DEF IInv, AppendOK
    <3>3. \A i \in DOMAIN history : history[i].id # v.id
      BY <3>2 DEF decided
    <3>4. /\ DOMAIN history' = DOMAIN history \cup {Len(history) + 1}
          /\ \A i \in DOMAIN history : history'[i] = history[i]
          /\ history'[Len(history) + 1] = v
      <4>1. history \in Seq(Decision) /\ v \in Decision
        BY DEF IInv, TypeOK
      <4> QED
        BY <3>1, <4>1
    <3> QED
      BY <3>3, <3>4 DEF IInv, UniqueDecisions
  <2>2. CASE ~RecordAppend(d)
    <3>1. history' = history
      BY <2>2 DEF DrainStep, DrainMarker, DrainResult, Ingest, RecordLook, Purge, historyVars
    <3> QED
      BY <3>1 DEF IInv, UniqueDecisions
  <2> QED
    BY <2>1, <2>2
<1>9. LockOK' /\ AppendOK'
  BY StepLock, StepAppend DEF IInv, Next
<1> QED
  BY <1>1, <1>2, <1>4, <1>5, <1>6, <1>9 DEF IInv

LEMMA RevertKeepsIInv ==
    ASSUME IInv, NEW r \in Reverters, RevertStep(r)
    PROVE  IInv'
<1>1. TypeOK' /\ TargetOK'
  BY RevertKeepsTypes DEF IInv
<1>2. /\ run' = run /\ pending' = pending /\ queue' = queue /\ marker' = marker
      /\ result' = result /\ history' = history
      /\ verdict' = verdict /\ consumed' = consumed /\ taken' = taken /\ todo' = todo
  BY DEF RevertStep, RevertBegin, RevertIdempotent, RevertVerify, RevertReplace, RevertLog,
         emitVars, drainVars, historyVars
<1>3. LearnsOf({})
  BY <1>2 DEF LearnsOf, Known
<1>4. KnownByRun'
  BY <1>2, <1>3, KnownByRunIfNothingNew DEF IInv
<1>5. OneRunPending' /\ OneEntryPerFile' /\ UniqueDecisions'
  BY <1>2 DEF IInv, OneRunPending, OneEntryPerFile, UniqueDecisions
<1>6. \A d \in Drainers : pc'[d] = pc[d]
  BY ConstantFacts DEF IInv, TypeOK, RevertStep, RevertBegin, RevertIdempotent, RevertVerify,
     RevertReplace, RevertLog, Release, Goto
<1>7. VerdictOK'
  BY <1>2, <1>6 DEF IInv, VerdictOK
<1>8. RevertsAreAbove'
  <2>1. \/ reverted' = reverted
        \/ \E id : reverted' = reverted \cup {[of |-> id, gen |-> RevertGen(id)]}
    BY DEF RevertStep, RevertBegin, RevertIdempotent, RevertVerify, RevertReplace, RevertLog,
           LogRevert, historyVars
  <2> QED
    BY <2>1 DEF IInv, RevertsAreAbove, RevertGen
<1>9. LockOK' /\ AppendOK'
  BY StepLock, StepAppend DEF IInv, Next
<1> QED
  BY <1>1, <1>4, <1>5, <1>7, <1>8, <1>9 DEF IInv

LEMMA CrashKeepsIInv ==
    ASSUME IInv, NEW p \in Procs, Crash(p)
    PROVE  IInv'
<1>1. TypeOK' /\ TargetOK'
  BY CrashKeepsTypes DEF IInv
<1>2. /\ run' = run /\ queue' = queue /\ marker' = marker
      /\ history' = history /\ reverted' = reverted
  BY DEF Crash
<1>3. KnownByRun'
  BY <1>2, CrashLearns, KnownByRunIfNothingNew DEF IInv
<1>4. OneRunPending'
  BY DEF Crash, IInv, OneRunPending
<1>5. VerdictOK'
  <2>1. \A d \in Drainers :
            \/ verdict'[d] = {}
            \/ /\ pc'[d] = pc[d]
               /\ verdict'[d] = verdict[d] /\ consumed'[d] = consumed[d]
    BY ConstantFacts DEF Crash, Goto, IInv, TypeOK
  <2> QED
    BY <2>1 DEF IInv, VerdictOK
<1>6. RevertsAreAbove' /\ OneEntryPerFile' /\ UniqueDecisions'
  BY <1>2 DEF IInv, RevertsAreAbove, OneEntryPerFile, UniqueDecisions
<1>9. LockOK' /\ AppendOK'
  BY StepLock, StepAppend DEF IInv, Next
<1> QED
  BY <1>1, <1>3, <1>4, <1>5, <1>6, <1>9 DEF IInv

LEMMA OutsideKeepsIInv ==
    ASSUME IInv, \/ \E p \in Paths : Edit(p)
                 \/ \E r \in Runs : Expire(r)
                 \/ UNCHANGED vars
    PROVE  IInv'
<1>1. /\ run' = run /\ pending' = pending /\ queue' = queue /\ marker' \subseteq marker
      /\ result' = result /\ history' = history /\ reverted' = reverted /\ pc' = pc
      /\ verdict' = verdict /\ consumed' = consumed /\ taken' = taken /\ todo' = todo
      /\ target' = target /\ sidecar' = sidecar /\ lock' = lock /\ oldGen' = oldGen
      /\ crashes' = crashes
  BY DEF Edit, Expire, vars, emitVars, drainVars, historyVars
<1>2. disk' \in [Paths -> Contents \cup {Gone}] /\ edits' \in 0 .. MaxEdits
  BY ConstantFacts DEF IInv, TypeOK, Edit, Expire, vars
<1>3. TypeOK'
  BY <1>1, <1>2 DEF IInv, TypeOK
<1>4. LearnsOf({})
  BY <1>1 DEF LearnsOf, Known
<1>5. KnownByRun'
  BY <1>1, <1>4, KnownByRunIfNothingNew DEF IInv
<1>6. /\ TargetOK' /\ OneRunPending' /\ VerdictOK' /\ RevertsAreAbove'
      /\ OneEntryPerFile' /\ UniqueDecisions'
  BY <1>1 DEF IInv, TargetOK, OneRunPending, VerdictOK, RevertsAreAbove, OneEntryPerFile,
     UniqueDecisions
<1>9. LockOK' /\ AppendOK'
  BY StepLock, StepAppend DEF IInv, Next
<1> QED
  BY <1>3, <1>5, <1>6, <1>9 DEF IInv

LEMMA InitIInv == Init => IInv
<1> SUFFICES ASSUME Init PROVE IInv
  OBVIOUS
<1>1. KnownByRun
  BY DEF Init, KnownByRun, Known
<1>2. /\ TargetOK /\ OneRunPending /\ VerdictOK /\ OneEntryPerFile
      /\ LockOK /\ AppendOK
  BY ConstantFacts DEF Init, TargetOK, OneRunPending, VerdictOK, OneEntryPerFile, LockOK,
     AppendOK
<1>3. RevertsAreAbove /\ UniqueDecisions
  BY HistoryAssumption DEF Init, RevertsAreAbove, UniqueDecisions
<1> QED
  BY <1>1, <1>2, <1>3, InitTypeOK DEF IInv

LEMMA NextIInv == IInv /\ [Next]_vars => IInv'
BY EmitKeepsIInv, DrainKeepsIInv, RevertKeepsIInv, CrashKeepsIInv, OutsideKeepsIInv DEF Next

LEMMA Invariance == Spec => []IInv
BY InitIInv, NextIInv, PTL DEF Spec

-----------------------------------------------------------------------------
(* The theorems *)

(* Queue and marker never hold two entries of one file.                    *)
THEOREM OneEntry == Spec => []OneEntryPerFile
<1>1. IInv => OneEntryPerFile
  BY DEF IInv
<1> QED
  BY <1>1, Invariance, PTL

(* No decision is recorded twice, however many drains saw its entry.       *)
THEOREM RecordedOnce == Spec => []UniqueDecisions
<1>1. IInv => UniqueDecisions
  BY DEF IInv
<1> QED
  BY <1>1, Invariance, PTL

(* Publishing never goes back to an older generation of a file.            *)
THEOREM GenerationGrows == Spec => PublishedGenerationGrows
<1>1. [Next]_vars =>
        [/\ \A x \in marker, y \in marker' \ marker : x.path = y.path => x.gen <= y.gen
         /\ \A x \in queue, y \in queue' \ queue : x.path = y.path => x.gen <= y.gen]_vars
  <2> SUFFICES ASSUME [Next]_vars
               PROVE  /\ \A x \in marker, y \in marker' \ marker :
                            x.path = y.path => x.gen <= y.gen
                      /\ \A x \in queue, y \in queue' \ queue :
                            x.path = y.path => x.gen <= y.gen
    OBVIOUS
  <2>1. \/ marker' \subseteq marker
        \/ \E e \in Emitters : marker' = Publish(marker, pending[e])
    BY DEF Next, EmitStep, EmitLocked, DryHistory, DryDisk, DryCheck, EmitQueue, EmitMarker,
       EmitResult, DrainStep, DrainMarker, DrainResult, Ingest, RecordLook, RecordAppend, Purge, RevertStep,
       RevertBegin, RevertIdempotent, RevertVerify, RevertReplace, RevertLog, Crash, Edit,
       Expire, vars
  <2>2. \/ queue' \subseteq queue
        \/ \E e \in Emitters : queue' = Publish(queue, pending[e])
    BY DEF Next, EmitStep, EmitLocked, DryHistory, DryDisk, DryCheck, EmitQueue, EmitMarker,
       EmitResult, DrainStep, DrainMarker, DrainResult, Ingest, RecordLook, RecordAppend, Purge, RevertStep,
       RevertBegin, RevertIdempotent, RevertVerify, RevertReplace, RevertLog, Crash, Edit,
       Expire, vars, emitVars
  <2> QED
    BY <2>1, <2>2 DEF Publish, Unsuperseded, Monotonic
<1> QED
  BY <1>1, PTL DEF Spec, PublishedGenerationGrows

(* A report comes from a look that found a row, or from an append.         *)
LEMMA OnlyRecordReports ==
    ASSUME TypeOK, [Next]_vars, NEW d \in Drainers, Reported(d)
    PROVE  RecordLook(d) \/ RecordAppend(d)
<1> USE ConstantFacts
<1>1. d \in Procs /\ pc[d] \in {"record", "append"} /\ pc'[d] = "drain"
  BY DEF Reported
<1>2. ASSUME NEW c \in Drainers, DrainStep(c)
      PROVE  RecordLook(d) \/ RecordAppend(d)
  BY <1>1, <1>2 DEF TypeOK, DrainStep, DrainMarker, DrainResult, Ingest, RecordLook, RecordAppend, Purge, Goto
<1>3. ASSUME NEW e \in Emitters, EmitStep(e) PROVE FALSE
  BY <1>1, <1>3 DEF TypeOK, EmitStep, EmitLocked, DryHistory, DryDisk, DryCheck, EmitQueue,
     EmitMarker, EmitResult, Goto
<1>4. ASSUME NEW r \in Reverters, RevertStep(r) PROVE FALSE
  BY <1>1, <1>4 DEF TypeOK, RevertStep, RevertBegin, RevertIdempotent, RevertVerify,
     RevertReplace, RevertLog, Release, Goto
<1>5. ASSUME NEW p \in Procs, Crash(p) PROVE FALSE
  BY <1>1, <1>5 DEF TypeOK, Crash, Goto
<1>6. pc' # pc
  BY <1>1
<1> QED
  BY <1>2, <1>3, <1>4, <1>5, <1>6 DEF Next, Edit, Expire, vars

LEMMA FreshDecisionIsNotReverted ==
    ASSUME IInv, NEW d \in Drainers, NEW v \in verdict[d], NEW y \in consumed[d],
           y.run = v.run, ProposalId(y) = <<v.id.path, v.id.before>>, Fresh(y),
           NEW w \in reverted
    PROVE  w.of # v.id
<1>1. PICK z \in consumed[d] : /\ v.run = z.run
                               /\ v.id.path = z.path /\ v.id.gen = z.gen
  BY DEF IInv, VerdictOK
<1>2. y \in Entry /\ z \in Entry /\ Known(y) /\ Known(z)
  BY DEF IInv, TypeOK, Known
<1>3. y.path = v.id.path
  BY DEF ProposalId
<1>4. y = z
  BY <1>1, <1>2, <1>3 DEF IInv, KnownByRun
<1>5. y.gen \in Int
  BY <1>2, EntryFacts DEF Gens
<1>6. SUFFICES ASSUME w.of = v.id PROVE FALSE
  OBVIOUS
<1>7. w.gen = y.gen + 1
  BY <1>1, <1>4, <1>6 DEF IInv, RevertsAreAbove
<1>8. w.gen <= y.gen
  BY <1>3, <1>6 DEF Fresh
<1> QED
  BY <1>5, <1>7, <1>8

(* A decision on an entry that no revert overtook is recorded and counts.  *)
THEOREM FreshDecisionsCount == Spec => FreshAcceptCounts
<1>1. IInv /\ [Next]_vars =>
        [\A d \in Drainers : Reported(d) =>
          \A v \in verdict[d], y \in consumed[d] :
             y.run = v.run /\ ProposalId(y) = <<v.id.path, v.id.before>> /\ Fresh(y) =>
                \E x \in Effective' : x.id = v.id]_vars
  <2> SUFFICES ASSUME IInv, [Next]_vars, NEW d \in Drainers, Reported(d),
                      NEW v \in verdict[d], NEW y \in consumed[d],
                      y.run = v.run, ProposalId(y) = <<v.id.path, v.id.before>>, Fresh(y)
               PROVE  \E x \in Effective' : x.id = v.id
    BY Zenon
  <2>1. RecordLook(d) \/ RecordAppend(d)
    BY OnlyRecordReports DEF IInv
  <2>2. \E x \in decided' : x.id = v.id
    <3>1. CASE RecordLook(d)
      <4>1. \E u \in verdict[d], x \in decided : x.id = u.id
        BY <3>1, ConstantFacts DEF RecordLook, Reported, Goto, IInv, TypeOK
      <4>2. \A u \in verdict[d] : u = v
        BY DEF IInv, VerdictOK
      <4>3. decided' = decided
        BY <3>1 DEF RecordLook, decided
      <4> QED
        BY <4>1, <4>2, <4>3
    <3>2. CASE RecordAppend(d)
      <4>1. PICK u \in verdict[d] : history' = Append(history, u)
        BY <3>2 DEF RecordAppend
      <4>2. u = v /\ v \in Decision
        BY DEF IInv, VerdictOK, TypeOK
      <4>3. v \in decided'
        BY <4>1, <4>2, AppendedIsDecided DEF IInv
      <4> QED
        BY <4>3
    <3> QED
      BY <2>1, <3>1, <3>2
  <2>3. \A w \in reverted' : w.of # v.id
    BY <2>1, FreshDecisionIsNotReverted DEF RecordLook, RecordAppend
  <2> QED
    BY <2>2, <2>3 DEF Effective
<1> QED
  BY <1>1, Invariance, PTL DEF Spec, FreshAcceptCounts

(* The variables stay in their ranges: no entry of a deleted file, and no   *)
(* generation beyond the largest one, is ever made.                        *)
THEOREM TypeCorrect == Spec => []TypeOK
<1>1. IInv => TypeOK
  BY DEF IInv
<1> QED
  BY <1>1, Invariance, PTL

-----------------------------------------------------------------------------
(* The purge *)

(* A drain has in hand only what it took; between drains, nothing. *)
HeldOK ==
    \A d \in Drainers :
        /\ todo[d] \subseteq taken[d] /\ consumed[d] \subseteq taken[d]
        /\ pc[d] = "idle" => consumed[d] = {}

LEMMA DrainKeepsHeld ==
    ASSUME TypeOK, HeldOK, NEW d \in Drainers, DrainStep(d)
    PROVE  HeldOK'
<1> USE ConstantFacts
<1>1. \A c \in Drainers : c # d => /\ pc'[c] = pc[c] /\ taken'[c] = taken[c]
                                   /\ todo'[c] = todo[c] /\ consumed'[c] = consumed[c]
  BY DEF DrainStep, DrainMarker, DrainResult, Ingest, RecordLook, RecordAppend, Purge, Goto, TypeOK
<1>2. todo'[d] \subseteq taken'[d] /\ consumed'[d] \subseteq taken'[d]
  BY DEF DrainStep, DrainMarker, DrainResult, Ingest, RecordLook, RecordAppend, Purge, Orphans, HeldOK, TypeOK
<1>3. pc'[d] = "idle" => consumed'[d] = {}
  BY DEF DrainStep, DrainMarker, DrainResult, Ingest, RecordLook, RecordAppend, Purge, Goto, HeldOK, TypeOK
<1> QED
  BY <1>1, <1>2, <1>3 DEF HeldOK

LEMMA StepHeld == TypeOK /\ HeldOK /\ [Next]_vars => HeldOK'
<1> SUFFICES ASSUME TypeOK, HeldOK, [Next]_vars PROVE HeldOK'
  OBVIOUS
<1> USE ConstantFacts
<1>1. ASSUME NEW e \in Emitters, EmitStep(e) PROVE HeldOK'
  <2>1. drainVars' = drainVars /\ \A d \in Drainers : pc'[d] = pc[d]
    BY <1>1 DEF TypeOK, EmitStep, EmitLocked, DryHistory, DryDisk, DryCheck, EmitQueue,
       EmitMarker, EmitResult, Goto
  <2> QED
    BY <2>1 DEF HeldOK, drainVars
<1>2. ASSUME NEW r \in Reverters, RevertStep(r) PROVE HeldOK'
  <2>1. drainVars' = drainVars /\ \A d \in Drainers : pc'[d] = pc[d]
    BY <1>2 DEF TypeOK, RevertStep, RevertBegin, RevertIdempotent, RevertVerify,
       RevertReplace, RevertLog, Release, Goto
  <2> QED
    BY <2>1 DEF HeldOK, drainVars
<1>3. ASSUME NEW p \in Procs, Crash(p) PROVE HeldOK'
  BY <1>3 DEF HeldOK, Crash, Goto, TypeOK
<1>4. CASE (\E p \in Paths : Edit(p)) \/ (\E r \in Runs : Expire(r)) \/ UNCHANGED vars
  <2>1. drainVars' = drainVars /\ pc' = pc
    BY <1>4 DEF Edit, Expire, vars
  <2> QED
    BY <2>1 DEF HeldOK, drainVars
<1> QED
  BY <1>1, <1>2, <1>3, <1>4, DrainKeepsHeld DEF Next

LEMMA OnlyPurgeEnds ==
    ASSUME TypeOK, [Next]_vars, NEW d \in Drainers, pc[d] = "drain", pc'[d] = "idle"
    PROVE  Purge(d) \/ marker' = marker
<1> USE ConstantFacts
<1>1. ASSUME NEW c \in Drainers, DrainStep(c) PROVE Purge(d)
  BY <1>1 DEF TypeOK, DrainStep, DrainMarker, DrainResult, Ingest, RecordLook, RecordAppend, Purge, Goto
<1>2. ASSUME NEW e \in Emitters, EmitStep(e) PROVE FALSE
  BY <1>2 DEF TypeOK, EmitStep, EmitLocked, DryHistory, DryDisk, DryCheck, EmitQueue,
     EmitMarker, EmitResult, Goto
<1>3. ASSUME NEW r \in Reverters, RevertStep(r) PROVE FALSE
  BY <1>3 DEF TypeOK, RevertStep, RevertBegin, RevertIdempotent, RevertVerify,
     RevertReplace, RevertLog, Release, Goto
<1>4. ASSUME NEW p \in Procs, Crash(p) PROVE marker' = marker
  BY <1>4 DEF Crash
<1>5. pc' # pc
  OBVIOUS
<1> QED
  BY <1>1, <1>2, <1>3, <1>4, <1>5 DEF Next, Edit, Expire, vars

(* drain_pending goes by the run and the proposal of what it consumed, and  *)
(* these name one entry: nothing else leaves the marker.                   *)
THEOREM PurgeSparesOthers == Spec => PurgeSparesLaterEntries
<1>1. Init => HeldOK
  BY DEF Init, HeldOK
<1>2. IInv /\ HeldOK /\ [Next]_vars => HeldOK'
  BY StepHeld DEF IInv
<1>3. IInv /\ HeldOK /\ [Next]_vars =>
        [\A d \in Drainers :
          pc[d] = "drain" /\ pc'[d] = "idle" => marker \ marker' \subseteq taken[d]]_vars
  <2> SUFFICES ASSUME IInv, HeldOK, [Next]_vars, NEW d \in Drainers,
                      pc[d] = "drain", pc'[d] = "idle", NEW x \in marker, x \notin marker'
               PROVE  x \in taken[d]
    OBVIOUS
  <2>1. Purge(d)
    BY OnlyPurgeEnds DEF IInv
  <2>2. PICK y \in consumed[d] : y.run = x.run /\ ProposalId(y) = ProposalId(x)
    BY <2>1 DEF Purge, Drained
  <2>3. x \in Entry /\ y \in Entry /\ Known(x) /\ Known(y)
    BY <2>2 DEF IInv, TypeOK, Known
  <2>4. x = y
    BY <2>2, <2>3 DEF IInv, KnownByRun, ProposalId
  <2> QED
    BY <2>2, <2>4 DEF HeldOK
<1> QED
  BY <1>1, <1>2, <1>3, Invariance, PTL DEF Spec, PurgeSparesLaterEntries

-----------------------------------------------------------------------------
(* The snapshot *)

(* A revert under way holds the history lock. *)
(* The generations a dry run goes by are still those of the history. *)
DryOK(e) ==
    /\ pc[e] = "disk" => \A p \in Paths : oldGen[e][p] = Generation(p)
    /\ pc[e] = "check" => \A x \in pending[e] : x.gen = Generation(x.path)

(* While the lock file does not exist no revert has begun. *)
SidecarOK ==
    ~sidecar => /\ \A r \in Reverters : pc[r] = "idle"
                /\ \A e \in Emitters : DryOK(e)

(* DryOK depends on these alone. *)
LEMMA SameDry ==
    ASSUME NEW e \in Emitters, DryOK(e), reverted' = reverted,
           pc'[e] = pc[e], oldGen'[e] = oldGen[e], pending'[e] = pending[e]
    PROVE  DryOK(e)'
BY DEF DryOK, Generation, GensOf

LEMMA EmitKeepsSidecar ==
    ASSUME TypeOK, SidecarOK, NEW e \in Emitters, EmitStep(e)
    PROVE  SidecarOK'
<1> USE ConstantFacts
<1> SUFFICES ASSUME ~sidecar' PROVE SidecarOK'
  BY DEF SidecarOK
<1>1. ~sidecar /\ reverted' = reverted /\ \A r \in Reverters : pc'[r] = pc[r]
  BY DEF TypeOK, EmitStep, EmitLocked, DryHistory, DryDisk, DryCheck, EmitQueue,
     EmitMarker, EmitResult, Goto, historyVars
<1>2. \A c \in Emitters : DryOK(c)
  BY <1>1 DEF SidecarOK
<1>3. ASSUME NEW c \in Emitters, c # e PROVE DryOK(c)'
  <2>1. pc'[c] = pc[c] /\ oldGen'[c] = oldGen[c] /\ pending'[c] = pending[c]
    BY <1>3 DEF TypeOK, EmitStep, EmitLocked, DryHistory, DryDisk, DryCheck, EmitQueue,
       EmitMarker, EmitResult, Goto
  <2> QED
    BY <1>1, <1>2, <2>1, SameDry
<1>4. DryOK(e)'
  <2>1. CASE DryHistory(e)
    <3>1. pc'[e] = "disk" /\ oldGen'[e] = CurrentGens
      BY <2>1 DEF DryHistory, Goto, TypeOK
    <3>2. \A p \in Paths : Generation(p)' = Generation(p)
      BY <1>1 DEF Generation, GensOf
    <3> QED
      BY <3>1, <3>2 DEF DryOK, CurrentGens
  <2>2. CASE DryDisk(e)
    <3>1. pc[e] = "disk" /\ pc'[e] = "check"
      BY <2>2 DEF DryDisk, Goto, TypeOK
    <3>2. \A x \in pending'[e] : x.path \in Paths /\ x.gen = oldGen[e][x.path]
      BY <2>2 DEF DryDisk, Snapshot, TypeOK
    <3>3. \A p \in Paths : Generation(p)' = Generation(p)
      BY <1>1 DEF Generation, GensOf
    <3> QED
      BY <1>2, <3>1, <3>2, <3>3 DEF DryOK
  <2>3. CASE ~(DryHistory(e) \/ DryDisk(e))
    <3>1. pc'[e] \notin {"disk", "check"}
      BY <2>3 DEF TypeOK, EmitStep, EmitLocked, DryCheck, EmitQueue, EmitMarker, EmitResult,
         Goto
    <3> QED
      BY <3>1 DEF DryOK
  <2> QED
    BY <2>1, <2>2, <2>3
<1> QED
  BY <1>1, <1>3, <1>4 DEF SidecarOK

LEMMA StepSidecar == TypeOK /\ SidecarOK /\ [Next]_vars => SidecarOK'
<1> SUFFICES ASSUME TypeOK, SidecarOK, [Next]_vars PROVE SidecarOK'
  OBVIOUS
<1> USE ConstantFacts
<1> DEFINE Quiet ==
        /\ sidecar' = sidecar /\ reverted' = reverted
        /\ \A r \in Reverters : pc[r] = "idle" => pc'[r] = "idle"
        /\ \A e \in Emitters : \/ pc'[e] = "idle"
                               \/ /\ pc'[e] = pc[e] /\ oldGen'[e] = oldGen[e]
                                  /\ pending'[e] = pending[e]
<1>1. ASSUME Quiet, ~sidecar' PROVE SidecarOK'
  <2>1. ASSUME NEW e \in Emitters PROVE DryOK(e)'
    <3>1. CASE pc'[e] = "idle"
      BY <3>1 DEF DryOK
    <3>2. CASE pc'[e] = pc[e] /\ oldGen'[e] = oldGen[e] /\ pending'[e] = pending[e]
      BY <1>1, <3>2, SameDry DEF SidecarOK
    <3> QED
      BY <1>1, <3>1, <3>2
  <2> QED
    BY <1>1, <2>1 DEF SidecarOK
<1>2. CASE sidecar'
  BY <1>2 DEF SidecarOK
<1>3. ASSUME ~sidecar', NEW d \in Drainers, DrainStep(d) PROVE Quiet
  BY <1>3 DEF TypeOK, DrainStep, DrainMarker, DrainResult, Ingest, RecordLook, RecordAppend, Purge, Goto,
     historyVars, emitVars
<1>4. ASSUME ~sidecar', NEW r \in Reverters, RevertStep(r) PROVE FALSE
  <2>1. ~sidecar /\ pc[r] # "idle"
    BY <1>4 DEF RevertStep, RevertBegin, RevertIdempotent, RevertVerify, RevertReplace,
       RevertLog, historyVars
  <2> QED
    BY <2>1 DEF SidecarOK
<1>5. ASSUME ~sidecar', NEW p \in Procs, Crash(p) PROVE Quiet
  BY <1>5 DEF Crash, Goto, TypeOK
<1>6. ASSUME (\E p \in Paths : Edit(p)) \/ (\E r \in Runs : Expire(r)) \/ UNCHANGED vars
      PROVE  Quiet
  BY <1>6 DEF Edit, Expire, vars, historyVars, emitVars
<1> QED
  BY <1>1, <1>2, <1>3, <1>4, <1>5, <1>6, EmitKeepsSidecar DEF Next

(* A run that publishes read the history and the files as one: the lock, or *)
(* its absence before and after, kept every revert out.                    *)
THEOREM SnapshotsAreCommitted == Spec => SnapshotIsCommitted
<1>1. Init => SidecarOK
  BY ConstantFacts DEF Init, SidecarOK, DryOK
<1>2. IInv /\ SidecarOK /\ [Next]_vars => SidecarOK'
  BY StepSidecar DEF IInv
<1>3. IInv /\ SidecarOK /\ [Next]_vars =>
        [\A e \in Emitters :
          pc[e] \in {"idle", "history", "check"} /\ pc'[e] \in {"queue", "marker"} =>
             /\ \A x \in pending'[e] : x.gen = Generation(x.path)
             /\ \A r \in Reverters : pc[r] # "log"]_vars
  <2> SUFFICES ASSUME IInv, SidecarOK, [Next]_vars, NEW e \in Emitters,
                      pc[e] \in {"idle", "history", "check"}, pc'[e] \in {"queue", "marker"}
               PROVE  /\ \A x \in pending'[e] : x.gen = Generation(x.path)
                      /\ \A r \in Reverters : pc[r] # "log"
    OBVIOUS
  <2> USE ConstantFacts
  <2>1. EmitLocked(e) \/ DryCheck(e)
    BY DEF IInv, TypeOK, Next, EmitStep, EmitLocked, DryHistory, DryDisk, DryCheck, EmitQueue,
       EmitMarker, EmitResult, DrainStep, DrainMarker, DrainResult, Ingest, RecordLook, RecordAppend, Purge,
       RevertStep, RevertBegin, RevertIdempotent, RevertVerify, RevertReplace, RevertLog,
       Release, Crash, Edit, Expire, Goto, vars
  <2>2. CASE EmitLocked(e)
    <3>1. \A x \in pending'[e] : x.path \in Paths /\ x.gen = CurrentGens[x.path]
      BY <2>2 DEF EmitLocked, Snapshot, IInv, TypeOK
    <3>2. lock = Nobody
      BY <2>2 DEF EmitLocked
    <3> QED
      BY <3>1, <3>2, ConstantFacts DEF CurrentGens, LockOK, IInv
  <2>3. CASE DryCheck(e)
    <3>1. ~sidecar /\ pc[e] = "check" /\ pending'[e] = pending[e]
      BY <2>3 DEF DryCheck, Goto, IInv, TypeOK
    <3> QED
      BY <3>1 DEF SidecarOK, DryOK
  <2> QED
    BY <2>1, <2>2, <2>3
<1> QED
  BY <1>1, <1>2, <1>3, Invariance, PTL DEF Spec, SnapshotIsCommitted
=============================================================================
