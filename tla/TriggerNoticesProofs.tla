------------------------ MODULE TriggerNoticesProofs ------------------------
(***************************************************************************)
(* What TriggerNotices promises, for any number of processes, reasons,     *)
(* runs, notices and faults.                                               *)
(*                                                                         *)
(* The state: whoever has loaded it carries every update that met nobody,  *)
(* for an update saved beside another load counts as exposed.  The notice: *)
(* its number is written once, so a notice that left the file does not     *)
(* come back; who holds it alone shows it alone; and what a hook removes   *)
(* is the notice it has read or one that came late.                        *)
(***************************************************************************)
EXTENDS TriggerNotices, TLAPS

Deliverers == Starters \cup Loaders

LEMMA StateFacts ==
    /\ Blank \in States /\ Blank.run = 0
    /\ \A s \in States : s.run \in 0 .. MaxRuns /\ s.fired \in SUBSET Reasons
    /\ \A s \in States, due \in SUBSET Reasons :
          /\ [s EXCEPT !.fired = @ \cup due] \in States
          /\ [s EXCEPT !.fired = @ \cup due].run = s.run
          /\ [s EXCEPT !.fired = @ \cup due].fired = s.fired \cup due
    /\ \A s \in States, k \in 0 .. MaxRuns :
          /\ [s EXCEPT !.run = k] \in States
          /\ [s EXCEPT !.run = k].run = k
          /\ [s EXCEPT !.run = k].fired = s.fired
<1>1. Blank \in States /\ Blank.run = 0
  BY BoundsAssumption DEF Blank, States
<1>2. ASSUME NEW s \in States PROVE s.run \in 0 .. MaxRuns /\ s.fired \in SUBSET Reasons
  BY DEF States
<1>3. ASSUME NEW s \in States, NEW due \in SUBSET Reasons
      PROVE  /\ [s EXCEPT !.fired = @ \cup due] \in States
             /\ [s EXCEPT !.fired = @ \cup due].run = s.run
             /\ [s EXCEPT !.fired = @ \cup due].fired = s.fired \cup due
  BY DEF States
<1>4. ASSUME NEW s \in States, NEW k \in 0 .. MaxRuns
      PROVE  /\ [s EXCEPT !.run = k] \in States
             /\ [s EXCEPT !.run = k].run = k
             /\ [s EXCEPT !.run = k].fired = s.fired
  BY DEF States
<1> QED
  BY <1>1, <1>2, <1>3, <1>4

LEMMA TornIsNoState == Torn \notin States
<1>1. "torn" \in DOMAIN Torn
  BY DEF Torn
<1>2. \A s \in States : DOMAIN s = {"run", "fired"}
  BY DEF States
<1> QED
  BY <1>1, <1>2

LEMMA NoticeFacts ==
    /\ Absent \notin Notices /\ Empty \notin Notices /\ Empty # Absent
    /\ Absent \in 0 .. Empty /\ Empty \in 0 .. Empty /\ Absent \in 0 .. MaxNotices
    /\ \A n \in Notices : n \in 0 .. Empty /\ n \in 0 .. MaxNotices /\ n # Absent
    /\ \A n \in 0 .. Empty : n = Absent \/ n = Empty \/ n \in Notices
    /\ \A n \in 0 .. MaxNotices : n = Absent \/ n \in Notices
BY BoundsAssumption DEF Absent, Empty, Notices

LEMMA ProcFacts ==
    /\ \A p \in Writers : p \in Procs /\ p \notin Deliverers
    /\ \A p \in Deliverers : p \in Procs /\ p \notin Writers /\ p # Nobody
    /\ \A p \in Starters : p \in Deliverers /\ p \notin Loaders
    /\ \A p \in Loaders : p \in Deliverers /\ p \notin Starters
BY ProcsAssumption DEF Procs, Deliverers

------------------------------------------------------------------------------
(* Type correctness.                                                        *)

StateTypes ==
    /\ state \in States \cup {Torn}
    /\ update \in [Writers -> SUBSET Facts]
    /\ copy \in [Writers -> States]
    /\ mixed \subseteq Writers
    /\ done \subseteq Facts
    /\ exposed \subseteq Facts

NoticeTypes ==
    /\ number \in [Writers -> 0 .. MaxNotices]
    /\ pending \in 0 .. Empty
    /\ cut \subseteq Writers /\ crossed \subseteq Writers
    /\ held \in [Deliverers -> 0 .. Empty]
    /\ lock \in Starters \cup {Nobody}
    /\ shown \in [Notices -> Nat]
    /\ late \in [Deliverers -> SUBSET Notices]
    /\ written \subseteq Notices /\ settled \subseteq Notices
    /\ doubled \subseteq Notices \cup {Empty}

BoundTypes == runs \in 0 .. MaxRuns /\ notices \in 0 .. MaxNotices /\ faults \in 0 .. MaxFaults

PcTypes == pc \in [Procs -> WriterLabels \cup DeliveryLabels]

HeldOK == \A p \in Deliverers : pc[p] \in {"print", "delete", "show"} => held[p] \in Notices

NumberedOK == \A p \in Writers : pc[p] \in {"openNotice", "writeNotice"} => number[p] \in Notices

TypeInv == StateTypes /\ NoticeTypes /\ BoundTypes /\ PcTypes /\ HeldOK /\ NumberedOK

LEMMA TypeParts == TypeInv => TypeOK
BY DEF TypeInv, TypeOK, StateTypes, NoticeTypes, BoundTypes, PcTypes, Deliverers

LEMMA GotoFrame ==
    ASSUME PcTypes, NEW p \in Procs, NEW label \in WriterLabels \cup DeliveryLabels, Goto(p, label)
    PROVE  PcTypes' /\ pc'[p] = label /\ \A q \in Procs \ {p} : pc'[q] = pc[q]
BY DEF PcTypes, Goto

LEMMA FaultStays == ASSUME BoundTypes, Fault PROVE faults' \in 0 .. MaxFaults
BY BoundsAssumption DEF BoundTypes, Fault

LEMMA LoadTypes ==
    ASSUME TypeInv, NEW p \in Writers, NEW u \in SUBSET Facts, NEW c \in States, Load(p, u, c),
           UNCHANGED <<state, mixed, done>>, exposed' \in {exposed, done}
    PROVE  /\ StateTypes' /\ PcTypes' /\ pc'[p] = "open"
           /\ \A q \in Procs \ {p} : pc'[q] = pc[q]
<1>1. StateTypes'
  BY DEF TypeInv, StateTypes, Load
<1> QED
  BY <1>1, GotoFrame, ProcFacts DEF TypeInv, Load, WriterLabels

(* No saved or loaded state knows a run that was not drained.               *)
RunsOK ==
    /\ state # Torn => state.run <= runs
    /\ \A p \in Writers : copy[p].run <= runs

(* What is read is the state, or nothing, and then every update is exposed. *)
ReadsAs(s) ==
    /\ s \in States /\ s.run <= runs
    /\ exposed' = done \/ (exposed' = exposed /\ s = state /\ state # Torn)
    /\ faults' \in 0 .. MaxFaults

LEMMA ReadingsFacts ==
    ASSUME TypeInv, RunsOK, NEW s \in States, Readings(s)
    PROVE  ReadsAs(s)
<1>1. runs \in Nat /\ faults \in 0 .. MaxFaults
  BY DEF TypeInv, BoundTypes
<1>2. Fault => faults' \in 0 .. MaxFaults
  BY FaultStays DEF TypeInv
<1> QED
  BY <1>1, <1>2, StateFacts DEF Readings, ReadsAs, RunsOK

(* The updates a writer carries, for what they are.                         *)
LoadsWith(p, u, c) ==
    /\ Load(p, u, c)
    /\ \/ exposed' = done
       \/ /\ exposed' = exposed /\ state # Torn
          /\ state.run <= c.run /\ state.fired \subseteq c.fired
    /\ \A fact \in u : Reflects(c, fact)
    /\ c.run <= runs'

LEMMA LoadFired ==
    ASSUME TypeInv, NEW s \in States, ReadsAs(s), NEW p \in Writers,
           NEW due \in SUBSET Reasons, runs' = runs,
           Load(p, due, [s EXCEPT !.fired = @ \cup due])
    PROVE  \E u \in SUBSET Facts, c \in States : LoadsWith(p, u, c)
<1> DEFINE c == [s EXCEPT !.fired = @ \cup due]
<1>1. c \in States /\ c.run = s.run /\ c.fired = s.fired \cup due
  BY StateFacts
<1>2. s.run \in 0 .. MaxRuns /\ s.run <= runs /\ runs \in 0 .. MaxRuns
  BY StateFacts DEF TypeInv, BoundTypes, ReadsAs
<1>3. Load(p, due, c)
  OBVIOUS
<1> HIDE DEF c
<1>4. \A fact \in due : Reflects(c, fact)
  BY <1>1 DEF Reflects
<1>5. LoadsWith(p, due, c)
  BY <1>1, <1>2, <1>3, <1>4 DEF LoadsWith, ReadsAs
<1>6. due \in SUBSET Facts
  BY DEF Facts
<1> QED
  BY <1>1, <1>5, <1>6

LEMMA LoadCases ==
    ASSUME TypeInv, RunsOK, NEW p \in Writers,
           EvaluateSessionEnd(p) \/ EvaluatePrompt(p) \/ Drain(p)
    PROVE  /\ UNCHANGED <<state, mixed, done, pending, cut, crossed, held, lock,
                          written, shown, late, settled, doubled>>
           /\ faults' \in 0 .. MaxFaults /\ exposed' \in {exposed, done}
           /\ \E u \in SUBSET Facts, c \in States : LoadsWith(p, u, c)
           /\ runs <= runs' /\ runs' \in 0 .. MaxRuns
           /\ \/ notices' = notices /\ number' = number
              \/ /\ notices' = notices + 1 /\ notices < MaxNotices
                 /\ number' = [number EXCEPT ![p] = notices + 1]
<1>0. runs \in 0 .. MaxRuns
  BY DEF TypeInv, BoundTypes
<1>1. CASE EvaluateSessionEnd(p)
  <2>1. PICK s \in States :
            /\ Readings(s)
            /\ \E due \in SUBSET (Noticed \ s.fired) \ {{}} :
                  Load(p, due, [s EXCEPT !.fired = @ \cup due])
    BY <1>1 DEF EvaluateSessionEnd
  <2>2. ReadsAs(s)
    BY <2>1, ReadingsFacts
  <2>3. PICK due \in SUBSET (Noticed \ s.fired) \ {{}} :
            Load(p, due, [s EXCEPT !.fired = @ \cup due])
    BY <2>1
  <2>4. due \in SUBSET Reasons /\ runs' = runs
    BY <1>1, ReasonsAssumption DEF EvaluateSessionEnd
  <2>5. \E u \in SUBSET Facts, c \in States : LoadsWith(p, u, c)
    BY <2>2, <2>3, <2>4, LoadFired
  <2> QED
    BY <1>0, <1>1, <2>2, <2>5 DEF EvaluateSessionEnd, ReadsAs
<1>2. CASE EvaluatePrompt(p)
  <2>1. PICK s \in States :
            /\ Readings(s)
            /\ \E r \in Reasons \ (Noticed \cup s.fired) :
                  Load(p, {r}, [s EXCEPT !.fired = @ \cup {r}])
    BY <1>2 DEF EvaluatePrompt
  <2>2. ReadsAs(s)
    BY <2>1, ReadingsFacts
  <2>3. PICK r \in Reasons \ (Noticed \cup s.fired) :
            Load(p, {r}, [s EXCEPT !.fired = @ \cup {r}])
    BY <2>1
  <2>4. {r} \in SUBSET Reasons /\ runs' = runs
    BY <1>2 DEF EvaluatePrompt
  <2>5. \E u \in SUBSET Facts, c \in States : LoadsWith(p, u, c)
    BY <2>2, <2>3, <2>4, LoadFired
  <2> QED
    BY <1>0, <1>2, <2>2, <2>5 DEF EvaluatePrompt, noticeVars, ReadsAs
<1>3. CASE Drain(p)
  <2>1. PICK s \in States : Readings(s) /\ Load(p, {runs + 1}, [s EXCEPT !.run = runs + 1])
    BY <1>3 DEF Drain
  <2> DEFINE c == [s EXCEPT !.run = runs + 1]
  <2>2. ReadsAs(s)
    BY <2>1, ReadingsFacts
  <2>3. runs' = runs + 1 /\ runs + 1 \in 1 .. MaxRuns /\ Load(p, {runs + 1}, c)
    BY <1>0, <1>3, <2>1, BoundsAssumption DEF Drain
  <2>4. c \in States /\ c.run = runs + 1 /\ c.fired = s.fired
    BY <1>0, <2>3, BoundsAssumption, StateFacts
  <2>5. s.run \in Nat /\ s.run <= runs
    BY <2>2, StateFacts DEF ReadsAs
  <2> HIDE DEF c
  <2>6. Reflects(c, runs + 1)
    BY <2>3, <2>4, ReasonsAssumption DEF Reflects
  <2>7. {runs + 1} \in SUBSET Facts
    BY <2>3 DEF Facts
  <2>8. LoadsWith(p, {runs + 1}, c)
    BY <1>0, <2>2, <2>3, <2>4, <2>5, <2>6 DEF LoadsWith, ReadsAs
  <2>9. \E u \in SUBSET Facts, d \in States : LoadsWith(p, u, d)
    BY <2>4, <2>7, <2>8
  <2> QED
    BY <1>0, <1>3, <2>2, <2>3, <2>9 DEF Drain, noticeVars, ReadsAs
<1> QED
  BY <1>1, <1>2, <1>3

LEMMA WriterMoves ==
    ASSUME HeldOK, NEW p \in Writers, held' = held, \A q \in Procs \ {p} : pc'[q] = pc[q]
    PROVE  HeldOK'
BY ProcFacts DEF HeldOK

LEMMA DelivererMoves ==
    ASSUME NumberedOK, NEW p \in Deliverers, number' = number,
           \A q \in Procs \ {p} : pc'[q] = pc[q]
    PROVE  NumberedOK'
BY ProcFacts DEF NumberedOK

LEMMA WriterTypes ==
    ASSUME TypeInv, RunsOK, NEW p \in Writers, WriterStep(p)
    PROVE  TypeInv'
<1> USE DEF TypeInv
<1> p \in Procs
  BY ProcFacts
<1>1. CASE EvaluateSessionEnd(p) \/ EvaluatePrompt(p) \/ Drain(p)
  <2>1. PICK u \in SUBSET Facts, c \in States : Load(p, u, c)
    BY <1>1, LoadCases DEF LoadsWith
  <2>2. StateTypes' /\ PcTypes' /\ pc'[p] = "open" /\ \A q \in Procs \ {p} : pc'[q] = pc[q]
    BY <1>1, <2>1, LoadCases, LoadTypes
  <2>3. number' \in [Writers -> 0 .. MaxNotices] /\ notices' \in 0 .. MaxNotices
        /\ \A q \in Writers \ {p} : number'[q] = number[q]
    BY <1>1, LoadCases, BoundsAssumption DEF BoundTypes, NoticeTypes
  <2>4. NoticeTypes' /\ BoundTypes'
    BY <1>1, <2>3, LoadCases DEF NoticeTypes, BoundTypes
  <2>5. HeldOK'
    BY <1>1, <2>2, LoadCases, WriterMoves
  <2>6. NumberedOK'
    BY <2>2, <2>3, ProcFacts DEF NumberedOK
  <2> QED
    BY <2>2, <2>4, <2>5, <2>6
<1>2. CASE OpenState(p)
  <2>1. PcTypes' /\ pc'[p] = "save" /\ \A q \in Procs \ {p} : pc'[q] = pc[q]
    BY <1>2, GotoFrame DEF OpenState, WriterLabels
  <2>2. StateTypes' /\ NoticeTypes' /\ BoundTypes'
    BY <1>2 DEF OpenState, StateTypes, NoticeTypes, BoundTypes, noticeVars, boundVars, Saving
  <2>3. HeldOK'
    BY <1>2, <2>1, WriterMoves DEF OpenState, noticeVars
  <2>4. NumberedOK'
    BY <1>2, <2>1, ProcFacts DEF NumberedOK, OpenState, noticeVars
  <2> QED
    BY <2>1, <2>2, <2>3, <2>4
<1>3. CASE SaveState(p)
  <2>1. PcTypes' /\ pc'[p] = (IF number[p] = Absent THEN "idle" ELSE "openNotice")
        /\ \A q \in Procs \ {p} : pc'[q] = pc[q]
    BY <1>3, GotoFrame DEF SaveState, WriterLabels
  <2>2. Blank \in States
    BY StateFacts
  <2>3. StateTypes'
    BY <1>3, <2>2 DEF SaveState, StateTypes
  <2>4. NoticeTypes' /\ BoundTypes'
    BY <1>3 DEF SaveState, NoticeTypes, BoundTypes, noticeVars, boundVars
  <2>5. HeldOK'
    BY <1>3, <2>1, WriterMoves DEF SaveState, noticeVars
  <2>6. NumberedOK'
    BY <1>3, <2>1, ProcFacts, NoticeFacts DEF NumberedOK, SaveState, noticeVars, NoticeTypes
  <2> QED
    BY <2>1, <2>3, <2>4, <2>5, <2>6
<1>4. CASE OpenNotice(p)
  <2>1. PcTypes' /\ pc'[p] = "writeNotice" /\ \A q \in Procs \ {p} : pc'[q] = pc[q]
    BY <1>4, GotoFrame DEF OpenNotice, WriterLabels
  <2>2. StateTypes' /\ BoundTypes'
    BY <1>4 DEF OpenNotice, StateTypes, BoundTypes, stateVars, boundVars
  <2>3. NoticeTypes'
    BY <1>4, NoticeFacts DEF OpenNotice, NoticeTypes
  <2>4. HeldOK'
    BY <1>4, <2>1, WriterMoves DEF OpenNotice
  <2>5. NumberedOK'
    BY <1>4, <2>1, ProcFacts DEF NumberedOK, OpenNotice
  <2> QED
    BY <2>1, <2>2, <2>3, <2>4, <2>5
<1>5. CASE WriteNotice(p)
  <2>1. PcTypes' /\ pc'[p] = "idle" /\ \A q \in Procs \ {p} : pc'[q] = pc[q]
    BY <1>5, GotoFrame DEF WriteNotice, WriterLabels
  <2>2. StateTypes' /\ BoundTypes' /\ held' = held /\ lock' = lock /\ shown' = shown
        /\ doubled' = doubled
    BY <1>5 DEF WriteNotice, StateTypes, BoundTypes, stateVars, boundVars
  <2>3. number[p] \in Notices
    BY <1>5 DEF WriteNotice, NumberedOK
  <2>4. number' \in [Writers -> 0 .. MaxNotices] /\ \A q \in Writers \ {p} : number'[q] = number[q]
    BY <1>5, NoticeFacts DEF WriteNotice, NoticeTypes
  <2>5. cut' \subseteq Writers /\ crossed' \subseteq Writers
    BY <1>5 DEF WriteNotice, NoticeTypes, Linked
  <2>6. pending' \in 0 .. Empty /\ written' \subseteq Notices /\ settled' \subseteq Notices
    BY <1>5, <2>3, NoticeFacts DEF WriteNotice, NoticeTypes
  <2>7. late' \in [Deliverers -> SUBSET Notices]
    BY <1>5, <2>3 DEF WriteNotice, NoticeTypes
  <2>8. NoticeTypes'
    BY <2>2, <2>4, <2>5, <2>6, <2>7 DEF NoticeTypes
  <2>9. HeldOK' /\ NumberedOK'
    BY <2>1, <2>2, <2>4, WriterMoves, ProcFacts DEF NumberedOK
  <2> QED
    BY <2>1, <2>2, <2>8, <2>9
<1>6. CASE WriterDies(p)
  <2>1. PcTypes' /\ pc'[p] = "idle" /\ \A q \in Procs \ {p} : pc'[q] = pc[q]
    BY <1>6, GotoFrame DEF WriterDies, WriterLabels
  <2>2. StateTypes'
    BY <1>6, StateFacts DEF WriterDies, StateTypes
  <2>3. BoundTypes'
    BY <1>6, FaultStays DEF WriterDies, BoundTypes
  <2>4. NoticeTypes'
    BY <1>6, NoticeFacts DEF WriterDies, NoticeTypes
  <2>5. HeldOK'
    BY <1>6, <2>1, WriterMoves DEF WriterDies
  <2>6. NumberedOK'
    BY <1>6, <2>1, ProcFacts DEF NumberedOK, WriterDies, NoticeTypes
  <2> QED
    BY <2>1, <2>2, <2>3, <2>4, <2>5, <2>6
<1> QED
  BY <1>1, <1>2, <1>3, <1>4, <1>5, <1>6 DEF WriterStep

LEMMA ReleaseTypes ==
    ASSUME TypeInv, NEW p \in Starters, Release(p)
    PROVE  /\ PcTypes' /\ pc'[p] = "idle" /\ \A q \in Procs \ {p} : pc'[q] = pc[q]
           /\ held' \in [Deliverers -> 0 .. Empty] /\ held'[p] = Absent
           /\ \A q \in Deliverers \ {p} : held'[q] = held[q]
           /\ late' \in [Deliverers -> SUBSET Notices]
           /\ \A q \in Deliverers \ {p} : late'[q] = late[q]
           /\ lock' = Nobody /\ HeldOK'
<1>1. PcTypes' /\ pc'[p] = "idle" /\ \A q \in Procs \ {p} : pc'[q] = pc[q]
  BY GotoFrame, ProcFacts DEF TypeInv, Release, WriterLabels
<1>2. p \in Deliverers
  BY ProcFacts
<1>3. held' \in [Deliverers -> 0 .. Empty] /\ held'[p] = Absent
      /\ \A q \in Deliverers \ {p} : held'[q] = held[q]
  BY <1>2, NoticeFacts DEF TypeInv, NoticeTypes, Release
<1>4. late' \in [Deliverers -> SUBSET Notices] /\ \A q \in Deliverers \ {p} : late'[q] = late[q]
  BY <1>2 DEF TypeInv, NoticeTypes, Release
<1>5. HeldOK'
  BY <1>1, <1>3, ProcFacts DEF TypeInv, HeldOK
<1> QED
  BY <1>1, <1>3, <1>4, <1>5 DEF Release

LEMMA RemoveTypes ==
    ASSUME TypeInv, NEW p \in Deliverers, Remove(p)
    PROVE  pending' \in 0 .. Empty /\ cut' \subseteq Writers /\ settled' \subseteq Notices
<1>1. late[p] \subseteq Notices
  BY DEF TypeInv, NoticeTypes
<1>2. Linked \subseteq Writers
  BY DEF Linked
<1> QED
  BY <1>1, <1>2, NoticeFacts DEF TypeInv, NoticeTypes, Remove

LEMMA StarterTypes ==
    ASSUME TypeInv, NEW p \in Starters, StarterStep(p)
    PROVE  TypeInv'
<1> USE DEF TypeInv
<1> p \in Procs /\ p \in Deliverers
  BY ProcFacts
<1>1. CASE Peek(p)
  <2>1. PcTypes' /\ pc'[p] = "print" /\ \A q \in Procs \ {p} : pc'[q] = pc[q]
    BY <1>1, GotoFrame DEF Peek, DeliveryLabels
  <2>2. StateTypes' /\ BoundTypes'
    BY <1>1 DEF Peek, StateTypes, BoundTypes, stateVars, boundVars
  <2>3. held' \in [Deliverers -> 0 .. Empty] /\ held'[p] = pending
        /\ \A q \in Deliverers \ {p} : held'[q] = held[q]
    BY <1>1 DEF Peek, NoticeTypes
  <2>4. NoticeTypes'
    BY <1>1, <2>3 DEF Peek, NoticeTypes
  <2>5. HeldOK'
    BY <1>1, <2>1, <2>3, ProcFacts DEF Peek, HeldOK
  <2>6. NumberedOK'
    BY <1>1, <2>1, DelivererMoves DEF Peek
  <2> QED
    BY <2>1, <2>2, <2>4, <2>5, <2>6
<1>2. CASE PrintNotice(p)
  <2>1. PcTypes' /\ pc'[p] = "delete" /\ \A q \in Procs \ {p} : pc'[q] = pc[q]
    BY <1>2, GotoFrame DEF PrintNotice, DeliveryLabels
  <2>2. StateTypes' /\ BoundTypes'
    BY <1>2 DEF PrintNotice, StateTypes, BoundTypes, stateVars, boundVars
  <2>3. held[p] \in Notices
    BY <1>2 DEF PrintNotice, HeldOK
  <2>4. NoticeTypes'
    BY <1>2, <2>3 DEF PrintNotice, NoticeTypes
  <2>5. HeldOK'
    BY <1>2, <2>1, <2>3, ProcFacts DEF PrintNotice, HeldOK
  <2>6. NumberedOK'
    BY <1>2, <2>1, DelivererMoves DEF PrintNotice
  <2> QED
    BY <2>1, <2>2, <2>4, <2>5, <2>6
<1>3. CASE PrintFails(p)
  <2>1. StateTypes' /\ BoundTypes'
    BY <1>3, FaultStays DEF PrintFails, StateTypes, BoundTypes, stateVars
  <2>2. Release(p)
    BY <1>3 DEF PrintFails
  <2>3. NoticeTypes'
    BY <1>3, <2>2, ReleaseTypes DEF PrintFails, NoticeTypes
  <2>4. NumberedOK'
    BY <1>3, <2>2, ReleaseTypes, DelivererMoves DEF PrintFails
  <2> QED
    BY <2>1, <2>2, <2>3, <2>4, ReleaseTypes
<1>4. CASE Delete(p)
  <2>1. StateTypes' /\ BoundTypes'
    BY <1>4 DEF Delete, StateTypes, BoundTypes, stateVars, boundVars
  <2>2. Release(p) /\ Remove(p)
    BY <1>4 DEF Delete
  <2>3. NoticeTypes'
    BY <1>4, <2>2, ReleaseTypes, RemoveTypes DEF Delete, NoticeTypes
  <2>4. NumberedOK'
    BY <1>4, <2>2, ReleaseTypes, DelivererMoves DEF Delete
  <2> QED
    BY <2>1, <2>2, <2>3, <2>4, ReleaseTypes
<1>5. CASE DeleteFails(p)
  <2>1. StateTypes' /\ BoundTypes'
    BY <1>5, FaultStays DEF DeleteFails, StateTypes, BoundTypes, stateVars
  <2>2. Release(p) /\ held[p] \in Notices
    BY <1>5 DEF DeleteFails, HeldOK
  <2>3. NoticeTypes'
    BY <1>5, <2>2, ReleaseTypes DEF DeleteFails, NoticeTypes
  <2>4. NumberedOK'
    BY <1>5, <2>2, ReleaseTypes, DelivererMoves DEF DeleteFails
  <2> QED
    BY <2>1, <2>2, <2>3, <2>4, ReleaseTypes
<1>6. CASE StarterDies(p)
  <2>1. StateTypes' /\ BoundTypes'
    BY <1>6, FaultStays DEF StarterDies, StateTypes, BoundTypes, stateVars
  <2>2. Release(p) /\ (pc[p] = "delete" => held[p] \in Notices)
    BY <1>6 DEF StarterDies, HeldOK
  <2>3. NoticeTypes'
    BY <1>6, <2>2, ReleaseTypes DEF StarterDies, NoticeTypes
  <2>4. NumberedOK'
    BY <1>6, <2>2, ReleaseTypes, DelivererMoves DEF StarterDies
  <2> QED
    BY <2>1, <2>2, <2>3, <2>4, ReleaseTypes
<1> QED
  BY <1>1, <1>2, <1>3, <1>4, <1>5, <1>6 DEF StarterStep

LEMMA LoaderTypes ==
    ASSUME TypeInv, NEW p \in Loaders, LoaderStep(p)
    PROVE  TypeInv'
<1> USE DEF TypeInv
<1> p \in Procs /\ p \in Deliverers
  BY ProcFacts
<1>1. CASE Read(p)
  <2>1. PcTypes' /\ pc'[p] = "unlink" /\ \A q \in Procs \ {p} : pc'[q] = pc[q]
    BY <1>1, GotoFrame DEF Read, DeliveryLabels
  <2>2. StateTypes' /\ BoundTypes'
    BY <1>1 DEF Read, StateTypes, BoundTypes, stateVars, boundVars
  <2>3. held' \in [Deliverers -> 0 .. Empty] /\ held'[p] = pending
        /\ \A q \in Deliverers \ {p} : held'[q] = held[q]
    BY <1>1 DEF Read, NoticeTypes
  <2>4. doubled' \subseteq Notices \cup {Empty}
    BY <1>1, NoticeFacts DEF Read, NoticeTypes
  <2>5. NoticeTypes'
    BY <1>1, <2>3, <2>4 DEF Read, NoticeTypes
  <2>6. HeldOK'
    BY <1>1, <2>1, <2>3, ProcFacts DEF Read, HeldOK
  <2>7. NumberedOK'
    BY <1>1, <2>1, DelivererMoves DEF Read
  <2> QED
    BY <2>1, <2>2, <2>5, <2>6, <2>7
<1>2. CASE Unlink(p)
  <2>1. PcTypes' /\ pc'[p] \in {"show", "idle"} /\ \A q \in Procs \ {p} : pc'[q] = pc[q]
    BY <1>2, GotoFrame DEF Unlink, DeliveryLabels
  <2>2. StateTypes' /\ BoundTypes' /\ Remove(p)
    BY <1>2 DEF Unlink, StateTypes, BoundTypes, stateVars, boundVars
  <2>3. /\ held' \in [Deliverers -> 0 .. Empty]
        /\ \A q \in Deliverers \ {p} : held'[q] = held[q]
        /\ pc'[p] = "show" => held'[p] \in Notices
    BY <1>2, NoticeFacts DEF Unlink, NoticeTypes, Goto, PcTypes
  <2>4. late' \in [Deliverers -> SUBSET Notices]
    BY <1>2 DEF Unlink, NoticeTypes
  <2>5. NoticeTypes'
    BY <1>2, <2>2, <2>3, <2>4, RemoveTypes DEF Unlink, NoticeTypes
  <2>6. ASSUME NEW q \in Deliverers, pc'[q] \in {"print", "delete", "show"}
        PROVE  held'[q] \in Notices
    <3>1. CASE q = p
      <4>1. pc'[p] = "show"
        BY <2>1, <2>6, <3>1
      <4> QED
        BY <2>3, <3>1, <4>1
    <3>2. CASE q # p
      <4>1. q \in Procs \ {p} /\ q \in Deliverers \ {p}
        BY <3>2, ProcFacts
      <4>2. pc[q] \in {"print", "delete", "show"} /\ held'[q] = held[q]
        BY <2>1, <2>3, <2>6, <4>1
      <4> QED
        BY <4>2 DEF HeldOK
    <3> QED
      BY <3>1, <3>2
  <2>7. HeldOK'
    BY <2>6 DEF HeldOK
  <2>8. NumberedOK'
    BY <1>2, <2>1, DelivererMoves DEF Unlink
  <2> QED
    BY <2>1, <2>2, <2>5, <2>7, <2>8
<1>3. CASE Show(p)
  <2>1. PcTypes' /\ pc'[p] = "idle" /\ \A q \in Procs \ {p} : pc'[q] = pc[q]
    BY <1>3, GotoFrame DEF Show, DeliveryLabels
  <2>2. StateTypes' /\ BoundTypes'
    BY <1>3 DEF Show, StateTypes, BoundTypes, stateVars, boundVars
  <2>3. held[p] \in Notices
    BY <1>3 DEF Show, HeldOK
  <2>4. held' \in [Deliverers -> 0 .. Empty] /\ \A q \in Deliverers \ {p} : held'[q] = held[q]
    BY <1>3, NoticeFacts DEF Show, NoticeTypes
  <2>5. NoticeTypes'
    BY <1>3, <2>3, <2>4 DEF Show, NoticeTypes
  <2>6. HeldOK'
    BY <2>1, <2>4, ProcFacts DEF HeldOK
  <2>7. NumberedOK'
    BY <1>3, <2>1, DelivererMoves DEF Show
  <2> QED
    BY <2>1, <2>2, <2>5, <2>6, <2>7
<1>4. CASE LoaderDies(p)
  <2>1. PcTypes' /\ pc'[p] = "idle" /\ \A q \in Procs \ {p} : pc'[q] = pc[q]
    BY <1>4, GotoFrame DEF LoaderDies, DeliveryLabels
  <2>2. StateTypes' /\ BoundTypes'
    BY <1>4, FaultStays DEF LoaderDies, StateTypes, BoundTypes, stateVars
  <2>3. pc[p] = "show" => held[p] \in Notices
    BY DEF HeldOK
  <2>4. held' \in [Deliverers -> 0 .. Empty] /\ \A q \in Deliverers \ {p} : held'[q] = held[q]
    BY <1>4, NoticeFacts DEF LoaderDies, NoticeTypes
  <2>5. late' \in [Deliverers -> SUBSET Notices]
    BY <1>4 DEF LoaderDies, NoticeTypes
  <2>6. NoticeTypes'
    BY <1>4, <2>3, <2>4, <2>5 DEF LoaderDies, NoticeTypes
  <2>7. HeldOK'
    BY <2>1, <2>4, ProcFacts DEF HeldOK
  <2>8. NumberedOK'
    BY <1>4, <2>1, DelivererMoves DEF LoaderDies
  <2> QED
    BY <2>1, <2>2, <2>6, <2>7, <2>8
<1>5. CASE ReadFails(p)
  <2>1. PcTypes' /\ pc'[p] = "unlink" /\ \A q \in Procs \ {p} : pc'[q] = pc[q]
    BY <1>5, GotoFrame DEF ReadFails, DeliveryLabels
  <2>2. StateTypes' /\ BoundTypes'
    BY <1>5, FaultStays DEF ReadFails, StateTypes, BoundTypes, stateVars
  <2>3. held' \in [Deliverers -> 0 .. Empty] /\ \A q \in Deliverers \ {p} : held'[q] = held[q]
    BY <1>5, NoticeFacts DEF ReadFails, NoticeTypes
  <2>4. NoticeTypes'
    BY <1>5, <2>3 DEF ReadFails, NoticeTypes
  <2>5. HeldOK'
    BY <2>1, <2>3, ProcFacts DEF HeldOK
  <2>6. NumberedOK'
    BY <1>5, <2>1, DelivererMoves DEF ReadFails
  <2> QED
    BY <2>1, <2>2, <2>4, <2>5, <2>6
<1> QED
  BY <1>1, <1>2, <1>3, <1>4, <1>5 DEF LoaderStep

LEMMA TypeStep == ASSUME TypeInv, RunsOK, [Next]_vars PROVE TypeInv'
<1>1. CASE UNCHANGED vars
  BY <1>1 DEF vars, TypeInv, StateTypes, NoticeTypes, BoundTypes, PcTypes, HeldOK, NumberedOK
<1>2. CASE Next
  BY <1>2, WriterTypes, StarterTypes, LoaderTypes DEF Next
<1> QED
  BY <1>1, <1>2

------------------------------------------------------------------------------
(* The state keeps every update that met nobody.                            *)

(* Whoever has loaded the state will save at least what it promised then.   *)
StateCurrent ==
    \A fact \in done \ exposed : IF state # Torn THEN Reflects(state, fact) ELSE Saving # {}

CopiesCurrent ==
    \A p \in Loaded : \A fact \in (done \ exposed) \cup update[p] : Reflects(copy[p], fact)

StateInv == TypeInv /\ RunsOK /\ StateCurrent /\ CopiesCurrent

LEMMA ReflectsGrow ==
    ASSUME NEW s \in States, NEW t \in States, s.run <= t.run, s.fired \subseteq t.fired,
           NEW fact \in Facts, Reflects(s, fact)
    PROVE  Reflects(t, fact)
<1>1. s.run \in Nat /\ t.run \in Nat
  BY StateFacts
<1>2. CASE fact \in Reasons
  BY <1>2 DEF Reflects
<1>3. CASE fact \notin Reasons
  BY <1>1, <1>3 DEF Reflects, Facts
<1> QED
  BY <1>2, <1>3

(* A step that adds no update, and leaves the state and what the writers    *)
(* carry alone, or the file torn.                                           *)
LEMMA StateStays ==
    ASSUME StateInv, TypeInv', done' = done, exposed \subseteq exposed', runs' = runs,
           \/ state' = state /\ (state = Torn => Saving' = Saving \/ done \ exposed' = {})
           \/ state' = Torn /\ (Saving' # {} \/ done \ exposed' = {}),
           \A q \in Writers : q \in Loaded' => q \in Loaded,
           \A q \in Writers : copy'[q] = copy[q] \/ (copy'[q] = Blank /\ q \notin Loaded'),
           \A q \in Loaded' : update'[q] = update[q] /\ copy'[q] = copy[q]
    PROVE  StateInv'
<1>1. RunsOK'
  BY StateFacts DEF StateInv, RunsOK, TypeInv, BoundTypes
<1>2. CopiesCurrent'
  <2>1. \A q \in Loaded' : q \in Writers
    BY DEF Loaded
  <2> QED
    BY <2>1 DEF StateInv, CopiesCurrent, Reflects
<1>3. StateCurrent'
  BY DEF StateInv, StateCurrent, Reflects
<1> QED
  BY <1>1, <1>2, <1>3 DEF StateInv

LEMMA DeliveryKeepsState ==
    ASSUME StateInv, TypeInv', NEW p \in Deliverers, UNCHANGED <<stateVars, runs>>,
           \A q \in Procs \ {p} : pc'[q] = pc[q]
    PROVE  StateInv'
<1>1. \A q \in Writers : pc'[q] = pc[q]
  BY ProcFacts
<1>2. (\A q \in Writers : q \in Loaded' => q \in Loaded) /\ Saving' = Saving
  BY <1>1 DEF Loaded, Saving
<1> QED
  BY <1>2, StateStays DEF stateVars

LEMMA WriterKeepsState ==
    ASSUME StateInv, TypeInv', NEW p \in Writers, WriterStep(p)
    PROVE  StateInv'
<1> p \in Procs
  BY ProcFacts
<1> TypeInv /\ RunsOK
  BY DEF StateInv
<1>1. CASE EvaluateSessionEnd(p) \/ EvaluatePrompt(p) \/ Drain(p)
  <2>1. PICK u \in SUBSET Facts, c \in States : LoadsWith(p, u, c)
    BY <1>1, LoadCases
  <2>2. pc'[p] = "open" /\ \A q \in Procs \ {p} : pc'[q] = pc[q]
    BY <1>1, <2>1, LoadCases, LoadTypes DEF LoadsWith
  <2>3. /\ copy'[p] = c /\ update'[p] = u /\ state' = state /\ done' = done
        /\ \A q \in Writers \ {p} : copy'[q] = copy[q] /\ update'[q] = update[q]
    BY <1>1, <2>1, LoadCases DEF LoadsWith, Load, TypeInv, StateTypes
  <2>4. RunsOK'
    <3>1. state \in States => state.run \in Nat
      BY StateFacts
    <3>2. \A q \in Writers : copy[q].run \in Nat
      BY StateFacts DEF TypeInv, StateTypes
    <3>3. runs \in Nat /\ runs' \in Nat /\ runs <= runs' /\ c.run <= runs'
      BY <1>1, <2>1, LoadCases DEF LoadsWith, TypeInv, BoundTypes
    <3>4. state \in States \/ state = Torn
      BY DEF TypeInv, StateTypes
    <3>5. \A q \in Writers : copy'[q].run <= runs'
      BY <2>3, <3>2, <3>3 DEF RunsOK
    <3>6. state # Torn => state.run <= runs'
      BY <3>1, <3>3, <3>4 DEF RunsOK
    <3> QED
      BY <2>3, <3>5, <3>6 DEF RunsOK
  <2>5. done' \ exposed' \subseteq done \ exposed
    BY <2>1, <2>3 DEF LoadsWith
  <2>6. StateCurrent'
    <3>1. Saving' = Saving
      BY <1>1, <2>1, <2>2, ProcFacts DEF Saving, LoadsWith, Load
    <3> QED
      BY <2>3, <2>5, <3>1 DEF StateInv, StateCurrent, Reflects
  <2>7. ASSUME NEW fact \in (done' \ exposed') \cup u PROVE Reflects(c, fact)
    <3>1. CASE fact \in u
      BY <2>1, <3>1 DEF LoadsWith
    <3>2. CASE fact \in done' \ exposed'
      <4>1. state # Torn /\ state.run <= c.run /\ state.fired \subseteq c.fired
        BY <2>1, <2>3, <3>2 DEF LoadsWith
      <4>2. Reflects(state, fact)
        BY <2>5, <3>2, <4>1 DEF StateInv, StateCurrent
      <4>3. fact \in Facts /\ state \in States
        BY <2>3, <3>2, <4>1 DEF TypeInv, StateTypes
      <4> QED
        BY <4>1, <4>2, <4>3, ReflectsGrow
    <3> QED
      BY <2>7, <3>1, <3>2
  <2>8. CopiesCurrent'
    <3>1. ASSUME NEW q \in Loaded', NEW fact \in (done' \ exposed') \cup update'[q]
          PROVE  Reflects(copy'[q], fact)
      <4>1. q \in Writers /\ pc'[q] \in {"open", "save"}
        BY <3>1 DEF Loaded
      <4>2. CASE q = p
        BY <2>3, <2>7, <3>1, <4>2
      <4>3. CASE q # p
        <5>1. q \in Loaded /\ copy'[q] = copy[q] /\ update'[q] = update[q]
          BY <2>2, <2>3, <4>1, <4>3, ProcFacts DEF Loaded
        <5>2. fact \in (done \ exposed) \cup update[q]
          BY <2>5, <3>1, <5>1
        <5> QED
          BY <5>1, <5>2 DEF StateInv, CopiesCurrent
      <4> QED
        BY <4>2, <4>3
    <3> QED
      BY <3>1 DEF CopiesCurrent, Reflects
  <2> QED
    BY <2>4, <2>6, <2>8 DEF StateInv
<1>2. CASE OpenState(p)
  <2>1. pc'[p] = "save" /\ \A q \in Procs \ {p} : pc'[q] = pc[q]
    BY <1>2, GotoFrame DEF OpenState, WriterLabels, TypeInv
  <2>2. \A q \in Writers : q \in Loaded' => q \in Loaded
    BY <1>2, <2>1, ProcFacts DEF OpenState, Loaded
  <2>3. p \in Saving'
    BY <2>1 DEF Saving
  <2>4. UNCHANGED <<done, exposed, runs, copy, update>> /\ state' = Torn
    BY <1>2 DEF OpenState, boundVars
  <2> QED
    BY <2>2, <2>3, <2>4, StateStays
<1>3. CASE SaveState(p)
  <2>1. pc'[p] \notin {"open", "save"} /\ \A q \in Procs \ {p} : pc'[q] = pc[q]
    BY <1>3, GotoFrame DEF SaveState, WriterLabels, TypeInv
  <2>2. /\ p \in Loaded /\ p \notin Loaded'
        /\ \A q \in Loaded' : q \in Writers /\ q \in Loaded \ {p}
    BY <1>3, <2>1, ProcFacts DEF SaveState, Loaded
  <2>3. /\ copy'[p] = Blank /\ update'[p] = {} /\ runs' = runs
        /\ \A q \in Writers \ {p} : copy'[q] = copy[q] /\ update'[q] = update[q]
        /\ done' = done \cup update[p]
        /\ \/ /\ state' = copy[p]
              /\ exposed' = IF Loaded \ {p} # {} THEN exposed \cup update[p] ELSE exposed
           \/ /\ state' = Torn
              /\ exposed' = IF Saving \ {p} = {} THEN done' ELSE exposed \cup update[p]
    BY <1>3 DEF SaveState, TypeInv, StateTypes, boundVars
  <2>4. RunsOK'
    <3>1. copy[p].run <= runs /\ Blank.run <= runs
      BY StateFacts DEF RunsOK, TypeInv, BoundTypes
    <3> QED
      BY <2>3, <3>1 DEF RunsOK
  <2>5. StateCurrent'
    <3>1. ASSUME state' = copy[p], NEW fact \in done' \ exposed' PROVE Reflects(copy[p], fact)
      <4>1. fact \in (done \ exposed) \cup update[p]
        BY <2>3, <3>1
      <4> QED
        BY <2>2, <4>1 DEF StateInv, CopiesCurrent
    <3>2. Saving \ {p} # {} => Saving' # {}
      BY <2>1, ProcFacts DEF Saving
    <3>3. copy[p] # Torn
      BY TornIsNoState DEF TypeInv, StateTypes
    <3> QED
      BY <2>3, <3>1, <3>2, <3>3 DEF StateCurrent, Reflects
  <2>6. CopiesCurrent'
    <3>1. ASSUME NEW q \in Loaded', NEW fact \in (done' \ exposed') \cup update'[q]
          PROVE  Reflects(copy'[q], fact)
      <4>1. q \in Loaded /\ q # p /\ copy'[q] = copy[q] /\ update'[q] = update[q]
        BY <2>2, <2>3
      <4>2. fact \in (done \ exposed) \cup update[q]
        BY <2>2, <2>3, <3>1, <4>1
      <4> QED
        BY <4>1, <4>2 DEF StateInv, CopiesCurrent
    <3> QED
      BY <3>1 DEF CopiesCurrent, Reflects
  <2> QED
    BY <2>4, <2>5, <2>6 DEF StateInv
<1>4. CASE OpenNotice(p) \/ WriteNotice(p)
  <2>1. pc'[p] \notin {"open", "save"} /\ \A q \in Procs \ {p} : pc'[q] = pc[q]
    BY <1>4, GotoFrame DEF OpenNotice, WriteNotice, WriterLabels, TypeInv
  <2>2. pc[p] # "save"
    BY <1>4 DEF OpenNotice, WriteNotice
  <2>3. (\A q \in Writers : q \in Loaded' => q \in Loaded) /\ Saving' = Saving
    BY <2>1, <2>2, ProcFacts DEF Loaded, Saving
  <2>4. UNCHANGED <<stateVars, runs>>
    BY <1>4 DEF OpenNotice, WriteNotice, boundVars
  <2> QED
    BY <2>3, <2>4, StateStays DEF stateVars
<1>5. CASE WriterDies(p)
  <2>1. pc'[p] = "idle" /\ \A q \in Procs \ {p} : pc'[q] = pc[q]
    BY <1>5, GotoFrame DEF WriterDies, WriterLabels, TypeInv
  <2>2. p \notin Loaded' /\ \A q \in Writers : q \in Loaded' => q \in Loaded
    BY <2>1, ProcFacts DEF Loaded
  <2>3. /\ copy'[p] = Blank
        /\ \A q \in Writers \ {p} : copy'[q] = copy[q] /\ update'[q] = update[q]
        /\ UNCHANGED <<done, runs>> /\ state' \in {state, Torn}
        /\ state' = state \/ p \in Saving
        /\ exposed' = IF p \in Saving /\ state' = Torn /\ Saving \ {p} = {} THEN done ELSE exposed
    BY <1>5 DEF WriterDies, TypeInv, StateTypes
  <2>4. \A q \in Loaded' : q \in Writers
    BY DEF Loaded
  <2>5. Saving' = Saving \ {p}
    BY <2>1, ProcFacts DEF Saving
  <2>6. CASE p \in Saving /\ state' = Torn /\ Saving \ {p} = {}
    <3>1. RunsOK'
      BY <2>3, <2>6, StateFacts DEF RunsOK, TypeInv, BoundTypes
    <3>2. done' \ exposed' = {}
      BY <2>3, <2>6
    <3>3. CopiesCurrent'
      BY <2>2, <2>3, <2>4, <3>2 DEF StateInv, CopiesCurrent, Reflects
    <3>4. StateCurrent'
      BY <3>2 DEF StateCurrent
    <3> QED
      BY <3>1, <3>3, <3>4 DEF StateInv
  <2>7. CASE ~(p \in Saving /\ state' = Torn /\ Saving \ {p} = {})
    BY <2>2, <2>3, <2>4, <2>5, <2>7, StateStays
  <2> QED
    BY <2>6, <2>7
<1> QED
  BY <1>1, <1>2, <1>3, <1>4, <1>5 DEF WriterStep

LEMMA StateStep == ASSUME StateInv, [Next]_vars PROVE StateInv'
<1>0. TypeInv'
  BY TypeStep DEF StateInv
<1>1. CASE UNCHANGED vars
  BY <1>0, <1>1, StateStays DEF vars, Loaded, Saving
<1>2. ASSUME NEW p \in Writers, WriterStep(p) PROVE StateInv'
  BY <1>0, <1>2, WriterKeepsState
<1>3. ASSUME NEW p \in Starters, StarterStep(p) PROVE StateInv'
  <2>1. UNCHANGED <<stateVars, runs>>
    BY <1>3 DEF StarterStep, Peek, PrintNotice, PrintFails, Delete, DeleteFails, StarterDies,
       boundVars
  <2>2. PICK label \in DeliveryLabels : Goto(p, label)
    BY <1>3 DEF StarterStep, Peek, PrintNotice, PrintFails, Delete, DeleteFails, StarterDies,
       Release, DeliveryLabels
  <2>3. \A q \in Procs \ {p} : pc'[q] = pc[q]
    BY <2>2, ProcFacts, GotoFrame DEF StateInv, TypeInv
  <2> QED
    BY <1>0, <2>1, <2>3, ProcFacts, DeliveryKeepsState
<1>4. ASSUME NEW p \in Loaders, LoaderStep(p) PROVE StateInv'
  <2>1. UNCHANGED <<stateVars, runs>>
    BY <1>4 DEF LoaderStep, Read, ReadFails, Unlink, Show, LoaderDies, boundVars
  <2>2. PICK label \in DeliveryLabels : Goto(p, label)
    BY <1>4 DEF LoaderStep, Read, ReadFails, Unlink, Show, LoaderDies, DeliveryLabels
  <2>3. \A q \in Procs \ {p} : pc'[q] = pc[q]
    BY <2>2, ProcFacts, GotoFrame DEF StateInv, TypeInv
  <2> QED
    BY <1>0, <2>1, <2>3, ProcFacts, DeliveryKeepsState
<1> QED
  BY <1>1, <1>2, <1>3, <1>4 DEF Next

LEMMA StateStart == Init => StateInv
<1> SUFFICES ASSUME Init PROVE StateInv
  OBVIOUS
<1> USE DEF Init
<1>1. StateTypes
  BY StateFacts DEF StateTypes
<1>2. NoticeTypes
  BY NoticeFacts DEF NoticeTypes, Deliverers
<1>3. BoundTypes
  BY BoundsAssumption DEF BoundTypes
<1>4. PcTypes
  BY DEF PcTypes, WriterLabels
<1>5. HeldOK /\ NumberedOK
  BY ProcFacts DEF HeldOK, NumberedOK
<1>6. RunsOK
  BY StateFacts DEF RunsOK
<1>7. Loaded = {}
  BY ProcFacts DEF Loaded
<1>8. StateCurrent /\ CopiesCurrent
  BY <1>7, TornIsNoState, StateFacts DEF StateCurrent, CopiesCurrent
<1> QED
  BY <1>1, <1>2, <1>3, <1>4, <1>5, <1>6, <1>8 DEF StateInv, TypeInv

LEMMA StateAlways == Spec => []StateInv
<1>1. StateInv /\ [Next]_vars => StateInv'
  BY StateStep
<1> QED
  BY StateStart, <1>1, PTL DEF Spec

(* Every variable of the notices and of the state has its type in every     *)
(* reachable state of the hooks of scripts/lib/trigger_engine.              *)
THEOREM TypeCorrect == Spec => []TypeOK
<1>1. StateInv => TypeOK
  BY TypeParts DEF StateInv
<1> QED
  BY StateAlways, <1>1, PTL

(* A run that was drained or a reason that fired stays in evolve-state.json *)
(* as long as its writer overlapped no other, for any number of hooks.      *)
THEOREM StateKeepsUpdates == Spec => []UpdatesKept
<1>1. StateInv => UpdatesKept
  BY DEF StateInv, StateCurrent, CopiesCurrent, Loaded, Saving, UpdatesKept
<1> QED
  BY StateAlways, <1>1, PTL

------------------------------------------------------------------------------
(* The notice: delivered once, and never lost without a reason.             *)

(* A number is given to one writer and reaches the file once.               *)
NumberOK ==
    /\ \A n \in written : n <= notices
    /\ \A p \in Writers : number[p] # Absent => number[p] <= notices /\ number[p] \notin written
    /\ \A p \in Writers : \A q \in Writers \ {p} : number[p] # Absent => number[p] # number[q]

(* A session start delivers under the lock; instructions_loaded has its own *)
(* order.                                                                   *)
PlacesOK ==
    /\ \A p \in Starters : pc[p] # "idle" => pc[p] \in {"print", "delete"} /\ lock = p
    /\ \A p \in Loaders : pc[p] \in {"idle", "unlink", "show"}
    /\ \A p \in Deliverers : pc[p] = "idle" => held[p] = Absent

(* What is pending, held or was shown has been written.                     *)
KnownOK ==
    /\ pending \in Notices => pending \in written
    /\ \A p \in Deliverers : held[p] \in Notices => held[p] \in written
    /\ \A n \in Notices : shown[n] > 0 => n \in written

(* A removed notice does not come back.                                     *)
PastOK == \A p \in Loaders : pc[p] = "show" => pending # held[p]

(* Two hooks hold the same notice only when one of them went by the lock.   *)
TwiceOK ==
    \A p \in Deliverers : \A q \in Deliverers \ {p} :
        held[p] \in Notices /\ held[p] = held[q] => held[p] \in doubled

(* A notice that was shown is about to be deleted, if it is still there.    *)
AgainOK ==
    \A n \in Notices : n \notin doubled /\ shown[n] > 0 =>
        /\ pending = n => \E p \in Starters : pc[p] = "delete" /\ held[p] = n
        /\ \A p \in Deliverers : held[p] = n => pc[p] = "delete"

PrintedOK == \A p \in Starters : pc[p] = "delete" => shown[held[p]] > 0

(* A hook that will remove the file has read the notice in it, or the       *)
(* notice came after.                                                       *)
LateOK ==
    \A p \in Deliverers : pc[p] \in {"print", "delete", "unlink"} /\ pending \in Notices =>
        pending = held[p] \/ held[p] = Empty \/ pending \in late[p]

DeliveryInv ==
    /\ TypeInv /\ NumberOK /\ PlacesOK /\ KnownOK /\ PastOK
    /\ TwiceOK /\ AgainOK /\ PrintedOK /\ LateOK /\ ShownOnce /\ NoticeAccounted

(* A step of a writer that leaves the notices in the file and in the hooks  *)
(* alone.                                                                   *)
LEMMA DeliveryStays ==
    ASSUME DeliveryInv, TypeInv', NumberOK',
           UNCHANGED <<pending, held, lock, written, shown, late, settled, doubled>>,
           \A q \in Deliverers : pc'[q] = pc[q]
    PROVE  DeliveryInv'
<1> USE DEF DeliveryInv
<1>1. PlacesOK'
  BY ProcFacts DEF PlacesOK
<1>2. KnownOK' /\ TwiceOK' /\ ShownOnce'
  BY DEF KnownOK, TwiceOK, ShownOnce
<1>3. PastOK' /\ PrintedOK' /\ LateOK'
  BY ProcFacts DEF PastOK, PrintedOK, LateOK
<1>4. AgainOK'
  BY ProcFacts DEF AgainOK
<1>5. NoticeAccounted'
  BY ProcFacts DEF NoticeAccounted
<1> QED
  BY <1>1, <1>2, <1>3, <1>4, <1>5

(* A hook that delivers numbers and writes no notice.                       *)
LEMMA NumbersStay ==
    ASSUME NumberOK, UNCHANGED <<number, notices, written>> PROVE NumberOK'
BY DEF NumberOK

LEMMA WriterKeepsNotices ==
    ASSUME DeliveryInv, StateInv, TypeInv', NEW p \in Writers, WriterStep(p)
    PROVE  DeliveryInv'
<1> USE DEF DeliveryInv
<1> p \in Procs
  BY ProcFacts
<1>0. /\ written \subseteq Notices
      /\ number \in [Writers -> 0 .. MaxNotices]
      /\ notices \in 0 .. MaxNotices
      /\ pending \in 0 .. Empty
  BY DEF TypeInv, NoticeTypes, BoundTypes
<1>1. CASE EvaluateSessionEnd(p) \/ EvaluatePrompt(p) \/ Drain(p)
  <2> TypeInv /\ RunsOK
    BY DEF StateInv
  <2>1. PICK u \in SUBSET Facts, c \in States : Load(p, u, c)
    BY <1>1, LoadCases DEF LoadsWith
  <2>2. \A q \in Deliverers : pc'[q] = pc[q]
    BY <1>1, <2>1, LoadCases, LoadTypes, ProcFacts
  <2>3. NumberOK'
    <3>1. CASE notices' = notices /\ number' = number /\ written' = written
      BY <3>1, NumbersStay
    <3>2. CASE /\ notices' = notices + 1 /\ notices < MaxNotices /\ written' = written
               /\ number' = [number EXCEPT ![p] = notices + 1]
      <4>1. number'[p] = notices + 1 /\ \A q \in Writers \ {p} : number'[q] = number[q]
        BY <1>0, <3>2
      <4>2. \A n \in written : n \in Nat /\ n <= notices
        BY <1>0 DEF NumberOK, Notices
      <4>3. \A q \in Writers : number[q] \in Nat /\ (number[q] # Absent => number[q] <= notices)
        BY <1>0 DEF NumberOK
      <4> QED
        BY <1>0, <3>2, <4>1, <4>2, <4>3 DEF NumberOK, Absent
    <3> QED
      BY <1>1, <3>1, <3>2, LoadCases
  <2> QED
    BY <1>1, <2>2, <2>3, LoadCases, DeliveryStays
<1>2. CASE OpenState(p) \/ SaveState(p)
  <2>1. \A q \in Procs \ {p} : pc'[q] = pc[q]
    BY <1>2, GotoFrame DEF OpenState, SaveState, WriterLabels, TypeInv
  <2>2. UNCHANGED <<noticeVars, notices>>
    BY <1>2 DEF OpenState, SaveState, boundVars
  <2> QED
    BY <2>1, <2>2, NumbersStay, ProcFacts, DeliveryStays DEF noticeVars
<1>3. CASE WriterDies(p)
  <2>1. \A q \in Procs \ {p} : pc'[q] = pc[q]
    BY <1>3, GotoFrame DEF WriterDies, WriterLabels, TypeInv
  <2>2. number'[p] = Absent /\ \A q \in Writers \ {p} : number'[q] = number[q]
    BY <1>0, <1>3 DEF WriterDies
  <2>3. UNCHANGED <<notices, pending, held, lock, written, shown, late, settled, doubled>>
    BY <1>3 DEF WriterDies
  <2>4. NumberOK'
    BY <2>2, <2>3 DEF NumberOK
  <2> QED
    BY <2>1, <2>3, <2>4, ProcFacts, DeliveryStays
<1>4. CASE OpenNotice(p)
  <2>1. \A q \in Deliverers : pc'[q] = pc[q]
    BY <1>4, GotoFrame, ProcFacts DEF OpenNotice, WriterLabels, TypeInv
  <2>2. /\ UNCHANGED <<number, notices, held, lock, written, shown, late, doubled>>
        /\ pending' = Empty /\ settled' = settled \cup ({pending} \cap Notices)
    BY <1>4 DEF OpenNotice, boundVars
  <2>3. pending' \notin Notices
    BY <2>2, NoticeFacts
  <2>4. NumberOK' /\ PlacesOK'
    BY <2>1, <2>2, NumbersStay, ProcFacts DEF PlacesOK
  <2>5. KnownOK' /\ TwiceOK' /\ ShownOnce'
    BY <2>2, <2>3 DEF KnownOK, TwiceOK, ShownOnce
  <2>6. PastOK'
    BY <2>1, <2>2, <2>3, ProcFacts DEF PastOK, TypeInv, HeldOK
  <2>7. PrintedOK' /\ LateOK'
    BY <2>1, <2>2, <2>3, ProcFacts DEF PrintedOK, LateOK
  <2>8. AgainOK'
    BY <2>1, <2>2, <2>3 DEF AgainOK
  <2>9. NoticeAccounted'
    <3>1. ASSUME NEW n \in written' PROVE NoticeAccounted!(n)'
      BY <1>0, <2>1, <2>2, ProcFacts DEF NoticeAccounted
    <3> QED
      BY <3>1 DEF NoticeAccounted
  <2> QED
    BY <2>4, <2>5, <2>6, <2>7, <2>8, <2>9
<1>5. CASE WriteNotice(p)
  <2> DEFINE n == number[p]
  <2>1. \A q \in Deliverers : pc'[q] = pc[q]
    BY <1>5, GotoFrame, ProcFacts DEF WriteNotice, WriterLabels, TypeInv
  <2>2. /\ UNCHANGED <<notices, held, lock, shown, doubled>>
        /\ number'[p] = Absent /\ \A q \in Writers \ {p} : number'[q] = number[q]
    BY <1>0, <1>5 DEF WriteNotice, boundVars
  <2>3. n \in Notices /\ n # Absent /\ n <= notices /\ n \notin written
    BY <1>5, NoticeFacts DEF WriteNotice, TypeInv, NumberedOK, NumberOK
  <2> HIDE DEF n
  <2>4. \/ /\ settled' = settled \cup {n}
           /\ UNCHANGED <<pending, written, late>>
        \/ /\ pending' = n /\ written' = written \cup {n}
           /\ \A q \in Deliverers : late'[q] = IF q \in Holding THEN late[q] \cup {n} ELSE late[q]
           /\ settled' = settled \cup ({pending} \cap Notices)
        \/ /\ pending' = Empty /\ settled' = settled \cup ({n, pending} \cap Notices)
           /\ UNCHANGED <<written, late>>
    BY <1>5 DEF WriteNotice, n, TypeInv, NoticeTypes
  <2>5. written' = written \/ written' = written \cup {n}
    BY <2>4
  <2>6. NumberOK'
    <3>1. \A q \in Writers \ {p} : number[q] # Absent => number[q] # n
      BY <2>3 DEF NumberOK, n
    <3> QED
      BY <2>2, <2>3, <2>5, <3>1 DEF NumberOK
  <2>7. PlacesOK' /\ TwiceOK' /\ ShownOnce'
    BY <2>1, <2>2, ProcFacts DEF PlacesOK, TwiceOK, ShownOnce
  <2>8. KnownOK'
    BY <2>2, <2>4, NoticeFacts DEF KnownOK
  <2>9. pending' = pending \/ pending' = n \/ pending' = Empty
    BY <2>4
  <2>10. \A q \in Deliverers : held[q] # n
    BY <2>3 DEF KnownOK
  <2>11. PastOK'
    <3>1. \A q \in Loaders : pc[q] = "show" => held[q] # Empty
      BY ProcFacts, NoticeFacts DEF TypeInv, HeldOK
    <3> QED
      BY <2>1, <2>2, <2>9, <2>10, <3>1, ProcFacts DEF PastOK
  <2>12. PrintedOK'
    BY <2>1, <2>2, ProcFacts DEF PrintedOK
  <2>13. AgainOK'
    <3>1. ~(shown[n] > 0)
      BY <2>3 DEF KnownOK
    <3> QED
      BY <2>1, <2>2, <2>9, <3>1, ProcFacts, NoticeFacts DEF AgainOK
  <2>14. LateOK'
    <3>1. ASSUME NEW q \in Deliverers, pc'[q] \in {"print", "delete", "unlink"},
                 pending' \in Notices
          PROVE  pending' = held'[q] \/ held'[q] = Empty \/ pending' \in late'[q]
      <4>1. q \in Holding
        BY <2>1, <3>1 DEF Holding, Deliverers
      <4> QED
        BY <2>1, <2>2, <2>4, <3>1, <4>1, NoticeFacts DEF LateOK
    <3> QED
      BY <3>1 DEF LateOK
  <2>15. NoticeAccounted'
    <3>1. ASSUME NEW m \in written' PROVE NoticeAccounted!(m)'
      <4>1. CASE m \in written /\ pending' = pending
        BY <2>1, <2>2, <2>4, <4>1, ProcFacts DEF NoticeAccounted
      <4>2. CASE m \in written /\ pending' # pending
        BY <1>0, <2>1, <2>2, <2>4, <4>2, ProcFacts DEF NoticeAccounted
      <4>3. CASE m \notin written
        BY <2>4, <3>1, <4>3
      <4> QED
        BY <4>1, <4>2, <4>3
    <3> QED
      BY <3>1 DEF NoticeAccounted
  <2> QED
    BY <2>6, <2>7, <2>8, <2>11, <2>12, <2>13, <2>14, <2>15
<1> QED
  BY <1>1, <1>2, <1>3, <1>4, <1>5 DEF WriterStep

(* Nobody delivers beside the session start that has the lock.              *)
LEMMA OneUnderLock ==
    ASSUME PlacesOK, NEW p \in Starters, NEW q \in Starters, pc[p] # "idle", pc[q] # "idle"
    PROVE  p = q
BY DEF PlacesOK

LEMMA StarterReleases ==
    ASSUME DeliveryInv, TypeInv', NEW p \in Starters, pc[p] # "idle", Release(p),
           UNCHANGED <<number, notices, written, shown, settled>>,
           pending' = pending, doubled \subseteq doubled',
           pc[p] = "delete" => held[p] \in doubled'
    PROVE  DeliveryInv'
<1> USE DEF DeliveryInv
<1> p \in Deliverers /\ p \in Procs /\ p \notin Loaders
  BY ProcFacts
<1>1. /\ pc'[p] = "idle" /\ \A q \in Procs \ {p} : pc'[q] = pc[q]
      /\ held'[p] = Absent /\ \A q \in Deliverers \ {p} : held'[q] = held[q]
      /\ \A q \in Deliverers \ {p} : late'[q] = late[q]
      /\ lock' = Nobody
  BY ReleaseTypes
<1>2. \A q \in Deliverers : held'[q] = held[q] \/ (q = p /\ held'[q] = Absent)
  BY <1>1
<1>3. PlacesOK'
  <2>1. \A q \in Starters \ {p} : pc'[q] = "idle"
    BY <1>1, OneUnderLock, ProcFacts
  <2> QED
    BY <1>1, <2>1, ProcFacts DEF PlacesOK
<1>4. KnownOK' /\ NumberOK' /\ ShownOnce'
  BY <1>2, NoticeFacts, NumbersStay DEF KnownOK, ShownOnce
<1>5. PastOK'
  BY <1>1, ProcFacts DEF PastOK
<1>6. TwiceOK'
  BY <1>1, <1>2, NoticeFacts DEF TwiceOK
<1>7. PrintedOK'
  BY <1>1, ProcFacts DEF PrintedOK
<1>8. LateOK'
  BY <1>1, ProcFacts DEF LateOK
<1>9. AgainOK'
  <2>1. ASSUME NEW n \in Notices, n \notin doubled', shown'[n] > 0
        PROVE  /\ pending' = n => \E q \in Starters : pc'[q] = "delete" /\ held'[q] = n
               /\ \A q \in Deliverers : held'[q] = n => pc'[q] = "delete"
    <3>1. n \notin doubled /\ shown[n] > 0
      BY <2>1
    <3>2. ~(pc[p] = "delete" /\ held[p] = n)
      BY <2>1
    <3>3. pending # n
      <4>1. pending = n => \E q \in Starters : pc[q] = "delete" /\ held[q] = n
        BY <3>1 DEF AgainOK
      <4> QED
        BY <3>2, <4>1, OneUnderLock
    <3>4. \A q \in Deliverers : held[q] = n => pc[q] = "delete"
      BY <3>1 DEF AgainOK
    <3>5. \A q \in Deliverers : held'[q] = n => q # p
      BY <1>1, NoticeFacts
    <3> QED
      BY <1>1, <3>3, <3>4, <3>5, ProcFacts
  <2> QED
    BY <2>1 DEF AgainOK
<1>10. NoticeAccounted'
  <2>1. \A q \in Loaders : pc'[q] = pc[q] /\ held'[q] = held[q]
    BY <1>1, ProcFacts
  <2> QED
    BY <2>1 DEF NoticeAccounted
<1> QED
  BY <1>3, <1>4, <1>5, <1>6, <1>7, <1>8, <1>9, <1>10

(* Reading the notice: who holds it already counts as a double delivery.    *)
LEMMA HookReads ==
    ASSUME DeliveryInv, TypeInv', NEW p \in Deliverers, pc[p] = "idle",
           p \in Starters => pc'[p] = "print" /\ lock' = p /\ lock = Nobody,
           p \in Loaders => pc'[p] = "unlink" /\ lock' = lock,
           \A q \in Procs \ {p} : pc'[q] = pc[q],
           NEW r, r = pending \/ (p \in Loaders /\ r = Empty),
           held' = [held EXCEPT ![p] = r],
           UNCHANGED <<number, notices, pending, written, shown, late, settled>>,
           doubled \subseteq doubled',
           r \in Notices => \A q \in Deliverers : held[q] = pending => pending \in doubled'
    PROVE  DeliveryInv'
<1> USE DEF DeliveryInv
<1> p \in Procs
  BY ProcFacts
<1>1. held'[p] = r /\ (r = pending \/ r = Empty) /\ \A q \in Deliverers \ {p} : held'[q] = held[q]
  BY DEF TypeInv, NoticeTypes
<1>2. PlacesOK'
  <2>1. \A q \in Starters : pc[q] # "idle" => lock' = q
    <3>1. CASE p \in Starters
      BY <3>1, ProcFacts DEF PlacesOK
    <3>2. CASE p \in Loaders
      BY <3>2 DEF PlacesOK
    <3> QED
      BY <3>1, <3>2 DEF Deliverers
  <2> QED
    BY <1>1, <2>1, ProcFacts DEF PlacesOK, Deliverers
<1>3. KnownOK' /\ NumberOK' /\ ShownOnce'
  BY <1>1, NoticeFacts, NumbersStay DEF KnownOK, ShownOnce
<1>4. PastOK'
  BY <1>1, ProcFacts DEF PastOK, Deliverers
<1>5. TwiceOK'
  <2>1. ASSUME NEW q \in Deliverers, NEW o \in Deliverers \ {q}, held'[q] \in Notices,
               held'[q] = held'[o]
        PROVE  held'[q] \in doubled'
    <3>1. CASE q = p \/ o = p
      BY <1>1, <2>1, <3>1, NoticeFacts
    <3>2. CASE q # p /\ o # p
      BY <1>1, <2>1, <3>2 DEF TwiceOK
    <3> QED
      BY <3>1, <3>2
  <2> QED
    BY <2>1 DEF TwiceOK
<1>6. PrintedOK'
  BY <1>1, ProcFacts DEF PrintedOK
<1>7. LateOK'
  BY <1>1, ProcFacts DEF LateOK
<1>8. AgainOK'
  <2>1. ASSUME NEW n \in Notices, n \notin doubled', shown'[n] > 0
        PROVE  /\ pending' = n => \E q \in Starters : pc'[q] = "delete" /\ held'[q] = n
               /\ \A q \in Deliverers : held'[q] = n => pc'[q] = "delete"
    <3>1. n \notin doubled /\ shown[n] > 0
      BY <2>1
    <3>2. pending = n => \E q \in Starters : pc[q] = "delete" /\ held[q] = n
      BY <3>1 DEF AgainOK
    <3>3. \A q \in Deliverers : held[q] = n => pc[q] = "delete"
      BY <3>1 DEF AgainOK
    <3>4. r # n
      BY <1>1, <2>1, <3>2, NoticeFacts, ProcFacts
    <3>5. pending = n => \E q \in Starters : pc'[q] = "delete" /\ held'[q] = n
      BY <1>1, <3>2, ProcFacts
    <3>6. \A q \in Deliverers : held'[q] = n => pc'[q] = "delete"
      BY <1>1, <3>3, <3>4, ProcFacts
    <3> QED
      BY <3>5, <3>6
  <2> QED
    BY <2>1 DEF AgainOK
<1>9. NoticeAccounted'
  <2>1. \A q \in Loaders : pc[q] = "show" => pc'[q] = "show" /\ held'[q] = held[q]
    BY <1>1, ProcFacts
  <2> QED
    BY <2>1 DEF NoticeAccounted
<1> QED
  BY <1>2, <1>3, <1>4, <1>5, <1>6, <1>7, <1>8, <1>9

(* Removing the file: the hook has shown the notice, or is about to.        *)
LEMMA HookRemoves ==
    ASSUME DeliveryInv, TypeInv', NEW p \in Deliverers, Remove(p),
           pc[p] \in {"delete", "unlink"}, p \in Starters => pc[p] = "delete",
           p \in Starters => pc'[p] = "idle" /\ lock' = Nobody,
           p \in Loaders => lock' = lock /\ pc'[p] \in {"show", "idle"},
           \A q \in Procs \ {p} : pc'[q] = pc[q],
           \A q \in Deliverers \ {p} : held'[q] = held[q] /\ late'[q] = late[q],
           pc'[p] = "idle" => held'[p] = Absent,
           pc'[p] = "show" => held'[p] = held[p],
           pc[p] = "unlink" /\ held[p] \in Notices /\ pending \in Notices => pc'[p] = "show",
           UNCHANGED <<number, notices, written, shown, doubled>>
    PROVE  DeliveryInv'
<1> USE DEF DeliveryInv
<1> p \in Procs
  BY ProcFacts
<1>1. /\ pending' = Absent /\ pending' \notin Notices
      /\ settled' = settled \cup ({pending} \cap IF held[p] = Empty THEN Notices ELSE late[p])
  BY NoticeFacts DEF Remove
<1>2. pc'[p] \in {"idle", "show"} /\ (held'[p] = Absent \/ held'[p] = held[p])
  BY DEF Deliverers
<1>3. PlacesOK'
  <2>1. \A q \in Starters \ {p} : pc'[q] # "idle" => pc'[q] \in {"print", "delete"} /\ lock' = q
    <3>1. CASE p \in Starters
      BY <3>1, OneUnderLock, ProcFacts
    <3>2. CASE p \in Loaders
      BY <3>2, ProcFacts DEF PlacesOK
    <3> QED
      BY <3>1, <3>2 DEF Deliverers
  <2> QED
    BY <1>2, <2>1, ProcFacts DEF PlacesOK, Deliverers
<1>4. KnownOK' /\ NumberOK' /\ ShownOnce'
  BY <1>1, <1>2, NoticeFacts, NumbersStay DEF KnownOK, ShownOnce
<1>5. PastOK'
  <2>1. \A q \in Loaders : pc'[q] = "show" => held'[q] \in Notices
    BY ProcFacts DEF TypeInv, HeldOK
  <2> QED
    BY <1>1, <2>1 DEF PastOK
<1>6. TwiceOK'
  BY <1>2, NoticeFacts DEF TwiceOK
<1>7. PrintedOK'
  BY <1>2, ProcFacts DEF PrintedOK
<1>8. LateOK'
  BY <1>1 DEF LateOK
<1>9. AgainOK'
  <2>1. ASSUME NEW n \in Notices, n \notin doubled', shown'[n] > 0, NEW q \in Deliverers,
               held'[q] = n
        PROVE  pc'[q] = "delete"
    <3>1. \A r \in Deliverers : held[r] = n => pc[r] = "delete"
      BY <2>1 DEF AgainOK
    <3>2. CASE q = p
      <4>1. held[p] = n /\ pc'[p] = "show"
        BY <1>2, <2>1, <3>2, NoticeFacts
      <4>2. pc[p] = "delete" /\ p \in Loaders
        BY <3>1, <4>1 DEF Deliverers
      <4> QED
        BY <4>2 DEF PlacesOK
    <3>3. CASE q # p
      BY <2>1, <3>1, <3>3, ProcFacts
    <3> QED
      BY <3>2, <3>3
  <2> QED
    BY <1>1, <2>1 DEF AgainOK
<1>10. NoticeAccounted'
  <2>1. ASSUME NEW n \in written' PROVE NoticeAccounted!(n)'
    <3>1. n \in written /\ n \in Notices
      BY DEF TypeInv, NoticeTypes
    <3>2. \A q \in Loaders : pc[q] = "show" => q # p /\ pc'[q] = "show" /\ held'[q] = held[q]
      BY ProcFacts
    <3>3. CASE pending = n
      <4>1. n = held[p] \/ held[p] = Empty \/ n \in late[p]
        BY <3>1, <3>3 DEF LateOK
      <4>2. CASE held[p] = Empty \/ (n \in late[p] /\ held[p] # Empty)
        BY <1>1, <3>1, <3>3, <4>2
      <4>3. CASE n = held[p] /\ pc[p] = "delete"
        <5>1. p \in Starters
          BY <4>3 DEF PlacesOK, Deliverers
        <5> QED
          BY <4>3, <5>1 DEF PrintedOK
      <4>4. CASE n = held[p] /\ pc[p] = "unlink"
        <5>1. pc'[p] = "show" /\ held'[p] = n
          BY <3>1, <3>3, <4>4
        <5>2. p \in Loaders
          BY <4>4 DEF Deliverers
        <5> QED
          BY <5>1, <5>2
      <4> QED
        BY <4>1, <4>2, <4>3, <4>4
    <3>4. CASE pending # n
      BY <1>1, <3>1, <3>2, <3>4 DEF NoticeAccounted
    <3> QED
      BY <3>3, <3>4
  <2> QED
    BY <2>1 DEF NoticeAccounted
<1> QED
  BY <1>3, <1>4, <1>5, <1>6, <1>7, <1>8, <1>9, <1>10

(* Printing: whoever holds the notice alone has not shown it before.        *)
LEMMA ShownFirst ==
    ASSUME DeliveryInv, NEW p \in Deliverers, held[p] \in Notices, pc[p] \in {"print", "show"},
           held[p] \notin doubled
    PROVE  shown[held[p]] = 0
<1>1. ~(shown[held[p]] > 0)
  BY DEF DeliveryInv, AgainOK
<1>2. shown[held[p]] \in Nat
  BY DEF DeliveryInv, TypeInv, NoticeTypes
<1> QED
  BY <1>1, <1>2

LEMMA HookPrints ==
    ASSUME DeliveryInv, TypeInv', NEW p \in Deliverers, held[p] \in Notices,
           \/ p \in Starters /\ pc[p] = "print" /\ pc'[p] = "delete" /\ held' = held
           \/ /\ p \in Loaders /\ pc[p] = "show" /\ pc'[p] = "idle"
              /\ held' = [held EXCEPT ![p] = Absent],
           \A q \in Procs \ {p} : pc'[q] = pc[q],
           shown' = [shown EXCEPT ![held[p]] = @ + 1],
           UNCHANGED <<number, notices, pending, lock, written, late, settled, doubled>>
    PROVE  DeliveryInv'
<1> USE DEF DeliveryInv
<1> p \in Procs
  BY ProcFacts
<1> DEFINE n == held[p]
<1>1. n \in Notices
  OBVIOUS
<1>2. /\ shown'[n] = shown[n] + 1 /\ \A m \in Notices \ {n} : shown'[m] = shown[m]
      /\ \A m \in Notices : shown[m] \in Nat
  BY DEF TypeInv, NoticeTypes
<1>3. /\ \A q \in Deliverers \ {p} : held'[q] = held[q]
      /\ held'[p] = n \/ held'[p] = Absent
      /\ p \in Starters => held'[p] = n
      /\ p \in Loaders => held'[p] = Absent
  BY ProcFacts DEF TypeInv, NoticeTypes
<1>4. n \notin doubled => shown[n] = 0
  BY ShownFirst
<1>5. \A q \in Deliverers \ {p} : held[q] = n => n \in doubled
  BY DEF TwiceOK
<1>6. n \in written
  BY DEF KnownOK
<1>7. p \in Loaders => pending # n
  BY ProcFacts DEF PastOK
<1>8. \A m \in Notices : shown[m] > 0 => shown'[m] > 0
  BY <1>2
<1>9. shown'[n] > 0
  BY <1>1, <1>2
<1> HIDE DEF n
<1>10. PlacesOK'
  BY <1>3, ProcFacts DEF PlacesOK, Deliverers
<1>11. KnownOK'
  BY <1>2, <1>3, <1>6, NoticeFacts DEF KnownOK
<1>12. NumberOK'
  BY NumbersStay
<1>13. PastOK'
  BY <1>3, ProcFacts DEF PastOK, Deliverers
<1>14. TwiceOK'
  BY <1>3, NoticeFacts DEF TwiceOK, n
<1>15. PrintedOK'
  <2>1. ASSUME NEW q \in Starters, pc'[q] = "delete" PROVE shown'[held'[q]] > 0
    <3>1. CASE q = p
      BY <1>3, <1>9, <3>1
    <3>2. CASE q # p
      <4>1. pc[q] = "delete" /\ held'[q] = held[q] /\ held[q] \in Notices
        BY <1>3, <2>1, <3>2, ProcFacts DEF TypeInv, HeldOK
      <4> QED
        BY <1>8, <4>1 DEF PrintedOK
    <3> QED
      BY <3>1, <3>2
  <2> QED
    BY <2>1 DEF PrintedOK
<1>16. LateOK'
  BY <1>3, ProcFacts DEF LateOK, n
<1>17. AgainOK'
  <2>1. ASSUME NEW m \in Notices, m \notin doubled', shown'[m] > 0
        PROVE  /\ pending' = m => \E q \in Starters : pc'[q] = "delete" /\ held'[q] = m
               /\ \A q \in Deliverers : held'[q] = m => pc'[q] = "delete"
    <3>1. CASE m = n
      <4>1. \A q \in Deliverers : held'[q] = m => q = p /\ p \in Starters /\ pc'[p] = "delete"
        BY <1>1, <1>3, <1>5, <2>1, <3>1, NoticeFacts DEF Deliverers
      <4>2. p \in Starters => pc'[p] = "delete" /\ held'[p] = m
        BY <1>3, <3>1, ProcFacts
      <4> QED
        BY <1>7, <3>1, <4>1, <4>2 DEF Deliverers
    <3>2. CASE m # n
      <4>1. m \notin doubled /\ shown[m] > 0
        BY <1>2, <2>1, <3>2
      <4>2. pending = m => \E q \in Starters : pc[q] = "delete" /\ held[q] = m
        BY <4>1 DEF AgainOK
      <4>3. \A q \in Deliverers : held[q] = m => pc[q] = "delete"
        BY <4>1 DEF AgainOK
      <4>4. held[p] # m /\ held'[p] # m
        BY <1>3, <3>2, NoticeFacts DEF n
      <4> QED
        BY <1>3, <4>2, <4>3, <4>4, ProcFacts
    <3> QED
      BY <3>1, <3>2
  <2> QED
    BY <2>1 DEF AgainOK
<1>18. ShownOnce'
  <2>1. ASSUME NEW m \in Notices PROVE shown'[m] <= 1 \/ m \in doubled'
    <3>1. CASE m = n
      BY <1>2, <1>4, <3>1
    <3>2. CASE m # n
      BY <1>2, <3>2 DEF ShownOnce
    <3> QED
      BY <3>1, <3>2
  <2> QED
    BY <2>1 DEF ShownOnce
<1>19. NoticeAccounted'
  <2>1. ASSUME NEW m \in written' PROVE NoticeAccounted!(m)'
    <3>1. m \in written /\ m \in Notices
      BY DEF TypeInv, NoticeTypes
    <3>2. CASE m = n
      BY <1>9, <3>2
    <3>3. CASE m # n
      <4>1. \A q \in Loaders : pc[q] = "show" /\ held[q] = m => pc'[q] = "show" /\ held'[q] = m
        BY <1>3, <3>3, ProcFacts DEF n
      <4> QED
        BY <1>8, <3>1, <4>1 DEF NoticeAccounted
    <3> QED
      BY <3>2, <3>3
  <2> QED
    BY <2>1 DEF NoticeAccounted
<1> QED
  BY <1>10, <1>11, <1>12, <1>13, <1>14, <1>15, <1>16, <1>17, <1>18, <1>19

LEMMA LoaderEnds ==
    ASSUME DeliveryInv, TypeInv', NEW p \in Loaders, pc'[p] = "idle",
           \A q \in Procs \ {p} : pc'[q] = pc[q],
           held' = [held EXCEPT ![p] = Absent], late' = [late EXCEPT ![p] = {}],
           settled' = IF pc[p] = "show" THEN settled \cup {held[p]} ELSE settled,
           UNCHANGED <<number, notices, pending, lock, written, shown, doubled>>
    PROVE  DeliveryInv'
<1> USE DEF DeliveryInv
<1> p \in Procs /\ p \in Deliverers /\ p \notin Starters
  BY ProcFacts
<1>1. /\ held'[p] = Absent /\ \A q \in Deliverers \ {p} : held'[q] = held[q]
      /\ \A q \in Deliverers \ {p} : late'[q] = late[q]
  BY DEF TypeInv, NoticeTypes
<1>2. PlacesOK'
  BY <1>1, ProcFacts DEF PlacesOK
<1>3. KnownOK' /\ NumberOK' /\ ShownOnce'
  BY <1>1, NoticeFacts, NumbersStay DEF KnownOK, ShownOnce
<1>4. PastOK' /\ PrintedOK' /\ LateOK'
  BY <1>1, ProcFacts DEF PastOK, PrintedOK, LateOK
<1>5. TwiceOK'
  BY <1>1, NoticeFacts DEF TwiceOK
<1>6. AgainOK'
  <2>1. ASSUME NEW n \in Notices, n \notin doubled', shown'[n] > 0
        PROVE  /\ pending' = n => \E q \in Starters : pc'[q] = "delete" /\ held'[q] = n
               /\ \A q \in Deliverers : held'[q] = n => pc'[q] = "delete"
    <3>1. pending = n => \E q \in Starters : pc[q] = "delete" /\ held[q] = n
      BY <2>1 DEF AgainOK
    <3>2. \A q \in Deliverers : held[q] = n => pc[q] = "delete"
      BY <2>1 DEF AgainOK
    <3> QED
      BY <1>1, <3>1, <3>2, ProcFacts, NoticeFacts
  <2> QED
    BY <2>1 DEF AgainOK
<1>7. NoticeAccounted'
  <2>1. ASSUME NEW n \in written' PROVE NoticeAccounted!(n)'
    <3>1. CASE pc[p] = "show" /\ held[p] = n
      BY <3>1
    <3>2. CASE ~(pc[p] = "show" /\ held[p] = n)
      <4>1. \A q \in Loaders : pc[q] = "show" /\ held[q] = n => pc'[q] = "show" /\ held'[q] = n
        BY <1>1, <3>2, ProcFacts
      <4>2. n \in settled => n \in settled'
        OBVIOUS
      <4> QED
        BY <4>1, <4>2 DEF NoticeAccounted
    <3> QED
      BY <3>1, <3>2
  <2> QED
    BY <2>1 DEF NoticeAccounted
<1> QED
  BY <1>2, <1>3, <1>4, <1>5, <1>6, <1>7

LEMMA StarterKeepsNotices ==
    ASSUME DeliveryInv, TypeInv', NEW p \in Starters, StarterStep(p)
    PROVE  DeliveryInv'
<1> p \in Procs /\ p \in Deliverers /\ p \notin Loaders
  BY ProcFacts
<1> TypeInv /\ PcTypes /\ PlacesOK
  BY DEF DeliveryInv, TypeInv
<1>1. CASE Peek(p)
  <2>1. pc'[p] = "print" /\ \A q \in Procs \ {p} : pc'[q] = pc[q]
    BY <1>1, GotoFrame DEF Peek, DeliveryLabels
  <2>2. ASSUME NEW q \in Deliverers, held[q] = pending, pending \in Notices
        PROVE  pending \in doubled'
    <3>1. q \in Loaders /\ pc[q] = "unlink"
      <4>1. pc[q] # "idle"
        BY <2>2, NoticeFacts DEF PlacesOK
      <4>2. q \notin Starters
        BY <1>1, <4>1, ProcFacts DEF Peek, PlacesOK
      <4>3. pc[q] # "show"
        BY <2>2, <4>2 DEF DeliveryInv, PastOK, Deliverers
      <4> QED
        BY <4>1, <4>2, <4>3 DEF PlacesOK, Deliverers
    <3> QED
      BY <1>1, <2>2, <3>1 DEF Peek
  <2>3. doubled \subseteq doubled'
    BY <1>1 DEF Peek
  <2> QED
    BY <1>1, <2>1, <2>2, <2>3, HookReads DEF Peek, boundVars
<1>2. CASE PrintNotice(p)
  <2>1. pc'[p] = "delete" /\ \A q \in Procs \ {p} : pc'[q] = pc[q]
    BY <1>2, GotoFrame DEF PrintNotice, DeliveryLabels
  <2>2. held[p] \in Notices
    BY <1>2 DEF PrintNotice, TypeInv, HeldOK
  <2> QED
    BY <1>2, <2>1, <2>2, HookPrints DEF PrintNotice, boundVars
<1>3. CASE PrintFails(p)
  BY <1>3, StarterReleases DEF PrintFails
<1>4. CASE Delete(p)
  <2>1. Release(p) /\ Remove(p) /\ pc[p] = "delete"
    BY <1>4 DEF Delete
  <2>2. /\ pc'[p] = "idle" /\ \A q \in Procs \ {p} : pc'[q] = pc[q]
        /\ held'[p] = Absent /\ \A q \in Deliverers \ {p} : held'[q] = held[q]
        /\ \A q \in Deliverers \ {p} : late'[q] = late[q]
        /\ lock' = Nobody
    BY <2>1, ReleaseTypes
  <2>3. UNCHANGED <<number, notices, written, shown, doubled>>
    BY <1>4 DEF Delete, boundVars
  <2>4. pc[p] # "unlink" /\ pc'[p] # "show"
    BY <2>1, <2>2
  <2> QED
    BY <2>1, <2>2, <2>3, <2>4, HookRemoves
<1>5. CASE DeleteFails(p)
  BY <1>5, StarterReleases DEF DeleteFails
<1>6. CASE StarterDies(p)
  BY <1>6, StarterReleases DEF StarterDies
<1> QED
  BY <1>1, <1>2, <1>3, <1>4, <1>5, <1>6 DEF StarterStep

LEMMA LoaderKeepsNotices ==
    ASSUME DeliveryInv, TypeInv', NEW p \in Loaders, LoaderStep(p)
    PROVE  DeliveryInv'
<1> p \in Procs /\ p \in Deliverers /\ p \notin Starters
  BY ProcFacts
<1> TypeInv /\ PcTypes /\ PlacesOK
  BY DEF DeliveryInv, TypeInv
<1>1. CASE Read(p)
  <2>1. pc'[p] = "unlink" /\ \A q \in Procs \ {p} : pc'[q] = pc[q]
    BY <1>1, GotoFrame DEF Read, DeliveryLabels
  <2>2. ASSUME NEW q \in Deliverers, held[q] = pending, pending \in Notices
        PROVE  pending \in doubled'
    <3>1. q \in Holding
      <4>1. pc[q] # "idle"
        BY <2>2, NoticeFacts DEF PlacesOK
      <4>2. CASE q \in Starters
        BY <4>1, <4>2 DEF PlacesOK, Holding
      <4>3. CASE q \in Loaders
        <5>1. pc[q] # "show"
          BY <2>2, <4>3 DEF DeliveryInv, PastOK
        <5> QED
          BY <4>1, <4>3, <5>1 DEF PlacesOK, Holding
      <4> QED
        BY <4>2, <4>3 DEF Deliverers
    <3> QED
      BY <1>1, <2>2, <3>1 DEF Read
  <2>3. doubled \subseteq doubled'
    BY <1>1 DEF Read
  <2> QED
    BY <1>1, <2>1, <2>2, <2>3, HookReads DEF Read, boundVars
<1>2. CASE Unlink(p)
  <2>1. pc'[p] \in {"show", "idle"} /\ \A q \in Procs \ {p} : pc'[q] = pc[q]
    BY <1>2, GotoFrame DEF Unlink, DeliveryLabels
  <2>2. /\ \A q \in Deliverers \ {p} : held'[q] = held[q] /\ late'[q] = late[q]
        /\ pc'[p] = "idle" => held'[p] = Absent
        /\ pc'[p] = "show" => held'[p] = held[p]
        /\ held[p] \in Notices /\ pending \in Notices => pc'[p] = "show"
    BY <1>2, NoticeFacts DEF Unlink, Goto, PcTypes, TypeInv, NoticeTypes
  <2>3. UNCHANGED <<number, notices, lock, written, shown, doubled>> /\ Remove(p)
        /\ pc[p] = "unlink"
    BY <1>2 DEF Unlink, boundVars
  <2> QED
    BY <2>1, <2>2, <2>3, HookRemoves
<1>3. CASE Show(p)
  <2>1. pc'[p] = "idle" /\ \A q \in Procs \ {p} : pc'[q] = pc[q]
    BY <1>3, GotoFrame DEF Show, DeliveryLabels
  <2>2. held[p] \in Notices
    BY <1>3 DEF Show, TypeInv, HeldOK
  <2> QED
    BY <1>3, <2>1, <2>2, HookPrints DEF Show, boundVars
<1>4. CASE LoaderDies(p)
  <2>1. pc'[p] = "idle" /\ \A q \in Procs \ {p} : pc'[q] = pc[q]
    BY <1>4, GotoFrame DEF LoaderDies, DeliveryLabels
  <2> QED
    BY <1>4, <2>1, LoaderEnds DEF LoaderDies
<1>5. CASE ReadFails(p)
  <2>1. pc'[p] = "unlink" /\ \A q \in Procs \ {p} : pc'[q] = pc[q]
    BY <1>5, GotoFrame DEF ReadFails, DeliveryLabels
  <2> QED
    BY <1>5, <2>1, HookReads, NoticeFacts DEF ReadFails
<1> QED
  BY <1>1, <1>2, <1>3, <1>4, <1>5 DEF LoaderStep

LEMMA DeliveryStep == ASSUME DeliveryInv, StateInv, [Next]_vars PROVE DeliveryInv'
<1>0. TypeInv'
  BY TypeStep DEF StateInv
<1>1. CASE UNCHANGED vars
  BY <1>0, <1>1, NumbersStay, DeliveryStays DEF vars, DeliveryInv
<1>2. CASE Next
  BY <1>0, <1>2, WriterKeepsNotices, StarterKeepsNotices, LoaderKeepsNotices DEF Next
<1> QED
  BY <1>1, <1>2

LEMMA DeliveryStart == Init => DeliveryInv
<1> SUFFICES ASSUME Init PROVE DeliveryInv
  OBVIOUS
<1>1. TypeInv
  BY StateStart DEF StateInv
<1> USE DEF Init
<1>2. NumberOK
  BY DEF NumberOK
<1>3. PlacesOK
  BY ProcFacts DEF PlacesOK, Deliverers
<1>4. KnownOK
  BY NoticeFacts DEF KnownOK, Deliverers
<1>5. PastOK /\ PrintedOK
  BY ProcFacts DEF PastOK, PrintedOK
<1>6. TwiceOK
  BY NoticeFacts DEF TwiceOK, Deliverers
<1>7. AgainOK /\ ShownOnce
  BY DEF AgainOK, ShownOnce
<1>8. LateOK
  BY NoticeFacts DEF LateOK
<1>9. NoticeAccounted
  BY DEF NoticeAccounted
<1> QED
  BY <1>1, <1>2, <1>3, <1>4, <1>5, <1>6, <1>7, <1>8, <1>9 DEF DeliveryInv

LEMMA DeliveryAlways == Spec => []DeliveryInv
<1>1. DeliveryInv /\ StateInv /\ [Next]_vars => DeliveryInv'
  BY DeliveryStep
<1> QED
  BY DeliveryStart, StateAlways, <1>1, PTL DEF Spec

(* However many sessions start at once, a notice is printed once, unless    *)
(* its deletion failed or instructions_loaded, which takes no lock, held it *)
(* as well.                                                                 *)
THEOREM NoticeIsShownOnce == Spec => []ShownOnce
<1>1. DeliveryInv => ShownOnce
  BY DEF DeliveryInv
<1> QED
  BY DeliveryAlways, <1>1, PTL

(* A notice that reached pending-trigger.json waits there, is about to be   *)
(* printed or was printed, unless one of the listed races or deaths took it.*)
THEOREM NoticesAreAccountedFor == Spec => []NoticeAccounted
<1>1. DeliveryInv => NoticeAccounted
  BY DEF DeliveryInv
<1> QED
  BY DeliveryAlways, <1>1, PTL

=============================================================================
