----------------------- MODULE CorrectionStoreProofs -----------------------
(***************************************************************************)
(* corrections.jsonl implements the log, for any number of processes, ids  *)
(* and lines.                                                              *)
(*                                                                         *)
(* The argument: a process past Acquire holds the lock, so a rewriter's    *)
(* buffer is still the file when it writes; ids are unique in the file, so *)
(* editing the lines at the checked indexes is editing the records with    *)
(* the picked ids.                                                         *)
(***************************************************************************)
EXTENDS CorrectionStore, FiniteSetTheorems, WellFoundedInduction, TLAPS

LockOK == \A p \in Procs : pc[p] \in {"locked", "read"} => lock = p

BufOK == \A p \in Procs : pc[p] = "read" => p \in Rewriters /\ buf[p] = file

IInv == TypeOK /\ LockOK /\ BufOK /\ UniqueIds

LEMMA ProcFacts ==
    /\ Appenders \subseteq Procs
    /\ Rewriters \subseteq Procs
    /\ Editors \subseteq Rewriters
    /\ Sweepers \subseteq Rewriters
    /\ Invalidators \subseteq Rewriters
    /\ \A p \in Procs : p # Nobody
BY StoreAssumption DEF Procs, Rewriters

LEMMA JunkIsNoRecord == Junk \notin Log!Record
BY StoreAssumption DEF Log!Record, Log!Status

LEMMA LineFacts ==
    ASSUME NEW lines \in Seq(Line), NEW i \in RecordLines(lines)
    PROVE  /\ i \in 1 .. Len(lines)
           /\ lines[i] \in Log!Record
BY DEF RecordLines, Line

(* RecordIndexOf counts: only its type matters here. *)
LEMMA IndexIsNat ==
    ASSUME NEW lines \in Seq(Line), NEW i \in RecordLines(lines)
    PROVE  RecordIndexOf(lines, i) \in Nat
<1> DEFINE S == {k \in RecordLines(lines) : k < i}
<1>1. IsFiniteSet(1 .. Len(lines))
  BY FS_Interval
<1>2. S \subseteq 1 .. Len(lines)
  BY DEF RecordLines
<1>3. IsFiniteSet(S)
  BY <1>1, <1>2, FS_Subset
<1> QED
  BY <1>3, FS_CardinalityType DEF RecordIndexOf

LEMMA InitIInv == Init => IInv
<1> SUFFICES ASSUME Init PROVE IInv
  OBVIOUS
<1>1. file \in Seq(Line) /\ RecordLines(file) = {}
  BY DEF Init, RecordLines
<1>2. buf \in [Rewriters -> Seq(Line)]
  BY DEF Init
<1>3. shifted \in [Editors -> BOOLEAN] /\ torn \in BOOLEAN
  BY Zenon DEF Init
<1>4. /\ lock \in Procs \cup {Nobody}
      /\ pc \in [Procs -> {"idle", "want", "locked", "read"}]
      /\ target \in [Editors -> SUBSET Target]
      /\ status \in [Editors -> {"applied", "skipped"}]
      /\ refused \in [Editors -> {"no", "identity_mismatch", "not_found"}]
      /\ acked \subseteq Ids
  BY DEF Init
<1>5. LockOK /\ BufOK
  BY DEF Init, LockOK, BufOK
<1>6. UniqueIds
  BY <1>1 DEF UniqueIds
<1> QED
  BY <1>1, <1>2, <1>3, <1>4, <1>5, <1>6 DEF IInv, TypeOK

(* Quit(p) leaves every other process where it was. *)
LEMMA QuitFacts ==
    ASSUME IInv, NEW p \in Procs, Quit(p)
    PROVE  /\ LockOK'
           /\ lock' \in Procs \cup {Nobody}
           /\ pc' \in [Procs -> {"idle", "want", "locked", "read"}]
           /\ buf' \in [Rewriters -> Seq(Line)]
           /\ pc'[p] = "idle"
           /\ \A q \in Procs \ {p} : pc'[q] = pc[q]
           /\ \A q \in Rewriters \ {p} : buf'[q] = buf[q]
<1>1. /\ pc'[p] = "idle"
      /\ \A q \in Procs \ {p} : pc'[q] = pc[q]
      /\ pc' \in [Procs -> {"idle", "want", "locked", "read"}]
  BY DEF Quit, IInv, TypeOK
<1>2. /\ \A q \in Rewriters \ {p} : buf'[q] = buf[q]
      /\ buf' \in [Rewriters -> Seq(Line)]
  <2>1. <<>> \in Seq(Line)
    OBVIOUS
  <2> QED
    BY <2>1 DEF Quit, IInv, TypeOK
<1>3. lock' \in Procs \cup {Nobody}
  BY DEF Quit, IInv, TypeOK
<1>4. LockOK'
  BY <1>1 DEF Quit, IInv, LockOK
<1> QED
  BY <1>1, <1>2, <1>3, <1>4

(* Whoever writes the file holds the lock, so no buffer but its own is in   *)
(* use: BufOK survives every write.                                         *)
LEMMA WriterAlone ==
    ASSUME IInv, NEW p \in Procs, pc[p] \in {"locked", "read"}, Quit(p)
    PROVE  BufOK'
<1>1. \A q \in Procs \ {p} : pc[q] \notin {"locked", "read"}
  BY DEF IInv, LockOK
<1> QED
  BY <1>1, QuitFacts DEF BufOK

-----------------------------------------------------------------------------
(* Rewriting some records of a file, line by line. *)
LEMMA StatusMap ==
    ASSUME NEW lines \in Seq(Line), NEW E \in SUBSET RecordLines(lines),
           NEW st \in {"applied", "skipped"}
    PROVE  /\ SetStatusAt(lines, E, st) \in Seq(Line)
           /\ RecordLines(SetStatusAt(lines, E, st)) = RecordLines(lines)
           /\ \A i \in RecordLines(lines) :
                 /\ SetStatusAt(lines, E, st)[i].id = lines[i].id
                 /\ i \in E => SetStatusAt(lines, E, st)[i] = Log!Decide(lines[i], st)
                 /\ i \notin E => SetStatusAt(lines, E, st)[i] = lines[i]
<1>1. DOMAIN lines = 1 .. Len(lines) /\ Len(lines) \in Nat
  OBVIOUS
<1>2. ASSUME NEW i \in E
      PROVE  /\ Log!Decide(lines[i], st) \in Log!Record
             /\ Log!Decide(lines[i], st).id = lines[i].id
  <2>1. lines[i] \in Log!Record
    BY LineFacts
  <2> QED
    BY <2>1 DEF Log!Record, Log!Status, Log!Decide, Log!Invalidate
<1>3. \A i \in DOMAIN lines : SetStatusAt(lines, E, st)[i] \in Line
  BY <1>2 DEF Line, SetStatusAt
<1>4. SetStatusAt(lines, E, st) \in Seq(Line)
  BY <1>1, <1>3 DEF SetStatusAt
<1>5. RecordLines(SetStatusAt(lines, E, st)) = RecordLines(lines)
  BY <1>2, JunkIsNoRecord DEF RecordLines, SetStatusAt
<1> QED
  BY <1>2, <1>4, <1>5 DEF RecordLines, SetStatusAt

LEMMA InvalidMap ==
    ASSUME NEW lines \in Seq(Line), NEW E \in SUBSET RecordLines(lines)
    PROVE  /\ InvalidateAt(lines, E) \in Seq(Line)
           /\ RecordLines(InvalidateAt(lines, E)) = RecordLines(lines)
           /\ \A i \in RecordLines(lines) :
                 /\ InvalidateAt(lines, E)[i].id = lines[i].id
                 /\ InvalidateAt(lines, E)[i].status = lines[i].status
                 /\ i \in E => InvalidateAt(lines, E)[i] = Log!Invalidate(lines[i])
                 /\ i \notin E => InvalidateAt(lines, E)[i] = lines[i]
<1>1. DOMAIN lines = 1 .. Len(lines) /\ Len(lines) \in Nat
  OBVIOUS
<1>2. ASSUME NEW i \in E
      PROVE  /\ Log!Invalidate(lines[i]) \in Log!Record
             /\ Log!Invalidate(lines[i]).id = lines[i].id
             /\ Log!Invalidate(lines[i]).status = lines[i].status
  <2>1. lines[i] \in Log!Record
    BY LineFacts
  <2> QED
    BY <2>1 DEF Log!Record, Log!Status, Log!Decide, Log!Invalidate
<1>3. \A i \in DOMAIN lines : InvalidateAt(lines, E)[i] \in Line
  BY <1>2 DEF Line, InvalidateAt
<1>4. InvalidateAt(lines, E) \in Seq(Line)
  BY <1>1, <1>3 DEF InvalidateAt
<1>5. RecordLines(InvalidateAt(lines, E)) = RecordLines(lines)
  BY <1>2, JunkIsNoRecord DEF RecordLines, InvalidateAt
<1> QED
  BY <1>2, <1>4, <1>5 DEF RecordLines, InvalidateAt

(* Appending one line. *)
GrownBy(lines, line, new) ==
    /\ new \in Seq(Line)
    /\ \A i \in RecordLines(lines) : i \in RecordLines(new) /\ new[i] = lines[i]
    /\ RecordLines(new) \subseteq RecordLines(lines) \cup {Len(lines) + 1}
    /\ new[Len(lines) + 1] = line
    /\ Len(lines) + 1 \in RecordLines(new) <=> line # Junk

LEMMA AppendMap ==
    ASSUME NEW lines \in Seq(Line), NEW line \in Line
    PROVE  GrownBy(lines, line, Append(lines, line))
<1> DEFINE new == Append(lines, line)
<1>1. /\ new \in Seq(Line)
      /\ DOMAIN new = 1 .. Len(lines) + 1
      /\ DOMAIN lines = 1 .. Len(lines)
      /\ Len(lines) \in Nat
      /\ new[Len(lines) + 1] = line
      /\ \A i \in 1 .. Len(lines) : new[i] = lines[i]
  OBVIOUS
<1> HIDE DEF new
<1>2. GrownBy(lines, line, new)
  BY <1>1 DEF GrownBy, RecordLines
<1> QED
  BY <1>2 DEF new

(* Dropping lines: what is left keeps its order, and so its uniqueness. *)
RestIn(lines, drop, f, new) ==
    /\ new \in Seq(Line)
    /\ \A i \in RecordLines(new) : /\ f[i] \in RecordLines(lines) \ drop
                                  /\ new[i] = lines[f[i]]
    /\ \A i, j \in RecordLines(new) : f[i] = f[j] => i = j
    /\ \A k \in RecordLines(lines) \ drop : \E i \in RecordLines(new) : f[i] = k

LEMMA DropMap ==
    ASSUME NEW lines \in Seq(Line), NEW drop \in SUBSET (1 .. Len(lines)), NEW f,
           \E n \in Nat : f \in [1 .. n -> 1 .. Len(lines)], ListsRest(f, lines, drop)
    PROVE  RestIn(lines, drop, f, LinesAt(lines, f))
<1>0. PICK n \in Nat : f \in [1 .. n -> 1 .. Len(lines)]
  OBVIOUS
<1>1. LinesAt(lines, f) \in Seq(Line)
  BY <1>0 DEF Line, LinesAt
<1>2. \A i, j \in 1 .. n : f[i] = f[j] => i = j
  <2> SUFFICES ASSUME NEW i \in 1 .. n, NEW j \in 1 .. n, f[i] = f[j], i # j
               PROVE  FALSE
    OBVIOUS
  <2>1. i < j \/ j < i
    OBVIOUS
  <2>2. f[i] \in Int /\ f[j] \in Int
    BY <1>0
  <2>3. DOMAIN f = 1 .. n
    BY <1>0
  <2>4. f[i] < f[j] \/ f[j] < f[i]
    BY <2>1, <2>3 DEF ListsRest
  <2> QED
    BY <2>2, <2>4
<1>3. \A k \in RecordLines(lines) \ drop : \E i \in 1 .. n : f[i] = k
  <2> SUFFICES ASSUME NEW k \in RecordLines(lines) \ drop PROVE \E i \in 1 .. n : f[i] = k
    OBVIOUS
  <2>1. k \in {f[i] : i \in DOMAIN f}
    BY DEF ListsRest, RecordLines
  <2> QED
    BY <1>0, <2>1
<1>4. \A i \in 1 .. n : f[i] \in DOMAIN lines \ drop
  BY <1>0 DEF ListsRest
<1> QED
  BY <1>0, <1>1, <1>2, <1>3, <1>4 DEF RestIn, RecordLines, LinesAt

-----------------------------------------------------------------------------
(* Each write, as the log sees it. *)
WriteOK ==
    /\ file' \in Seq(Line)
    /\ torn' \in BOOLEAN
    /\ UniqueIds'

LEMMA SameFile ==
    ASSUME IInv, file' = file, torn' \in BOOLEAN
    PROVE  WriteOK /\ RecordsIn(file)' = RecordsIn(file)
BY DEF IInv, TypeOK, WriteOK, UniqueIds, RecordsIn, RecordLines

LEMMA AppendFacts ==
    ASSUME IInv, NEW a \in Appenders, AppendLine(a) \/ AppendTorn(a)
    PROVE  /\ WriteOK
           /\ acked' \subseteq Ids
           /\ Log!LogAppend \/ RecordsIn(file)' = RecordsIn(file)
<1>1. CASE file' = file
  <2>1. torn' \in BOOLEAN /\ acked' \subseteq Ids
    BY DEF AppendLine, AppendTorn, fileVars, IInv, TypeOK
  <2> QED
    BY <1>1, <2>1, SameFile
<1>2. ASSUME NEW id \in Ids, id \notin IdsIn(file), file' = Append(file, NewRecord(id))
      PROVE  UniqueIds' /\ file' \in Seq(Line) /\ Log!LogAppend
  <2>1. NewRecord(id) \in Log!Record
    BY DEF NewRecord, Log!Record, Log!Status
  <2>2. NewRecord(id) \in Line /\ NewRecord(id) # Junk
    BY <2>1, JunkIsNoRecord DEF Line
  <2>3. file \in Seq(Line)
    BY DEF IInv, TypeOK
  <2> DEFINE m == Len(file) + 1
  <2>4. /\ file' \in Seq(Line)
        /\ \A i \in RecordLines(file) : i \in RecordLines(file') /\ file'[i] = file[i]
        /\ RecordLines(file') \subseteq RecordLines(file) \cup {m}
        /\ file'[m] = NewRecord(id)
        /\ m \in RecordLines(file')
    <3>1. GrownBy(file, NewRecord(id), Append(file, NewRecord(id)))
      BY <2>2, <2>3, AppendMap
    <3>2. GrownBy(file, NewRecord(id), file')
      BY <1>2, <3>1
    <3> QED
      BY <2>2, <3>2 DEF GrownBy
  <2>5. \A i \in RecordLines(file) : file[i].id # id
    BY <1>2 DEF IdsIn, RecordsIn
  <2>6. NewRecord(id).id = id
    BY DEF NewRecord
  <2>7. UniqueIds'
    BY <2>4, <2>5, <2>6 DEF IInv, UniqueIds
  <2>8. RecordsIn(file)' = RecordsIn(file) \cup {NewRecord(id)}
    BY <2>4 DEF RecordsIn
  <2>9. \A r \in RecordsIn(file) : r.id # id
    BY <2>5 DEF RecordsIn
  <2> QED
    BY <2>4, <2>7, <2>8, <2>9 DEF Log!LogAppend, NewRecord
<1>4. \/ file' = file
      \/ \E id \in Ids : id \notin IdsIn(file) /\ file' = Append(file, NewRecord(id))
      \/ file' = Append(file, Junk)
  BY DEF AppendLine, AppendTorn, fileVars
<1>5. torn' \in BOOLEAN /\ acked' \subseteq Ids
  BY DEF AppendLine, AppendTorn, fileVars, IInv, TypeOK
<1>6. CASE file' = Append(file, Junk)
  <2>1. Junk \in Line /\ file \in Seq(Line)
    BY DEF Line, IInv, TypeOK
  <2>2. /\ file' \in Seq(Line)
        /\ \A i \in RecordLines(file) : i \in RecordLines(file') /\ file'[i] = file[i]
        /\ RecordLines(file') \subseteq RecordLines(file) \cup {Len(file) + 1}
        /\ Len(file) + 1 \notin RecordLines(file')
    <3>1. GrownBy(file, Junk, Append(file, Junk))
      BY <2>1, AppendMap
    <3>2. GrownBy(file, Junk, file')
      BY <1>6, <3>1
    <3> QED
      BY <3>2 DEF GrownBy
  <2>3. RecordLines(file') = RecordLines(file)
    BY <2>2
  <2> QED
    BY <1>5, <2>2, <2>3 DEF WriteOK, IInv, UniqueIds, RecordsIn
<1> QED
  BY <1>1, <1>2, <1>4, <1>5, <1>6 DEF WriteOK

LEMMA EditFacts ==
    ASSUME IInv, NEW e \in Editors, EditWrite(e)
    PROVE  /\ WriteOK
           /\ \/ RecordsIn(file)' = RecordsIn(file)
              \/ LET S == {t.id : t \in target[e]}
                 IN  /\ S \subseteq IdsIn(file)
                     /\ RecordsIn(file)' = Log!WithStatus(RecordsIn(file), S, status[e])
<1>0. file \in Seq(Line) /\ status[e] \in {"applied", "skipped"} /\ buf[e] = file
  BY ProcFacts DEF IInv, TypeOK, BufOK, EditWrite
<1>1. CASE UNCHANGED fileVars
  BY <1>1, SameFile DEF fileVars, IInv, TypeOK
<1>2. CASE /\ ~Mismatched(e)
           /\ ~Missing(e)
           /\ Replace(SetStatusAt(buf[e], Edited(e), status[e]))
  <2> DEFINE S == {t.id : t \in target[e]}
  <2> PICK E : E = Edited(e)
    OBVIOUS
  <2>1. E \in SUBSET RecordLines(file)
    BY <1>0 DEF Edited
  <2> DEFINE edited == SetStatusAt(file, E, status[e])
  <2>a. file' = edited
    BY <1>0, <1>2 DEF Replace
  <2>b. /\ edited \in Seq(Line)
        /\ RecordLines(edited) = RecordLines(file)
        /\ \A i \in RecordLines(file) :
              /\ edited[i].id = file[i].id
              /\ i \in E => edited[i] = Log!Decide(file[i], status[e])
              /\ i \notin E => edited[i] = file[i]
    <3>1. file \in Seq(Line) /\ status[e] \in {"applied", "skipped"}
      BY <1>0
    <3> QED
      BY <2>1, <3>1, StatusMap
  <2>2. /\ file' \in Seq(Line)
        /\ RecordLines(file') = RecordLines(file)
        /\ \A i \in RecordLines(file) :
              /\ file'[i].id = file[i].id
              /\ i \in E => file'[i] = Log!Decide(file[i], status[e])
              /\ i \notin E => file'[i] = file[i]
    <3> HIDE DEF edited
    <3> QED
      BY <2>a, <2>b
  <2>3. UniqueIds'
    BY <2>2 DEF IInv, UniqueIds
  <2>4. \A t \in target[e] : \E i \in RecordLines(file) :
            IsAt(file, i, t) /\ file[i].id = t.id
    BY <1>0, <1>2 DEF Mismatched, Missing
  <2>5. S \subseteq IdsIn(file)
    BY <2>4 DEF IdsIn, RecordsIn
  <2>6. \A i \in RecordLines(file) : i \in E <=> file[i].id \in S
    <3>1. ASSUME NEW i \in RecordLines(file), i \in E PROVE file[i].id \in S
      BY <1>0, <1>2, <3>1 DEF Edited, Mismatched
    <3>2. ASSUME NEW i \in RecordLines(file), file[i].id \in S PROVE i \in E
      <4>1. PICK t \in target[e] : t.id = file[i].id
        BY <3>2
      <4>2. PICK k \in RecordLines(file) : IsAt(file, k, t) /\ file[k].id = t.id
        BY <2>4
      <4>3. k = i
        BY <4>1, <4>2 DEF IInv, UniqueIds
      <4> QED
        BY <1>0, <4>2, <4>3 DEF Edited
    <3> QED
      BY <3>1, <3>2
  <2>7. \A i \in RecordLines(file) :
            file'[i] = IF file[i].id \in S THEN Log!Decide(file[i], status[e])
                                           ELSE file[i]
    BY <2>2, <2>6
  <2>8. RecordsIn(file)' = Log!WithStatus(RecordsIn(file), S, status[e])
    <3>1. RecordsIn(file') = {file'[i] : i \in RecordLines(file)}
      BY <2>2 DEF RecordsIn
    <3>2. \A r \in RecordsIn(file') :
             \E x \in RecordsIn(file) :
                r = IF x.id \in S THEN Log!Decide(x, status[e]) ELSE x
      <4> HIDE DEF S
      <4> QED
        BY <2>7, <3>1 DEF RecordsIn
    <3>3. \A x \in RecordsIn(file) :
             (IF x.id \in S THEN Log!Decide(x, status[e]) ELSE x) \in RecordsIn(file')
      <4> HIDE DEF S
      <4> QED
        BY <2>7, <3>1 DEF RecordsIn
    <3> QED
      BY <3>2, <3>3 DEF Log!WithStatus
  <2> QED
    BY <1>2, <2>2, <2>3, <2>5, <2>8 DEF WriteOK, Replace
<1> QED
  BY <1>1, <1>2 DEF EditWrite

LEMMA SweepFacts ==
    ASSUME IInv, NEW s \in Sweepers, SweepWrite(s)
    PROVE  WriteOK /\ Log!LogSweep /\ acked' \subseteq Ids
<1>0. file \in Seq(Line) /\ buf[s] = file
  BY ProcFacts DEF IInv, TypeOK, BufOK, SweepWrite
<1>a. PICK aged \in SUBSET {i \in DOMAIN buf[s] : Droppable(buf[s][i])},
           n \in 0 .. Len(buf[s]) :
           /\ \E f \in [1 .. n -> DOMAIN buf[s]] :
                 /\ ListsRest(f, buf[s], aged)
                 /\ Replace(LinesAt(buf[s], f))
           /\ acked' = acked \ {buf[s][i].id : i \in aged}
  BY Zenon DEF SweepWrite
<1>b. PICK f \in [1 .. n -> DOMAIN buf[s]] :
           /\ ListsRest(f, buf[s], aged)
           /\ Replace(LinesAt(buf[s], f))
  BY <1>a
<1>1. /\ aged \in SUBSET {i \in DOMAIN file : Droppable(file[i])}
      /\ n \in 0 .. Len(file)
      /\ f \in [1 .. n -> DOMAIN file]
      /\ ListsRest(f, file, aged)
      /\ Replace(LinesAt(file, f))
      /\ acked' = acked \ {file[i].id : i \in aged}
  BY <1>0, <1>a, <1>b
<1>2. n \in Nat /\ aged \in SUBSET (1 .. Len(file))
  BY <1>0
<1> DEFINE rest == LinesAt(file, f)
<1>c. file' = rest
  BY <1>1 DEF Replace
<1>d. RestIn(file, aged, f, rest)
  <2>1. f \in [1 .. n -> 1 .. Len(file)] /\ ListsRest(f, file, aged)
    BY <1>0, <1>1
  <2>2. file \in Seq(Line)
    BY <1>0
  <2>3. \E k \in Nat : f \in [1 .. k -> 1 .. Len(file)]
    BY <1>2, <2>1
  <2>4. aged \in SUBSET (1 .. Len(file)) /\ ListsRest(f, file, aged)
    BY <1>2, <2>1
  <2> QED
    BY <2>2, <2>3, <2>4, DropMap
<1>3. RestIn(file, aged, f, file')
  BY <1>c, <1>d
<1>4. UniqueIds'
  BY <1>3 DEF RestIn, IInv, UniqueIds
<1>5. Log!LogSweep
  <2>1. RecordsIn(file)' \subseteq RecordsIn(file)
    BY <1>3 DEF RestIn, RecordsIn
  <2>2. ASSUME NEW r \in RecordsIn(file), r \notin RecordsIn(file)'
        PROVE  Log!Decided(r)
    <3>1. PICK k \in RecordLines(file) : r = file[k]
      BY DEF RecordsIn
    <3>2. k \in aged
      BY <1>3, <2>2, <3>1 DEF RestIn, RecordsIn
    <3> QED
      BY <1>1, <3>1, <3>2 DEF Droppable
  <2> QED
    BY <2>1, <2>2 DEF Log!LogSweep
<1> QED
  BY <1>1, <1>3, <1>4, <1>5 DEF RestIn, WriteOK, Replace, IInv, TypeOK

LEMMA InvalidateFacts ==
    ASSUME IInv, NEW v \in Invalidators, InvalidateWrite(v)
    PROVE  WriteOK /\ (Log!LogInvalidate \/ RecordsIn(file)' = RecordsIn(file))
<1>0. file \in Seq(Line) /\ buf[v] = file
  BY ProcFacts DEF IInv, TypeOK, BufOK, InvalidateWrite
<1>1. CASE UNCHANGED fileVars
  BY <1>1, SameFile DEF fileVars, IInv, TypeOK
<1>2. ASSUME NEW found \in SUBSET RecordLines(file),
             Replace(InvalidateAt(file, found))
      PROVE  WriteOK /\ Log!LogInvalidate
  <2> DEFINE marked == InvalidateAt(file, found)
  <2>a. file' = marked
    BY <1>2 DEF Replace
  <2>b. /\ marked \in Seq(Line)
        /\ RecordLines(marked) = RecordLines(file)
        /\ \A i \in RecordLines(file) :
              /\ marked[i].id = file[i].id
              /\ i \in found => marked[i] = Log!Invalidate(file[i])
              /\ i \notin found => marked[i] = file[i]
    BY <1>0, InvalidMap
  <2>1. /\ file' \in Seq(Line)
        /\ RecordLines(file') = RecordLines(file)
        /\ \A i \in RecordLines(file) :
              /\ file'[i].id = file[i].id
              /\ i \in found => file'[i] = Log!Invalidate(file[i])
              /\ i \notin found => file'[i] = file[i]
    <3> HIDE DEF marked
    <3> QED
      BY <2>a, <2>b
  <2>2. UniqueIds'
    BY <2>1 DEF IInv, UniqueIds
  <2> DEFINE S == {file[i].id : i \in found}
  <2>3. \A i \in RecordLines(file) : i \in found <=> file[i].id \in S
    BY DEF IInv, UniqueIds
  <2>4. \A i \in RecordLines(file) :
            file'[i] = IF file[i].id \in S THEN Log!Invalidate(file[i])
                                           ELSE file[i]
    BY <2>1, <2>3
  <2>5. RecordsIn(file)' = Log!Invalidated(RecordsIn(file), S)
    <3>1. RecordsIn(file') = {file'[i] : i \in RecordLines(file)}
      BY <2>1 DEF RecordsIn
    <3>2. \A r \in RecordsIn(file') :
             \E x \in RecordsIn(file) :
                r = IF x.id \in S THEN Log!Invalidate(x) ELSE x
      <4> HIDE DEF S
      <4> QED
        BY <2>4, <3>1 DEF RecordsIn
    <3>3. \A x \in RecordsIn(file) :
             (IF x.id \in S THEN Log!Invalidate(x) ELSE x) \in RecordsIn(file')
      <4> HIDE DEF S
      <4> QED
        BY <2>4, <3>1 DEF RecordsIn
    <3> QED
      BY <3>2, <3>3 DEF Log!Invalidated
  <2>6. S \in SUBSET Ids
    BY <1>0, LineFacts DEF Log!Record
  <2> QED
    BY <1>2, <2>1, <2>2, <2>5, <2>6 DEF WriteOK, Replace, Log!LogInvalidate
<1> QED
  BY <1>0, <1>1, <1>2 DEF InvalidateWrite

-----------------------------------------------------------------------------
LEMMA StepIInv == IInv /\ [Next]_vars => IInv'
<1> SUFFICES ASSUME IInv, [Next]_vars PROVE IInv'
  OBVIOUS
<1> USE ProcFacts
<1>1. ASSUME NEW p \in Procs, Acquire(p) PROVE IInv'
  <2>1. TypeOK'
    BY <1>1, Zenon DEF Acquire, fileVars, editVars, IInv, TypeOK
  <2>2. LockOK'
    BY <1>1 DEF Acquire, IInv, TypeOK, LockOK
  <2>3. BufOK'
    BY <1>1 DEF Acquire, fileVars, IInv, TypeOK, BufOK
  <2>4. UniqueIds'
    BY <1>1 DEF Acquire, fileVars, IInv, UniqueIds, RecordLines
  <2> QED
    BY <2>1, <2>2, <2>3, <2>4 DEF IInv
<1>2. ASSUME NEW p \in Procs, Quit(p), pc[p] \in {"locked", "read"},
             WriteOK, UNCHANGED <<target, status>>, acked' \subseteq Ids,
             refused' \in [Editors -> {"no", "identity_mismatch", "not_found"}],
             shifted' \in [Editors -> BOOLEAN]
      PROVE  IInv'
  <2>1. TypeOK'
    BY <1>2, QuitFacts DEF WriteOK, IInv, TypeOK
  <2> QED
    BY <1>2, <2>1, QuitFacts, WriterAlone DEF WriteOK, IInv
<1>3. ASSUME NEW p \in Procs, Die(p) PROVE IInv'
  <2>1. UNCHANGED fileVars /\ UNCHANGED editVars /\ UNCHANGED <<acked, shifted>> /\ Quit(p)
    BY <1>3 DEF Die
  <2>2. TypeOK'
    BY <2>1, QuitFacts DEF fileVars, editVars, IInv, TypeOK
  <2>3. BufOK'
    BY <2>1, QuitFacts DEF fileVars, IInv, BufOK
  <2>4. UniqueIds'
    BY <2>1 DEF fileVars, IInv, UniqueIds, RecordLines
  <2> QED
    BY <2>1, <2>2, <2>3, <2>4, QuitFacts DEF IInv
<1>4. ASSUME NEW a \in Procs, AppendLine(a) \/ AppendTorn(a) PROVE IInv'
  <2>1. a \in Appenders /\ pc[a] = "locked" /\ Quit(a)
    BY <1>4 DEF AppendLine, AppendTorn
  <2>2. UNCHANGED <<target, status, refused, shifted>>
    BY <1>4 DEF AppendLine, AppendTorn, editVars
  <2> QED
    BY <1>2, <1>4, <2>1, <2>2, AppendFacts DEF IInv, TypeOK
<1>5. ASSUME NEW p \in Procs, ReadAll(p) PROVE IInv'
  <2>1. TypeOK'
    BY <1>5 DEF ReadAll, fileVars, editVars, IInv, TypeOK
  <2>2. LockOK'
    BY <1>5 DEF ReadAll, IInv, TypeOK, LockOK
  <2>3. BufOK'
    <3>1. buf'[p] = file /\ \A q \in Rewriters \ {p} : buf'[q] = buf[q]
      BY <1>5 DEF ReadAll, IInv, TypeOK
    <3>2. \A q \in Procs \ {p} : pc'[q] = pc[q]
      BY <1>5 DEF ReadAll, IInv, TypeOK
    <3> QED
      BY <1>5, <3>1, <3>2 DEF ReadAll, fileVars, IInv, BufOK
  <2>4. UniqueIds'
    BY <1>5 DEF ReadAll, fileVars, IInv, UniqueIds, RecordLines
  <2> QED
    BY <2>1, <2>2, <2>3, <2>4 DEF IInv
<1>6. ASSUME NEW e \in Procs, EditBegin(e) PROVE IInv'
  <2>0. /\ e \in Editors
        /\ pc' = [pc EXCEPT ![e] = "want"]
        /\ refused' = [refused EXCEPT ![e] = "no"]
        /\ shifted' = [shifted EXCEPT ![e] = FALSE]
        /\ UNCHANGED <<fileVars, lock, buf, acked>>
    BY <1>6 DEF EditBegin
  <2>1. PICK T \in SUBSET RecordLines(file), st \in {"applied", "skipped"} :
          /\ target' = [target EXCEPT ![e] =
                 {[index |-> RecordIndexOf(file, i), id |-> file[i].id] : i \in T}]
          /\ status' = [status EXCEPT ![e] = st]
    BY <1>6 DEF EditBegin
  <2>2. \A i \in T : [index |-> RecordIndexOf(file, i), id |-> file[i].id] \in Target
    BY LineFacts, IndexIsNat DEF IInv, TypeOK, Target, Log!Record
  <2>3. /\ target' \in [Editors -> SUBSET Target]
        /\ status' \in [Editors -> {"applied", "skipped"}]
    BY <2>0, <2>1, <2>2 DEF IInv, TypeOK
  <2>4. shifted' \in [Editors -> BOOLEAN]
    BY <2>0, Zenon DEF IInv, TypeOK
  <2>5. TypeOK'
    BY <2>0, <2>3, <2>4 DEF fileVars, IInv, TypeOK
  <2>6. LockOK' /\ BufOK'
    BY <2>0 DEF fileVars, IInv, TypeOK, LockOK, BufOK
  <2>7. UniqueIds'
    BY <2>0 DEF fileVars, IInv, UniqueIds, RecordLines
  <2> QED
    BY <2>5, <2>6, <2>7 DEF IInv
<1>7. ASSUME NEW e \in Procs, EditWrite(e) PROVE IInv'
  <2>1. /\ e \in Editors /\ pc[e] = "read" /\ Quit(e)
        /\ UNCHANGED <<target, status, acked, shifted>>
    BY <1>7 DEF EditWrite
  <2>2. refused' \in [Editors -> {"no", "identity_mismatch", "not_found"}]
    BY <1>7 DEF EditWrite, IInv, TypeOK
  <2> QED
    BY <1>2, <1>7, <2>1, <2>2, EditFacts DEF IInv, TypeOK
<1>8. ASSUME NEW s \in Procs, SweepWrite(s) PROVE IInv'
  <2>1. s \in Sweepers /\ pc[s] = "read" /\ Quit(s) /\ UNCHANGED <<target, status, refused>>
    BY <1>8 DEF SweepWrite, editVars
  <2>2. shifted' \in [Editors -> BOOLEAN]
    <3>1. \E aged : shifted' = [e \in Editors |-> shifted[e] \/ (aged # {} /\ pc[e] # "idle")]
      BY <1>8, Zenon DEF SweepWrite
    <3> QED
      BY <3>1, Zenon
  <2> QED
    BY <1>2, <1>8, <2>1, <2>2, SweepFacts DEF IInv, TypeOK
<1>9. ASSUME NEW v \in Procs, InvalidateWrite(v) PROVE IInv'
  <2>1. /\ v \in Invalidators /\ pc[v] = "read" /\ Quit(v)
        /\ UNCHANGED <<target, status, refused, acked, shifted>>
    BY <1>9 DEF InvalidateWrite, editVars
  <2> QED
    BY <1>2, <1>9, <2>1, InvalidateFacts DEF IInv, TypeOK
<1>10. CASE UNCHANGED vars
  <2>1. LockOK' /\ BufOK' /\ UniqueIds'
    BY <1>10 DEF vars, IInv, LockOK, BufOK, UniqueIds, RecordLines
  <2>2. TypeOK'
    BY <1>10, Zenon DEF vars, IInv, TypeOK
  <2> QED
    BY <2>1, <2>2 DEF IInv
<1> QED
  BY <1>1, <1>3, <1>4, <1>5, <1>6, <1>7, <1>8, <1>9, <1>10 DEF Next, ProcStep

(***************************************************************************)
(* The lines, buffers, targets and program counters stay in their ranges.  *)
(***************************************************************************)
THEOREM TypeCorrect == Spec => []TypeOK
<1>1. IInv => TypeOK
  BY DEF IInv
<1> QED
  BY <1>1, InitIInv, StepIInv, PTL DEF Spec

(***************************************************************************)
(* No two readable lines of corrections.jsonl ever carry the same id.      *)
(***************************************************************************)
THEOREM NoDuplicateIds == Spec => []UniqueIds
<1>1. IInv => UniqueIds
  BY DEF IInv
<1> QED
  BY <1>1, InitIInv, StepIInv, PTL DEF Spec

(***************************************************************************)
(* update_reflect_status changes only records its caller has picked.       *)
(***************************************************************************)
THEOREM EditsHitTheirTarget == Spec => StatusHitsTarget
<1> DEFINE Hit == \A r \in RecordsIn(file), q \in RecordsIn(file)' :
                     r.id = q.id /\ r.status # q.status =>
                        \E e \in Editors : /\ pc[e] = "read" /\ pc'[e] = "idle"
                                          /\ q.status = status[e]
                                          /\ \E t \in target[e] : t.id = r.id
<1>1. IInv /\ [Next]_vars => [Hit]_vars
  <2> SUFFICES ASSUME IInv, Next,
                      NEW r \in RecordsIn(file), NEW q \in RecordsIn(file)',
                      r.id = q.id, r.status # q.status
               PROVE  \E e \in Editors : /\ pc[e] = "read" /\ pc'[e] = "idle"
                                        /\ q.status = status[e]
                                        /\ \E t \in target[e] : t.id = r.id
    OBVIOUS
  <2>0. \A r1, r2 \in RecordsIn(file) : r1.id = r2.id => r1 = r2
    BY DEF IInv, UniqueIds, RecordsIn
  <2>1. RecordsIn(file)' # RecordsIn(file)
    BY <2>0
  <2>2. file' # file
    BY <2>1
  <2>3. PICK p \in Procs : \/ AppendLine(p) \/ AppendTorn(p) \/ EditWrite(p)
                           \/ SweepWrite(p) \/ InvalidateWrite(p)
    BY <2>2 DEF Next, ProcStep, Acquire, Die, ReadAll, EditBegin, fileVars
  <2>4. CASE AppendLine(p) \/ AppendTorn(p)
    <3>1. Log!LogAppend
      BY <2>1, <2>4, AppendFacts DEF AppendLine, AppendTorn
    <3> QED
      BY <2>0, <3>1 DEF Log!LogAppend
  <2>5. CASE EditWrite(p)
    <3>1. p \in Editors /\ pc[p] = "read" /\ Quit(p)
      BY <2>5 DEF EditWrite
    <3>2. pc'[p] = "idle"
      BY <3>1, QuitFacts
    <3> DEFINE S == {t.id : t \in target[p]}
    <3>3. RecordsIn(file)' = Log!WithStatus(RecordsIn(file), S, status[p])
      BY <2>1, <2>5, <3>1, EditFacts
    <3>4. PICK r0 \in RecordsIn(file) :
              q = IF r0.id \in S THEN Log!Decide(r0, status[p]) ELSE r0
      BY <3>3 DEF Log!WithStatus
    <3>5. r0 \in Log!Record
      BY LineFacts DEF RecordsIn, IInv, TypeOK
    <3>6. q.id = r0.id
      BY <3>4, <3>5 DEF Log!Record, Log!Decide
    <3>7. r0 = r
      BY <2>0, <3>6
    <3>8. r.id \in S /\ q.status = status[p]
      BY <3>4, <3>5, <3>7 DEF Log!Record, Log!Decide
    <3> QED
      BY <3>1, <3>2, <3>8
  <2>6. CASE SweepWrite(p)
    <3>1. RecordsIn(file)' \subseteq RecordsIn(file)
      BY <2>6, SweepFacts DEF SweepWrite, Log!LogSweep
    <3> QED
      BY <2>0, <3>1
  <2>7. CASE InvalidateWrite(p)
    <3>1. Log!LogInvalidate
      BY <2>1, <2>7, InvalidateFacts DEF InvalidateWrite
    <3>2. PICK S \in SUBSET Ids : RecordsIn(file)' = Log!Invalidated(RecordsIn(file), S)
      BY <3>1 DEF Log!LogInvalidate
    <3>3. PICK r0 \in RecordsIn(file) :
              q = IF r0.id \in S THEN Log!Invalidate(r0) ELSE r0
      BY <3>2 DEF Log!Invalidated
    <3>4. r0 \in Log!Record
      BY LineFacts DEF RecordsIn, IInv, TypeOK
    <3>5. q.id = r0.id /\ q.status = r0.status
      BY <3>3, <3>4 DEF Log!Record, Log!Invalidate
    <3> QED
      BY <2>0, <3>5
  <2> QED
    BY <2>3, <2>4, <2>5, <2>6, <2>7
<1> QED
  BY <1>1, InitIInv, StepIInv, PTL DEF Spec, StatusHitsTarget

-----------------------------------------------------------------------------
(* What no operation takes back: an acknowledged id stays readable until a  *)
(* sweep forgets the acknowledgement with the line.                         *)
Kept == \A r \in RecordsIn(file) : r.id \in acked' => \E q \in RecordsIn(file') : q.id = r.id

LEMMA KeptIsReadable ==
    ASSUME AckedReadable, Kept, acked' \subseteq acked
    PROVE  AckedReadable'
<1> SUFFICES ASSUME NEW id \in acked' PROVE id \in IdsIn(file')
  BY DEF AckedReadable
<1>1. PICK r \in RecordsIn(file) : r.id = id
  BY DEF AckedReadable, IdsIn
<1> QED
  BY <1>1 DEF Kept, IdsIn

LEMMA AppendAcks ==
    ASSUME IInv, AckedReadable, NEW a \in Appenders, AppendLine(a) \/ AppendTorn(a)
    PROVE  AckedReadable'
<1>1. ASSUME NEW line \in Line, file' = Append(file, line)
      PROVE  /\ RecordsIn(file) \subseteq RecordsIn(file')
             /\ line # Junk => line \in RecordsIn(file')
  <2>1. file \in Seq(Line)
    BY DEF IInv, TypeOK
  <2>2. GrownBy(file, line, file')
    <3>1. GrownBy(file, line, Append(file, line))
      BY <2>1, AppendMap
    <3> QED
      BY <1>1, <3>1
  <2> QED
    BY <2>2 DEF GrownBy, RecordsIn
<1>2. CASE file' = file /\ acked' = acked
  BY <1>2 DEF AckedReadable
<1>3. ASSUME NEW id \in Ids, file' = Append(file, NewRecord(id)), acked' = acked \cup {id}
      PROVE  AckedReadable'
  <2>1. NewRecord(id) \in Log!Record /\ NewRecord(id).id = id
    BY DEF NewRecord, Log!Record, Log!Status
  <2>2. /\ RecordsIn(file) \subseteq RecordsIn(file')
        /\ NewRecord(id) \in RecordsIn(file')
    BY <1>1, <1>3, <2>1, JunkIsNoRecord DEF Line
  <2> QED
    BY <1>3, <2>1, <2>2 DEF AckedReadable, IdsIn
<1>4. CASE file' = Append(file, Junk) /\ acked' = acked
  <2>1. RecordsIn(file) \subseteq RecordsIn(file')
    BY <1>1, <1>4 DEF Line
  <2> QED
    BY <1>4, <2>1 DEF AckedReadable, IdsIn
<1> QED
  BY <1>2, <1>3, <1>4 DEF AppendLine, AppendTorn, fileVars

LEMMA SweepKeeps ==
    ASSUME IInv, AckedReadable, NEW s \in Sweepers, SweepWrite(s)
    PROVE  AckedReadable'
<1>0. file \in Seq(Line) /\ buf[s] = file
  BY ProcFacts DEF IInv, TypeOK, BufOK, SweepWrite
<1>a. PICK aged \in SUBSET {i \in DOMAIN buf[s] : Droppable(buf[s][i])},
           n \in 0 .. Len(buf[s]) :
           /\ \E f \in [1 .. n -> DOMAIN buf[s]] :
                 /\ ListsRest(f, buf[s], aged)
                 /\ Replace(LinesAt(buf[s], f))
           /\ acked' = acked \ {buf[s][i].id : i \in aged}
  BY Zenon DEF SweepWrite
<1>b. PICK f \in [1 .. n -> DOMAIN buf[s]] :
           /\ ListsRest(f, buf[s], aged)
           /\ Replace(LinesAt(buf[s], f))
  BY <1>a
<1>1. /\ aged \in SUBSET (1 .. Len(file))
      /\ n \in Nat
      /\ f \in [1 .. n -> 1 .. Len(file)]
      /\ ListsRest(f, file, aged)
      /\ acked' = acked \ {file[i].id : i \in aged}
  BY <1>0, <1>a, <1>b
<1>2. RestIn(file, aged, f, file')
  <2>1. \E k \in Nat : f \in [1 .. k -> 1 .. Len(file)]
    BY <1>1
  <2>2. RestIn(file, aged, f, LinesAt(file, f))
    BY <1>0, <1>1, <2>1, DropMap
  <2>3. file' = LinesAt(file, f)
    BY <1>0, <1>b DEF Replace
  <2> QED
    BY <2>2, <2>3
<1>3. Kept
  <2> SUFFICES ASSUME NEW r \in RecordsIn(file), r.id \in acked'
               PROVE  \E q \in RecordsIn(file') : q.id = r.id
    BY DEF Kept
  <2>1. PICK k \in RecordLines(file) : r = file[k]
    BY DEF RecordsIn
  <2>2. k \notin aged
    BY <1>1, <2>1
  <2>3. k \in RecordLines(file) \ aged
    BY <2>1, <2>2
  <2>4. PICK i \in RecordLines(file') : f[i] = k
    BY <1>2, <2>3 DEF RestIn
  <2>5. file'[i] = file[k]
    BY <1>2, <2>4 DEF RestIn
  <2> QED
    BY <2>1, <2>4, <2>5 DEF RecordsIn
<1> QED
  BY <1>1, <1>3, KeptIsReadable

(* Edits and marks keep the id of every record. *)
LEMMA MappedKeeps ==
    ASSUME IInv, NEW S \in SUBSET Ids, NEW st,
           \/ RecordsIn(file)' = Log!WithStatus(RecordsIn(file), S, st)
           \/ RecordsIn(file)' = Log!Invalidated(RecordsIn(file), S)
    PROVE  Kept
<1> SUFFICES ASSUME NEW r \in RecordsIn(file)
             PROVE  \E q \in RecordsIn(file') : q.id = r.id
  BY DEF Kept
<1>1. r \in Log!Record
  BY LineFacts DEF RecordsIn, IInv, TypeOK
<1>2. Log!Decide(r, st).id = r.id /\ Log!Invalidate(r).id = r.id
  BY <1>1 DEF Log!Record, Log!Decide, Log!Invalidate
<1>3. RecordsIn(file)' = RecordsIn(file')
  BY DEF RecordsIn
<1> QED
  BY <1>2, <1>3 DEF Log!WithStatus, Log!Invalidated

(***************************************************************************)
(* A record whose append was acknowledged is readable until prune drops    *)
(* it: no edit, mark, sweep or death of another process loses it.          *)
(***************************************************************************)
THEOREM AcksAreKept == Spec => []AckedReadable
<1>1. Init => AckedReadable
  BY DEF Init, AckedReadable
<1>2. IInv /\ AckedReadable /\ [Next]_vars => AckedReadable'
  <2> SUFFICES ASSUME IInv, AckedReadable, [Next]_vars PROVE AckedReadable'
    OBVIOUS
  <2>1. CASE file' = file /\ acked' = acked
    BY <2>1 DEF AckedReadable
  <2>2. ASSUME NEW p \in Procs, AppendLine(p) \/ AppendTorn(p) PROVE AckedReadable'
    BY <2>2, AppendAcks DEF AppendLine, AppendTorn
  <2>3. ASSUME NEW p \in Procs, SweepWrite(p) PROVE AckedReadable'
    BY <2>3, SweepKeeps DEF SweepWrite
  <2>4. ASSUME NEW p \in Procs, EditWrite(p) PROVE AckedReadable'
    <3>1. p \in Editors /\ acked' = acked
      BY <2>4 DEF EditWrite
    <3> DEFINE S == {t.id : t \in target[p]}
    <3>2. S \in SUBSET Ids
      BY <3>1 DEF IInv, TypeOK, Target
    <3>3. CASE RecordsIn(file)' = RecordsIn(file)
      BY <3>1, <3>3 DEF AckedReadable, IdsIn, RecordsIn
    <3>4. CASE RecordsIn(file)' = Log!WithStatus(RecordsIn(file), S, status[p])
      <4>1. Kept
        <5> HIDE DEF S
        <5> QED
          BY <3>2, <3>4, MappedKeeps
      <4> QED
        BY <3>1, <4>1, KeptIsReadable
    <3> QED
      BY <2>4, <3>1, <3>3, <3>4, EditFacts
  <2>5. ASSUME NEW p \in Procs, InvalidateWrite(p) PROVE AckedReadable'
    <3>1. p \in Invalidators /\ acked' = acked
      BY <2>5 DEF InvalidateWrite
    <3>2. CASE RecordsIn(file)' = RecordsIn(file)
      BY <3>1, <3>2 DEF AckedReadable, IdsIn, RecordsIn
    <3>3. CASE Log!LogInvalidate
      <4>1. PICK S \in SUBSET Ids : RecordsIn(file)' = Log!Invalidated(RecordsIn(file), S)
        BY <3>3 DEF Log!LogInvalidate
      <4>2. Kept
        BY <4>1, MappedKeeps
      <4> QED
        BY <3>1, <4>2, KeptIsReadable
    <3> QED
      BY <2>5, <3>1, <3>2, <3>3, InvalidateFacts
  <2> QED
    BY <2>1, <2>2, <2>3, <2>4, <2>5
       DEF Next, ProcStep, Acquire, Die, ReadAll, EditBegin, fileVars, vars
<1> QED
  BY <1>1, <1>2, InitIInv, StepIInv, PTL DEF Spec

-----------------------------------------------------------------------------
(* Why a refusal is justified: until a sweep drops lines, the record that   *)
(* was picked is the one at the index that was noted for it.                *)
Stands(lines, t) ==
    \E i \in RecordLines(lines) : RecordIndexOf(lines, i) = t.index /\ lines[i].id = t.id

Aimed ==
    \A e \in Editors : pc[e] # "idle" /\ ~shifted[e] => \A t \in target[e] : Stands(file, t)

(* No two records have one index. *)
LEMMA IndexIsOne ==
    ASSUME NEW lines \in Seq(Line), NEW i \in RecordLines(lines), NEW j \in RecordLines(lines),
           RecordIndexOf(lines, i) = RecordIndexOf(lines, j)
    PROVE  i = j
<1> DEFINE Before(m) == {k \in RecordLines(lines) : k < m}
<1>1. i \in Int /\ j \in Int /\ RecordLines(lines) \subseteq 1 .. Len(lines)
  BY DEF RecordLines
<1>2. ASSUME NEW a \in RecordLines(lines), NEW b \in RecordLines(lines), a < b
      PROVE  RecordIndexOf(lines, a) # RecordIndexOf(lines, b)
  <2>1. a \in Int /\ b \in Int /\ \A k \in RecordLines(lines) : k \in Int
    BY <1>1
  <2>2. Before(a) \subseteq Before(b)
    <3> SUFFICES ASSUME NEW k \in RecordLines(lines), k < a PROVE k < b
      OBVIOUS
    <3>1. k \in Int
      BY <2>1
    <3> QED
      BY <1>2, <2>1, <3>1
  <2>3. a \in Before(b) /\ a \notin Before(a)
    BY <1>2, <2>1
  <2>4. IsFiniteSet(1 .. Len(lines)) /\ Before(b) \subseteq 1 .. Len(lines)
    BY <1>1, FS_Interval
  <2>5. IsFiniteSet(Before(b))
    BY <2>4, FS_Subset
  <2>6. Cardinality(Before(b)) # Cardinality(Before(a))
    <3> HIDE DEF Before
    <3> QED
      BY <2>2, <2>3, <2>5, FS_Subset
  <2> QED
    BY <2>6 DEF RecordIndexOf
<1> QED
  BY <1>1, <1>2

(* Indexes count the records before a line, so they outlive whatever leaves *)
(* those in place.                                                          *)
LEMMA StandsMapped ==
    ASSUME NEW lines, NEW new, NEW t, Stands(lines, t),
           RecordLines(new) = RecordLines(lines),
           \A i \in RecordLines(lines) : new[i].id = lines[i].id
    PROVE  Stands(new, t)
BY DEF Stands, RecordIndexOf

LEMMA StandsGrown ==
    ASSUME NEW lines \in Seq(Line), NEW line, NEW new, NEW t,
           Stands(lines, t), GrownBy(lines, line, new)
    PROVE  Stands(new, t)
<1>1. PICK i \in RecordLines(lines) : RecordIndexOf(lines, i) = t.index /\ lines[i].id = t.id
  BY DEF Stands
<1>2. i \in 1 .. Len(lines) /\ Len(lines) \in Nat
  BY DEF RecordLines
<1>3. {k \in RecordLines(new) : k < i} = {k \in RecordLines(lines) : k < i}
  <2>1. \A k \in RecordLines(new) : k \in RecordLines(lines) \/ k = Len(lines) + 1
    BY DEF GrownBy
  <2>2. i < Len(lines) + 1 /\ ~(Len(lines) + 1 < i)
    BY <1>2
  <2>3. RecordLines(lines) \subseteq RecordLines(new)
    BY DEF GrownBy
  <2> QED
    BY <2>1, <2>2, <2>3
<1>4. RecordIndexOf(new, i) = RecordIndexOf(lines, i)
  BY <1>3 DEF RecordIndexOf
<1> QED
  BY <1>1, <1>4 DEF Stands, GrownBy

(* A sweep that drops nothing writes back what it read: the first place at  *)
(* which its list were not the identity would have no one to list it.       *)
LEMMA NothingDropped ==
    ASSUME NEW lines \in Seq(Line), NEW n \in Nat, NEW f \in [1 .. n -> 1 .. Len(lines)],
           ListsRest(f, lines, {})
    PROVE  LinesAt(lines, f) = lines
<1> DEFINE L == Len(lines)
           Off == {i \in 1 .. n : f[i] # i}
<1>1. /\ L \in Nat /\ DOMAIN lines = 1 .. L /\ DOMAIN f = 1 .. n
      /\ \A i \in 1 .. n : f[i] \in 1 .. L
  OBVIOUS
<1>2. \A i, j \in 1 .. n : i < j => f[i] < f[j]
  BY <1>1 DEF ListsRest
<1>3. \A k \in 1 .. L : \E i \in 1 .. n : f[i] = k
  <2> SUFFICES ASSUME NEW k \in 1 .. L PROVE \E i \in 1 .. n : f[i] = k
    OBVIOUS
  <2>1. {f[i] : i \in 1 .. n} = 1 .. L
    BY <1>1 DEF ListsRest
  <2> QED
    BY <2>1
<1>4. Off = {}
  <2> SUFFICES ASSUME Off # {} PROVE FALSE
    OBVIOUS
  <2>1. Off \subseteq Nat
    OBVIOUS
  <2>2. \E m \in Off : \A k \in Off : ~(<<k, m>> \in OpToRel(<, Nat))
    <3> HIDE DEF Off
    <3> QED
      BY <2>1, NatLessThanWellFounded, WFMin
  <2>3. PICK m \in Off : \A k \in Off : ~(k < m)
    <3> HIDE DEF Off
    <3> QED
      BY <2>1, <2>2 DEF OpToRel
  <2>4. m \in 1 .. n /\ f[m] # m /\ f[m] \in 1 .. L
    BY <1>1, <2>3
  <2>5. ASSUME NEW k \in 1 .. n, k < m PROVE f[k] = k
    BY <2>3, <2>5
  <2>6. m < f[m]
    <3> SUFFICES ASSUME f[m] < m PROVE FALSE
      BY <2>4
    <3>1. f[m] \in 1 .. n
      BY <2>4
    <3>2. f[f[m]] = f[m]
      BY <3>1, <2>5
    <3>3. f[f[m]] < f[m]
      BY <3>1, <2>4, <1>2
    <3> QED
      BY <3>2, <3>3, <2>4
  <2>7. PICK i \in 1 .. n : f[i] = m
    BY <1>3, <2>4, <2>6
  <2>8. CASE i < m
    BY <2>5, <2>7, <2>8, <2>4
  <2>9. CASE i = m
    BY <2>4, <2>7, <2>9
  <2>10. CASE m < i
    <3>1. f[m] < f[i]
      BY <1>2, <2>4, <2>10
    <3> QED
      BY <2>4, <2>6, <2>7, <3>1
  <2> QED
    BY <2>4, <2>7, <2>8, <2>9, <2>10
<1>5. \A i \in 1 .. n : f[i] = i
  BY <1>4
<1>6. 1 .. n = 1 .. L
  <2>1. ASSUME NEW i \in 1 .. n PROVE i \in 1 .. L
    BY <1>1, <1>5
  <2>2. ASSUME NEW k \in 1 .. L PROVE k \in 1 .. n
    <3>1. PICK i \in 1 .. n : f[i] = k
      BY <1>3
    <3> QED
      BY <1>5, <3>1
  <2> QED
    BY <2>1, <2>2, Zenon
<1>7. LinesAt(lines, f) = [i \in 1 .. L |-> lines[i]]
  <2>1. \A i \in 1 .. n : lines[f[i]] = lines[i]
    BY <1>5
  <2>2. LinesAt(lines, f) = [i \in 1 .. n |-> lines[i]]
    BY <1>1, <2>1, Zenon DEF LinesAt
  <2> QED
    BY <1>6, <2>2, Zenon
<1>8. lines = [i \in 1 .. L |-> lines[i]]
  OBVIOUS
<1> QED
  BY <1>7, <1>8

(* Whoever finds every record where it was picked does not refuse. *)
LEMMA NoRefusal ==
    ASSUME IInv, NEW e \in Editors, buf[e] = file, \A t \in target[e] : Stands(file, t)
    PROVE  ~Mismatched(e) /\ ~Missing(e)
<1>1. file \in Seq(Line)
  BY DEF IInv, TypeOK
<1>2. ~Missing(e)
  BY DEF Missing, IsAt, Stands
<1>3. ASSUME NEW i \in RecordLines(file), NEW t \in target[e],
             RecordIndexOf(file, i) = t.index
      PROVE  file[i].id = t.id
  <2>1. PICK j \in RecordLines(file) : RecordIndexOf(file, j) = t.index /\ file[j].id = t.id
    BY DEF Stands
  <2>2. i = j
    BY <1>1, <1>3, <2>1, IndexIsOne
  <2> QED
    BY <2>1, <2>2
<1> QED
  BY <1>2, <1>3 DEF Mismatched, IsAt


(* What EditBegin notes stands; what it leaves alone stood before. *)
LEMMA BeginAims ==
    ASSUME IInv, Aimed, NEW p \in Editors, EditBegin(p)
    PROVE  Aimed'
<1>1. PICK T \in SUBSET RecordLines(file) :
          target' = [target EXCEPT ![p] =
                 {[index |-> RecordIndexOf(file, i), id |-> file[i].id] : i \in T}]
  BY DEF EditBegin
<1>2. \A t \in target'[p] : Stands(file, t)
  BY <1>1 DEF IInv, TypeOK, Stands
<1>3. \A e \in Editors \ {p} :
         target'[e] = target[e] /\ pc'[e] = pc[e] /\ shifted'[e] = shifted[e]
  BY <1>1, ProcFacts DEF EditBegin, IInv, TypeOK, Rewriters
<1>4. file' = file
  BY DEF EditBegin, fileVars
<1> QED
  BY <1>2, <1>3, <1>4 DEF Aimed

(* An operation that ends leaves the aims of the others, if the records they *)
(* are at still are where they were.                                         *)
LEMMA QuitAims ==
    ASSUME IInv, Aimed, NEW p \in Procs, Quit(p), UNCHANGED <<target, shifted>>,
           \A t : Stands(file, t) => Stands(file', t)
    PROVE  Aimed'
<1>1. ASSUME NEW e \in Editors, pc'[e] # "idle"
      PROVE  pc[e] # "idle"
  BY <1>1, QuitFacts, ProcFacts DEF Rewriters
<1> QED
  BY <1>1 DEF Aimed

LEMMA AppendAims ==
    ASSUME IInv, Aimed, NEW a \in Appenders, AppendLine(a) \/ AppendTorn(a)
    PROVE  Aimed'
<1>1. ASSUME NEW line \in Line, file' = Append(file, line), NEW t, Stands(file, t)
      PROVE  Stands(file', t)
  <2>1. file \in Seq(Line)
    BY DEF IInv, TypeOK
  <2>2. GrownBy(file, line, file')
    <3>1. GrownBy(file, line, Append(file, line))
      BY <2>1, AppendMap
    <3> QED
      BY <1>1, <3>1
  <2> QED
    BY <1>1, <2>1, <2>2, StandsGrown
<1>2. file' = file \/ \E line \in Line : file' = Append(file, line)
  <2>1. Junk \in Line /\ \A id \in Ids : NewRecord(id) \in Line
    BY DEF Line, NewRecord, Log!Record, Log!Status
  <2> QED
    BY <2>1 DEF AppendLine, AppendTorn, fileVars
<1>3. \A t : Stands(file, t) => Stands(file', t)
  BY <1>1, <1>2
<1>4. Quit(a) /\ UNCHANGED <<target, shifted>> /\ a \in Procs
  BY ProcFacts DEF AppendLine, AppendTorn, editVars
<1> QED
  BY <1>3, <1>4, QuitAims

LEMMA EditAims ==
    ASSUME IInv, Aimed, RefusalIsJustified, NEW e \in Editors, EditWrite(e)
    PROVE  Aimed' /\ RefusalIsJustified'
<1>0. /\ file \in Seq(Line) /\ status[e] \in {"applied", "skipped"} /\ buf[e] = file
      /\ e \in Procs /\ pc[e] = "read" /\ Quit(e) /\ UNCHANGED <<target, shifted>>
  BY ProcFacts DEF IInv, TypeOK, BufOK, EditWrite
<1>1. ASSUME NEW t, Stands(file, t) PROVE Stands(file', t)
  <2>1. CASE file' = file
    BY <1>1, <2>1
  <2>2. CASE file' = SetStatusAt(buf[e], Edited(e), status[e])
    <3>1. PICK E : E = Edited(e)
      OBVIOUS
    <3>2. E \in SUBSET RecordLines(file)
      BY <1>0, <3>1 DEF Edited
    <3>3. /\ RecordLines(SetStatusAt(file, E, status[e])) = RecordLines(file)
          /\ \A i \in RecordLines(file) : SetStatusAt(file, E, status[e])[i].id = file[i].id
      BY <1>0, <3>2, StatusMap
    <3>4. Stands(SetStatusAt(file, E, status[e]), t)
      BY <1>1, <3>3, StandsMapped
    <3> QED
      BY <1>0, <2>2, <3>1, <3>4
  <2> QED
    BY <2>1, <2>2 DEF EditWrite, Replace, fileVars
<1>2. Aimed'
  BY <1>0, <1>1, QuitAims
<1>3. ASSUME refused'[e] # "no" PROVE shifted[e]
  <2> SUFFICES ASSUME ~shifted[e] PROVE FALSE
    OBVIOUS
  <2>1. \A t \in target[e] : Stands(file, t)
    BY <1>0 DEF Aimed
  <2>2. ~Mismatched(e) /\ ~Missing(e)
    BY <1>0, <2>1, NoRefusal
  <2>3. refused' = refused
    BY <2>2 DEF EditWrite
  <2> QED
    BY <1>3, <2>3 DEF RefusalIsJustified
<1>4. \A d \in Editors \ {e} : refused'[d] = refused[d]
  BY DEF EditWrite, IInv, TypeOK
<1> QED
  BY <1>0, <1>2, <1>3, <1>4 DEF RefusalIsJustified

LEMMA InvalidateAims ==
    ASSUME IInv, Aimed, NEW v \in Invalidators, InvalidateWrite(v)
    PROVE  Aimed'
<1>0. /\ file \in Seq(Line) /\ buf[v] = file
      /\ v \in Procs /\ Quit(v) /\ UNCHANGED <<target, shifted>>
  BY ProcFacts DEF IInv, TypeOK, BufOK, InvalidateWrite, editVars
<1>1. ASSUME NEW t, Stands(file, t) PROVE Stands(file', t)
  <2>1. CASE file' = file
    BY <1>1, <2>1
  <2>2. ASSUME NEW found \in SUBSET RecordLines(file), file' = InvalidateAt(file, found)
        PROVE  Stands(file', t)
    <3>1. /\ RecordLines(InvalidateAt(file, found)) = RecordLines(file)
          /\ \A i \in RecordLines(file) : InvalidateAt(file, found)[i].id = file[i].id
      BY <1>0, InvalidMap
    <3>2. Stands(InvalidateAt(file, found), t)
      BY <1>1, <3>1, StandsMapped
    <3> QED
      BY <2>2, <3>2
  <2> QED
    BY <1>0, <2>1, <2>2 DEF InvalidateWrite, Replace, fileVars
<1> QED
  BY <1>0, <1>1, QuitAims

LEMMA SweepAims ==
    ASSUME IInv, Aimed, RefusalIsJustified, NEW s \in Sweepers, SweepWrite(s)
    PROVE  Aimed' /\ RefusalIsJustified'
<1>0. /\ file \in Seq(Line) /\ buf[s] = file
      /\ s \in Procs /\ Quit(s) /\ UNCHANGED <<target, refused>>
  BY ProcFacts DEF IInv, TypeOK, BufOK, SweepWrite, editVars
<1>a. PICK aged \in SUBSET {i \in DOMAIN buf[s] : Droppable(buf[s][i])},
           n \in 0 .. Len(buf[s]) :
           /\ \E f \in [1 .. n -> DOMAIN buf[s]] :
                 /\ ListsRest(f, buf[s], aged)
                 /\ Replace(LinesAt(buf[s], f))
           /\ shifted' = [e \in Editors |-> shifted[e] \/ (aged # {} /\ pc[e] # "idle")]
  BY Zenon DEF SweepWrite
<1>b. PICK f \in [1 .. n -> DOMAIN buf[s]] :
           /\ ListsRest(f, buf[s], aged)
           /\ Replace(LinesAt(buf[s], f))
  BY <1>a
<1>1. \A e \in Editors :
         /\ shifted[e] => shifted'[e]
         /\ aged # {} /\ pc[e] # "idle" => shifted'[e]
  BY <1>a, Zenon
<1>2. RefusalIsJustified'
  BY <1>0, <1>1 DEF RefusalIsJustified
<1>3. \A e \in Editors : pc'[e] # "idle" => pc[e] # "idle"
  BY <1>0, QuitFacts, ProcFacts DEF Rewriters
<1>4. CASE aged # {}
  <2>1. \A e \in Editors : pc'[e] # "idle" => shifted'[e]
    BY <1>1, <1>3, <1>4
  <2> QED
    BY <1>2, <2>1, Zenon DEF Aimed
<1>5. CASE aged = {}
  <2>1. n \in Nat /\ f \in [1 .. n -> 1 .. Len(file)] /\ ListsRest(f, file, {})
    BY <1>0, <1>5, <1>a, <1>b
  <2>2. LinesAt(file, f) = file
    BY <1>0, <2>1, NothingDropped
  <2>3. file' = file
    BY <1>0, <1>b, <2>2 DEF Replace
  <2>4. target' = target
    BY <1>0
  <2>5. Aimed'
    <3> SUFFICES ASSUME NEW e \in Editors, pc'[e] # "idle", ~shifted'[e],
                        NEW t \in target'[e]
                 PROVE  Stands(file', t)
      BY DEF Aimed
    <3>1. pc[e] # "idle" /\ ~shifted[e]
      BY <1>1, <1>3, Zenon
    <3> QED
      BY <2>3, <2>4, <3>1, Zenon DEF Aimed
  <2> QED
    BY <1>2, <2>5
<1> QED
  BY <1>4, <1>5

(***************************************************************************)
(* update_reflect_status refuses only if prune has dropped records since   *)
(* its caller's read: neither appends nor torn lines disturb an index.     *)
(***************************************************************************)
THEOREM RefusalsAreJustified == Spec => []RefusalIsJustified
<1>1. Init => Aimed /\ RefusalIsJustified
  BY ProcFacts DEF Init, Aimed, RefusalIsJustified, Procs, Rewriters
<1>2. IInv /\ Aimed /\ RefusalIsJustified /\ [Next]_vars => (Aimed /\ RefusalIsJustified)'
  <2> SUFFICES ASSUME IInv, Aimed, RefusalIsJustified, [Next]_vars
               PROVE  Aimed' /\ RefusalIsJustified'
    OBVIOUS
  <2>1. ASSUME NEW p \in Procs, Acquire(p) PROVE Aimed' /\ RefusalIsJustified'
    <3>1. \A e \in Editors : pc'[e] # "idle" => pc[e] # "idle"
      BY <2>1, ProcFacts DEF Acquire, IInv, TypeOK, Rewriters
    <3> QED
      BY <2>1, <3>1 DEF Acquire, fileVars, editVars, Aimed, RefusalIsJustified
  <2>2. ASSUME NEW p \in Procs, Die(p) PROVE Aimed' /\ RefusalIsJustified'
    <3>1. Quit(p) /\ UNCHANGED <<file, target, refused, shifted>>
      BY <2>2 DEF Die, fileVars, editVars
    <3>2. Aimed'
      BY <3>1, QuitAims
    <3> QED
      BY <3>1, <3>2 DEF RefusalIsJustified
  <2>3. ASSUME NEW p \in Procs, AppendLine(p) \/ AppendTorn(p)
        PROVE  Aimed' /\ RefusalIsJustified'
    <3>1. p \in Appenders /\ UNCHANGED <<refused, shifted>>
      BY <2>3 DEF AppendLine, AppendTorn, editVars
    <3> QED
      BY <2>3, <3>1, AppendAims DEF RefusalIsJustified
  <2>4. ASSUME NEW p \in Procs, ReadAll(p) PROVE Aimed' /\ RefusalIsJustified'
    <3>1. \A e \in Editors : pc'[e] # "idle" => pc[e] # "idle"
      BY <2>4, ProcFacts DEF ReadAll, IInv, TypeOK, Rewriters
    <3> QED
      BY <2>4, <3>1 DEF ReadAll, fileVars, editVars, Aimed, RefusalIsJustified
  <2>5. ASSUME NEW p \in Procs, EditBegin(p) PROVE Aimed' /\ RefusalIsJustified'
    <3>1. p \in Editors
      BY <2>5 DEF EditBegin
    <3>2. /\ refused'[p] = "no"
          /\ \A e \in Editors \ {p} : refused'[e] = refused[e] /\ shifted'[e] = shifted[e]
      BY <2>5, <3>1 DEF EditBegin, IInv, TypeOK
    <3> QED
      BY <2>5, <3>1, <3>2, BeginAims DEF RefusalIsJustified
  <2>6. ASSUME NEW p \in Procs, EditWrite(p) PROVE Aimed' /\ RefusalIsJustified'
    BY <2>6, EditAims DEF EditWrite
  <2>7. ASSUME NEW p \in Procs, SweepWrite(p) PROVE Aimed' /\ RefusalIsJustified'
    BY <2>7, SweepAims DEF SweepWrite
  <2>8. ASSUME NEW p \in Procs, InvalidateWrite(p) PROVE Aimed' /\ RefusalIsJustified'
    <3>1. p \in Invalidators /\ UNCHANGED <<refused, shifted>>
      BY <2>8 DEF InvalidateWrite, editVars
    <3> QED
      BY <2>8, <3>1, InvalidateAims DEF RefusalIsJustified
  <2>9. CASE UNCHANGED vars
    BY <2>9 DEF vars, Aimed, RefusalIsJustified
  <2> QED
    BY <2>1, <2>2, <2>3, <2>4, <2>5, <2>6, <2>7, <2>8, <2>9 DEF Next, ProcStep
<1> QED
  BY <1>1, <1>2, InitIInv, StepIInv, PTL DEF Spec

(***************************************************************************)
(* corrections.jsonl implements the log: no append and no edit is lost.    *)
(***************************************************************************)
THEOREM Refinement == Spec => ImplementsLog
<1>1. Init => Log!LogInit
  BY DEF Init, Log!LogInit, RecordsIn, RecordLines
<1>2. IInv /\ [Next]_vars => [Log!LogNext]_(RecordsIn(file))
  <2> SUFFICES ASSUME IInv, [Next]_vars
               PROVE  Log!LogNext \/ RecordsIn(file)' = RecordsIn(file)
    OBVIOUS
  <2>1. CASE file' = file
    BY <2>1
  <2>2. ASSUME NEW p \in Procs,
               \/ AppendLine(p) \/ AppendTorn(p) \/ EditWrite(p)
               \/ SweepWrite(p) \/ InvalidateWrite(p)
        PROVE  Log!LogNext \/ RecordsIn(file)' = RecordsIn(file)
    <3>1. CASE AppendLine(p) \/ AppendTorn(p)
      BY <3>1, AppendFacts DEF AppendLine, AppendTorn, Log!LogNext
    <3>2. CASE EditWrite(p)
      <4>1. p \in Editors /\ status[p] \in {"applied", "skipped"}
        BY <3>2 DEF EditWrite, IInv, TypeOK
      <4> DEFINE S == {t.id : t \in target[p]}
      <4>2. CASE /\ S \subseteq IdsIn(file)
                 /\ RecordsIn(file)' = Log!WithStatus(RecordsIn(file), S, status[p])
        <5>1. S \in SUBSET Ids
          BY <4>1 DEF IInv, TypeOK, Target
        <5> QED
          BY <4>1, <4>2, <5>1 DEF Log!LogNext, Log!LogSetStatus, IdsIn
      <4> QED
        BY <3>2, <4>1, <4>2, EditFacts
    <3>3. CASE SweepWrite(p)
      BY <3>3, SweepFacts DEF SweepWrite, Log!LogNext
    <3>4. CASE InvalidateWrite(p)
      BY <3>4, InvalidateFacts DEF InvalidateWrite, Log!LogNext
    <3> QED
      BY <2>2, <3>1, <3>2, <3>3, <3>4
  <2> QED
    BY <2>1, <2>2 DEF Next, ProcStep, Acquire, Die, ReadAll, EditBegin, fileVars, vars
<1> QED
  BY <1>1, <1>2, InitIInv, StepIInv, PTL DEF Spec, ImplementsLog, Log!LogSpec
=============================================================================
