------------------------- MODULE SessionStoreProofs -------------------------
(***************************************************************************)
(* What SessionStore promises, for any number of records, processes,       *)
(* batches and deaths.                                                     *)
(*                                                                         *)
(* The argument: a record is safe when it has a row, raced or was deleted. *)
(* Safe records stay safe, because a copy of the database that may still   *)
(* be put in place lacks only rows that raced.  A process that will rename *)
(* or rewrite the file knows every line of it that is not safe, lines that *)
(* a deletion is still writing included: it has read the file, and lines   *)
(* that it missed or that came later raced.  Rows are counted by           *)
(* whoever has the database open, and that process knows every row.        *)
(***************************************************************************)
EXTENDS SessionStore, TLAPS

Safe == Rows \cup raced \cup deleted

FreshRows == {r \in Records : fresh[r] > 0}

LEMMA PlanFacts ==
    /\ NoPlan \in Plans
    /\ \A b, d \in BOOLEAN : [rotate |-> b, compact |-> d] \in Plans
    /\ \A b \in BOOLEAN, x \in Plans : /\ [x EXCEPT !.compact = b] \in Plans
                                       /\ [x EXCEPT !.compact = b].rotate = x.rotate
<1>1. NoPlan \in Plans
  BY DEF NoPlan, Plans
<1>2. ASSUME NEW b \in BOOLEAN, NEW d \in BOOLEAN PROVE [rotate |-> b, compact |-> d] \in Plans
  BY DEF Plans
<1>3. ASSUME NEW b \in BOOLEAN, NEW x \in Plans
      PROVE  /\ [x EXCEPT !.compact = b] \in Plans
             /\ [x EXCEPT !.compact = b].rotate = x.rotate
  BY DEF Plans
<1> QED
  BY <1>1, <1>2, <1>3

LEMMA NoRowsFact == NoRows \in [Records -> Nat] /\ \A r \in Records : NoRows[r] = 0
BY DEF NoRows

------------------------------------------------------------------------------
(* Type correctness. *)

FilesOK ==
    /\ live \subseteq Records
    /\ torn \in BOOLEAN
    /\ table \in [Records -> Nat]
    /\ copied \in BOOLEAN
    /\ fresh \in [Records -> Nat]
    /\ conn \in Writers \cup {Nobody}
    /\ detached \subseteq Writers
    /\ seen \in [Readers -> SUBSET Records]
    /\ floor \in [Readers -> SUBSET Records]
    /\ batches \in 0 .. MaxBatches
    /\ crashes \in 0 .. MaxCrashes
    /\ appended \subseteq Records
    /\ deleted \subseteq Records
    /\ raced \subseteq Records
    /\ disturbed \subseteq Readers

LocalsOK ==
    /\ pc \in [Writers \cup Readers -> WriterLabels \cup ReaderLabels]
    /\ batch \in [Writers -> SUBSET Records]
    /\ keys \in [Writers -> SUBSET Records]
    /\ plan \in [Writers -> Plans]

LEMMA TypeParts ==
    /\ TypeOK <=> LocalsOK /\ FilesOK
    /\ TypeOK' <=> LocalsOK' /\ FilesOK'
BY Zenon DEF TypeOK, LocalsOK, FilesOK

LEMMA ForgetKeeps ==
    ASSUME TypeOK, NEW p \in Writers, Forget(p)
    PROVE  /\ LocalsOK'
           /\ pc' = [pc EXCEPT ![p] = "idle"]
           /\ pc'[p] = "idle"
           /\ \A q \in (Writers \cup Readers) \ {p} : pc'[q] = pc[q]
           /\ \A q \in Writers \ {p} :
                 batch'[q] = batch[q] /\ keys'[q] = keys[q] /\ plan'[q] = plan[q]
<1>1. NoPlan \in Plans
  BY PlanFacts
<1>2. LocalsOK'
  BY <1>1 DEF TypeOK, LocalsOK, Forget, Goto, WriterLabels
<1> QED
  BY <1>2 DEF TypeOK, Forget, Goto

LEMMA GotoKeeps ==
    ASSUME TypeOK, NEW p \in Writers \cup Readers, NEW label \in WriterLabels \cup ReaderLabels,
           Goto(p, label)
    PROVE  /\ pc' \in [Writers \cup Readers -> WriterLabels \cup ReaderLabels]
           /\ pc'[p] = label
           /\ \A q \in (Writers \cup Readers) \ {p} : pc'[q] = pc[q]
BY DEF TypeOK, Goto

LEMMA CountersStay ==
    ASSUME TypeOK
    PROVE  /\ Start => batches' \in 0 .. MaxBatches /\ crashes' \in 0 .. MaxCrashes
           /\ crashes < MaxCrashes /\ crashes' = crashes + 1 => crashes' \in 0 .. MaxCrashes
BY BoundsAssumption DEF TypeOK, Start

LEMMA DisconnectKeeps ==
    ASSUME TypeOK, NEW p \in Writers, Disconnect(p)
    PROVE  conn' \in Writers \cup {Nobody} /\ detached' \subseteq Writers
BY DEF TypeOK, Disconnect

LEMMA TypeInit == Init => TypeOK
<1> SUFFICES ASSUME Init PROVE TypeOK
  OBVIOUS
<1>1. LocalsOK
  BY PlanFacts DEF Init, LocalsOK, WriterLabels
<1>2. FilesOK
  <2>1. table \in [Records -> Nat] /\ fresh \in [Records -> Nat]
    BY NoRowsFact DEF Init
  <2>2. copied \in BOOLEAN /\ torn \in BOOLEAN
    BY DEF Init
  <2>3. batches \in 0 .. MaxBatches /\ crashes \in 0 .. MaxCrashes
    BY BoundsAssumption DEF Init
  <2> QED
    BY <2>1, <2>2, <2>3 DEF Init, FilesOK
<1> QED
  BY <1>1, <1>2, TypeParts

LEMMA TypeStep == TypeOK /\ [Next]_vars => TypeOK'
<1> SUFFICES ASSUME TypeOK, [Next]_vars PROVE TypeOK'
  OBVIOUS
<1> USE DEF fileVars, writerVars, readerVars, boundVars
<1>0. LocalsOK /\ FilesOK
  BY TypeParts
<1>i. ASSUME NEW p \in Ingesters PROVE p \in Writers /\ p \in Writers \cup Readers
  BY DEF Writers
<1>d. ASSUME NEW p \in Deleters PROVE p \in Writers /\ p \in Writers \cup Readers
  BY DEF Writers
<1>b. BeingWritten \subseteq Records
  BY <1>0 DEF LocalsOK, BeingWritten, Writing, Writers
<1>1. ASSUME NEW r \in Records, Append(r) PROVE TypeOK'
  <2>1. LocalsOK'
    BY <1>0, <1>1 DEF LocalsOK, Append
  <2>2. raced' \subseteq Records /\ live' \subseteq Records
    BY <1>0, <1>1 DEF FilesOK, Append
  <2> QED
    BY <1>0, <1>1, <2>1, <2>2, TypeParts DEF FilesOK, Append
<1>2. ASSUME NEW p \in Ingesters, NEW b \in BOOLEAN, Connect(p, b) PROVE TypeOK'
  <2>1. [rotate |-> b, compact |-> FALSE] \in Plans
    BY PlanFacts
  <2>2. plan' \in [Writers -> Plans]
    BY <1>0, <1>2, <2>1 DEF LocalsOK, Connect
  <2>3. keys' \in [Writers -> SUBSET Records] /\ batch' = batch
    BY <1>0, <1>2 DEF LocalsOK, Connect, Rows
  <2>4. LocalsOK'
    BY <1>0, <1>2, <1>i, <2>2, <2>3, GotoKeeps DEF LocalsOK, Connect, WriterLabels
  <2> QED
    BY <1>0, <1>2, <1>i, <2>4, CountersStay, TypeParts DEF FilesOK, Connect
<1>3. ASSUME NEW p \in Ingesters, NEW b \in BOOLEAN, CloseDb(p, b) PROVE TypeOK'
  <2>1. LocalsOK'
    <3>1. CASE plan[p].rotate
      <4>1. /\ plan' = [plan EXCEPT ![p] = [plan[p] EXCEPT !.compact = b]]
            /\ keys' = [keys EXCEPT ![p] = {}] /\ Goto(p, "rotate") /\ batch' = batch
        BY <1>0, <1>3, <1>i, <3>1 DEF CloseDb, LocalsOK
      <4>2. [plan[p] EXCEPT !.compact = b] \in Plans
        BY <1>0, <1>i, PlanFacts DEF LocalsOK
      <4>3. plan' \in [Writers -> Plans]
        BY <1>0, <4>1, <4>2 DEF LocalsOK
      <4> QED
        BY <1>0, <1>i, <4>1, <4>3, GotoKeeps DEF LocalsOK, WriterLabels
    <3>2. CASE ~plan[p].rotate
      BY <1>3, <1>i, <3>2, ForgetKeeps DEF CloseDb
    <3> QED
      BY <3>1, <3>2
  <2> QED
    BY <1>0, <1>3, <1>i, <2>1, DisconnectKeeps, TypeParts DEF FilesOK, CloseDb
<1>4. ASSUME NEW p \in Ingesters, ReadLines(p) PROVE TypeOK'
  <2>1. LocalsOK'
    BY <1>0, <1>4, <1>i, GotoKeeps DEF LocalsOK, FilesOK, ReadLines, WriterLabels
  <2>2. raced' \subseteq Records
    BY <1>0, <1>4, <1>b DEF FilesOK, ReadLines
  <2> QED
    BY <1>0, <1>4, <2>1, <2>2, TypeParts DEF FilesOK, ReadLines
<1>5. ASSUME NEW p \in Ingesters, NEW r \in Records, InsertRow(p, r) PROVE TypeOK'
  <2>1. LocalsOK'
    BY <1>0, <1>5, <1>i DEF LocalsOK, InsertRow
  <2>2. table' \in [Records -> Nat] /\ raced' \subseteq Records
    BY <1>0, <1>5 DEF FilesOK, InsertRow
  <2> QED
    BY <1>0, <1>5, <2>1, <2>2, TypeParts DEF FilesOK, InsertRow
<1>6. ASSUME NEW p \in Ingesters, IngestFails(p) PROVE TypeOK'
  <2>1. LocalsOK'
    BY <1>6, <1>i, ForgetKeeps DEF IngestFails
  <2> QED
    BY <1>0, <1>6, <1>i, <2>1, DisconnectKeeps, TypeParts DEF FilesOK, IngestFails
<1>7. ASSUME NEW p \in Ingesters, Rotate(p) PROVE TypeOK'
  <2>1. LocalsOK'
    <3>1. pc' \in [Writers \cup Readers -> WriterLabels \cup ReaderLabels]
      BY <1>0, <1>7 DEF LocalsOK, Rotate, WriterLabels
    <3>2. plan' \in [Writers -> Plans]
      BY <1>0, <1>7, PlanFacts DEF LocalsOK, Rotate
    <3> QED
      BY <1>0, <1>7, <3>1, <3>2 DEF LocalsOK, Rotate
  <2>2. disturbed' \subseteq Readers
    BY <1>0, <1>7 DEF Rotate, FilesOK, Halfway
  <2> QED
    BY <1>0, <1>7, <2>1, <2>2, TypeParts DEF FilesOK, Rotate
<1>8. ASSUME NEW p \in Ingesters, Copy(p) PROVE TypeOK'
  <2>1. LocalsOK'
    BY <1>0, <1>8, <1>i, GotoKeeps DEF LocalsOK, Copy, WriterLabels
  <2> QED
    BY <1>0, <1>8, <2>1, TypeParts DEF FilesOK, Copy
<1>9. ASSUME NEW p \in Ingesters, CopyFails(p) PROVE TypeOK'
  <2>1. LocalsOK'
    BY <1>9, <1>i, ForgetKeeps DEF CopyFails
  <2> QED
    BY <1>0, <1>9, <2>1, NoRowsFact, TypeParts DEF FilesOK, CopyFails
<1>10. ASSUME NEW p \in Ingesters, Replace(p) PROVE TypeOK'
  <2>1. LocalsOK'
    BY <1>10, <1>i, ForgetKeeps DEF Replace
  <2>2. CASE copied
    <3>1. /\ table' \in [Records -> Nat] /\ fresh' \in [Records -> Nat] /\ copied' \in BOOLEAN
          /\ conn' \in Writers \cup {Nobody}
      BY <1>0, <1>10, <2>2, NoRowsFact DEF FilesOK, Replace
    <3>2. detached' \subseteq Writers /\ disturbed' \subseteq Readers
      BY <1>0, <1>10, <2>2 DEF FilesOK, Replace, Halfway
    <3> QED
      BY <1>0, <1>10, <2>1, <3>1, <3>2, TypeParts DEF FilesOK, Replace
  <2>3. CASE ~copied
    BY <1>0, <1>10, <2>1, <2>3, TypeParts DEF FilesOK, Replace
  <2> QED
    BY <2>2, <2>3
<1>11. ASSUME NEW p \in Deleters, NEW r \in Records, DeleteRows(p, r) PROVE TypeOK'
  <2>1. LocalsOK'
    BY <1>0, <1>11, <1>d, GotoKeeps DEF LocalsOK, DeleteRows, WriterLabels
  <2>2. table' \in [Records -> Nat] /\ deleted' \subseteq Records
    BY <1>0, <1>11 DEF FilesOK, DeleteRows
  <2> QED
    BY <1>0, <1>11, <2>1, <2>2, CountersStay, TypeParts DEF FilesOK, DeleteRows
<1>12. ASSUME NEW p \in Deleters, FilterLines(p) PROVE TypeOK'
  <2>1. LocalsOK'
    BY <1>0, <1>12, <1>d, GotoKeeps DEF LocalsOK, FilesOK, FilterLines, WriterLabels
  <2>2. raced' \subseteq Records
    BY <1>0, <1>12, <1>b DEF FilesOK, FilterLines
  <2> QED
    BY <1>0, <1>12, <2>1, <2>2, TypeParts DEF FilesOK, FilterLines
<1>17. ASSUME NEW p \in Deleters, TruncateLines(p) PROVE TypeOK'
  <2>1. pc' \in [Writers \cup Readers -> WriterLabels \cup ReaderLabels]
    BY <1>0, <1>17 DEF LocalsOK, TruncateLines, WriterLabels
  <2>2. LocalsOK'
    BY <1>0, <1>17, <2>1 DEF LocalsOK, TruncateLines
  <2>3. batch[p] \subseteq Records
    BY <1>0, <1>d DEF LocalsOK
  <2>4. live' \subseteq Records /\ disturbed' \subseteq Readers
    BY <1>0, <1>17, <2>3 DEF TruncateLines, FilesOK, Halfway
  <2> QED
    BY <1>0, <1>17, <2>2, <2>4, TypeParts DEF FilesOK, TruncateLines
<1>13. ASSUME NEW p \in Deleters,
              WriteLines(p) \/ WriteMixed(p) \/ WriteAdrift(p) \/ RewriteTorn(p)
       PROVE  TypeOK'
  <2>1. LocalsOK'
    BY <1>13, <1>d, ForgetKeeps DEF WriteLines, WriteMixed, WriteAdrift, RewriteTorn
  <2>2. batch[p] \subseteq Records
    BY <1>0, <1>d DEF LocalsOK
  <2>3. live' \subseteq Records /\ torn' \in BOOLEAN
    BY <1>0, <1>13, <2>2 DEF WriteLines, WriteMixed, WriteAdrift, RewriteTorn, FilesOK
  <2>4. raced' \subseteq Records /\ disturbed' \subseteq Readers
    BY <1>0, <1>13, <2>2 DEF WriteLines, WriteMixed, WriteAdrift, RewriteTorn, FilesOK, Halfway
  <2>5. crashes' \in 0 .. MaxCrashes
    BY <1>0, <1>13, CountersStay DEF WriteLines, WriteMixed, WriteAdrift, RewriteTorn, FilesOK
  <2> QED
    BY <1>0, <1>13, <2>1, <2>3, <2>4, <2>5, TypeParts
       DEF FilesOK, WriteLines, WriteMixed, WriteAdrift, RewriteTorn
<1>14. ASSUME NEW p \in Writers, Crash(p) PROVE TypeOK'
  <2>1. LocalsOK'
    BY <1>14, ForgetKeeps DEF Crash
  <2> QED
    BY <1>0, <1>14, <2>1, CountersStay, DisconnectKeeps, TypeParts DEF FilesOK, Crash
<1>15. ASSUME NEW c \in Readers, ReaderStep(c) PROVE TypeOK'
  <2>1. LocalsOK'
    BY <1>0, <1>15, GotoKeeps
       DEF LocalsOK, ReaderStep, ReadRows, ReadLive, Answer, ReaderLabels
  <2>2. seen' \in [Readers -> SUBSET Records] /\ floor' \in [Readers -> SUBSET Records]
    BY <1>0, <1>15 DEF FilesOK, ReaderStep, ReadRows, ReadLive, Answer, Union, Rows
  <2>3. disturbed' \subseteq Readers
    BY <1>0, <1>15 DEF FilesOK, ReaderStep, ReadRows, ReadLive, Answer
  <2> QED
    BY <1>0, <1>15, <2>1, <2>2, <2>3, TypeParts
       DEF FilesOK, ReaderStep, ReadRows, ReadLive, Answer
<1>16. CASE UNCHANGED vars
  BY <1>0, <1>16, TypeParts DEF LocalsOK, FilesOK, vars
<1> QED
  BY <1>1, <1>2, <1>3, <1>4, <1>5, <1>6, <1>7, <1>8, <1>9, <1>10, <1>11, <1>12, <1>13,
     <1>14, <1>15, <1>16, <1>17 DEF Next, IngesterStep, DeleterStep

------------------------------------------------------------------------------
(* Who has the database open.  A process in its batch has it open, or has   *)
(* open a file that was replaced; and whoever has it open knows every row.  *)

ConnOK ==
    /\ \A p \in Ingesters :
          /\ pc[p] \in {"read", "insert"} => conn = p \/ p \in detached
          /\ pc[p] \notin {"read", "insert"} => conn # p /\ p \notin detached
          /\ conn = p => Rows \subseteq keys[p]
    /\ \A p \in Deleters : conn # p /\ p \notin detached

AtMostOne ==
    /\ \A r \in Records : table[r] <= 1
    /\ \A r \in Records : fresh[r] <= 1

LEMMA RowsFacts ==
    ASSUME TypeOK
    PROVE  /\ \A r \in Records : r \in Rows <=> table[r] > 0
           /\ \A r \in Records : r \notin Rows => table[r] = 0
BY DEF TypeOK, Rows

LEMMA ConnStep == TypeOK /\ ConnOK /\ [Next]_vars => ConnOK'
<1> SUFFICES ASSUME TypeOK, ConnOK, [Next]_vars PROVE ConnOK'
  OBVIOUS
<1> USE DEF fileVars, writerVars, readerVars, boundVars
<1>i. ASSUME NEW p \in Ingesters PROVE p \in Writers /\ p \notin Deleters /\ p # Nobody
  BY ProcsAssumption DEF Writers
<1>d. ASSUME NEW p \in Deleters PROVE p \in Writers /\ p \notin Ingesters /\ p # Nobody
  BY ProcsAssumption DEF Writers
<1>r. ASSUME NEW c \in Readers PROVE c \notin Writers
  BY ProcsAssumption
(* Nothing happens to the rows, to the database or to an ingester's place.   *)
<1>q. ASSUME UNCHANGED <<conn, detached, keys>>, Rows' \subseteq Rows,
             \A p \in Ingesters : pc'[p] \in {"read", "insert"} <=> pc[p] \in {"read", "insert"}
      PROVE  ConnOK'
  BY <1>q DEF ConnOK
(* A writer leaves, with or without its connection.                          *)
<1>f. ASSUME NEW p \in Writers, Forget(p), Disconnect(p), Rows' \subseteq Rows PROVE ConnOK'
  <2>1. /\ pc'[p] = "idle"
        /\ \A q \in Writers \ {p} : pc'[q] = pc[q] /\ keys'[q] = keys[q]
    BY <1>f, ForgetKeeps
  <2>2. /\ p \notin detached' /\ conn' # p
        /\ \A q \in Writers \ {p} : (conn' = q <=> conn = q) /\ (q \in detached' <=> q \in detached)
    BY <1>f, ProcsAssumption DEF Disconnect
  <2>3. ASSUME NEW q \in Ingesters
        PROVE  /\ pc'[q] \in {"read", "insert"} => conn' = q \/ q \in detached'
               /\ pc'[q] \notin {"read", "insert"} => conn' # q /\ q \notin detached'
               /\ conn' = q => Rows' \subseteq keys'[q]
    BY <1>f, <1>i, <2>1, <2>2 DEF ConnOK
  <2>4. ASSUME NEW q \in Deleters PROVE conn' # q /\ q \notin detached'
    BY <1>d, <2>2 DEF ConnOK
  <2> QED
    BY <2>3, <2>4 DEF ConnOK
<1>g. ASSUME NEW p \in Writers, Forget(p), UNCHANGED <<conn, detached>>, Rows' \subseteq Rows,
             pc[p] \notin {"read", "insert"}
      PROVE  ConnOK'
  <2>1. conn # p /\ p \notin detached
    BY <1>g DEF ConnOK, Writers
  <2>2. Disconnect(p)
    BY <1>g, <2>1 DEF Disconnect
  <2> QED
    BY <1>f, <1>g, <2>2
<1>1. ASSUME NEW r \in Records, Append(r) PROVE ConnOK'
  BY <1>1, <1>q DEF Append, Rows
<1>2. ASSUME NEW p \in Ingesters, NEW b \in BOOLEAN, Connect(p, b) PROVE ConnOK'
  <2>1. /\ conn = Nobody /\ conn' = p /\ detached' = detached /\ Rows' = Rows
        /\ pc[p] = "idle" /\ pc'[p] = "read" /\ keys'[p] = Rows
        /\ \A q \in Ingesters \ {p} : pc'[q] = pc[q] /\ keys'[q] = keys[q]
    BY <1>2, <1>i DEF Connect, Goto, TypeOK, Rows
  <2>2. ASSUME NEW q \in Ingesters
        PROVE  /\ pc'[q] \in {"read", "insert"} => conn' = q \/ q \in detached'
               /\ pc'[q] \notin {"read", "insert"} => conn' # q /\ q \notin detached'
               /\ conn' = q => Rows' \subseteq keys'[q]
    BY <1>i, <2>1 DEF ConnOK
  <2> QED
    BY <1>d, <2>1, <2>2 DEF ConnOK
<1>3. ASSUME NEW p \in Ingesters, NEW b \in BOOLEAN, CloseDb(p, b) PROVE ConnOK'
  <2>1. CASE plan[p].rotate
    <3>1. /\ Disconnect(p) /\ Rows' = Rows /\ pc'[p] = "rotate"
          /\ \A q \in Ingesters \ {p} : pc'[q] = pc[q] /\ keys'[q] = keys[q]
      BY <1>3, <1>i, <2>1 DEF CloseDb, Goto, TypeOK, Rows
    <3>2. /\ p \notin detached' /\ conn' # p
          /\ \A q \in Writers \ {p} :
                (conn' = q <=> conn = q) /\ (q \in detached' <=> q \in detached)
      BY <1>i, <3>1, ProcsAssumption DEF Disconnect
    <3>3. ASSUME NEW q \in Ingesters
          PROVE  /\ pc'[q] \in {"read", "insert"} => conn' = q \/ q \in detached'
                 /\ pc'[q] \notin {"read", "insert"} => conn' # q /\ q \notin detached'
                 /\ conn' = q => Rows' \subseteq keys'[q]
      BY <1>i, <3>1, <3>2 DEF ConnOK
    <3>4. ASSUME NEW q \in Deleters PROVE conn' # q /\ q \notin detached'
      BY <1>d, <3>2, <1>i DEF ConnOK
    <3> QED
      BY <3>3, <3>4 DEF ConnOK
  <2>2. CASE ~plan[p].rotate
    BY <1>3, <1>i, <1>f, <2>2 DEF CloseDb, Rows
  <2> QED
    BY <2>1, <2>2
<1>4. ASSUME NEW p \in Ingesters, ReadLines(p) PROVE ConnOK'
  <2>1. \A q \in Ingesters : pc'[q] \in {"read", "insert"} <=> pc[q] \in {"read", "insert"}
    BY <1>4, <1>i DEF ReadLines, Goto, TypeOK
  <2> QED
    BY <1>4, <1>q, <2>1 DEF ReadLines, Rows
<1>5. ASSUME NEW p \in Ingesters, NEW r \in Records, InsertRow(p, r) PROVE ConnOK'
  <2>1. CASE r \in keys[p]
    BY <1>5, <1>q, <2>1 DEF InsertRow, Rows
  <2>2. CASE r \notin keys[p]
    <3>1. /\ pc' = pc /\ conn' = conn /\ detached' = detached /\ pc[p] = "insert"
          /\ keys'[p] = keys[p] \cup {r} /\ \A q \in Ingesters \ {p} : keys'[q] = keys[q]
      BY <1>5, <1>i, <2>2 DEF InsertRow, TypeOK
    <3>2. Rows' \subseteq Rows \cup {r} /\ (p \in detached => Rows' = Rows)
      BY <1>5, <2>2 DEF InsertRow, TypeOK, Rows
    <3>3. ASSUME NEW q \in Ingesters, conn' = q PROVE Rows' \subseteq keys'[q]
      <4>1. CASE q = p
        BY <3>1, <3>2, <3>3, <4>1 DEF ConnOK
      <4>2. CASE q # p
        BY <3>1, <3>2, <3>3, <4>2 DEF ConnOK
      <4> QED
        BY <4>1, <4>2
    <3> QED
      BY <3>1, <3>3 DEF ConnOK
  <2> QED
    BY <2>1, <2>2
<1>6. ASSUME NEW p \in Ingesters, IngestFails(p) PROVE ConnOK'
  BY <1>6, <1>i, <1>f DEF IngestFails, Rows
<1>7. ASSUME NEW p \in Ingesters, Rotate(p) PROVE ConnOK'
  <2>1. \A q \in Ingesters : pc'[q] \in {"read", "insert"} <=> pc[q] \in {"read", "insert"}
    BY <1>7, <1>i DEF Rotate, Writing, TypeOK
  <2> QED
    BY <1>7, <1>q, <2>1 DEF Rotate, Rows
<1>8. ASSUME NEW p \in Ingesters, Copy(p) PROVE ConnOK'
  <2>1. \A q \in Ingesters : pc'[q] \in {"read", "insert"} <=> pc[q] \in {"read", "insert"}
    BY <1>8, <1>i DEF Copy, Goto, TypeOK
  <2> QED
    BY <1>8, <1>q, <2>1 DEF Copy, Rows
<1>9. ASSUME NEW p \in Ingesters, CopyFails(p) PROVE ConnOK'
  BY <1>9, <1>i, <1>g DEF CopyFails, Rows
<1>10. ASSUME NEW p \in Ingesters, Replace(p) PROVE ConnOK'
  <2>1. CASE copied
    <3>1. /\ conn' = Nobody /\ detached' = IF conn = Nobody THEN detached ELSE detached \cup {conn}
          /\ pc[p] = "replace" /\ pc'[p] = "idle"
          /\ \A q \in Writers \ {p} : pc'[q] = pc[q] /\ keys'[q] = keys[q]
      BY <1>10, <1>i, <2>1, ForgetKeeps DEF Replace
    <3>2. ASSUME NEW q \in Ingesters
          PROVE  /\ pc'[q] \in {"read", "insert"} => conn' = q \/ q \in detached'
                 /\ pc'[q] \notin {"read", "insert"} => conn' # q /\ q \notin detached'
                 /\ conn' = q => Rows' \subseteq keys'[q]
      <4>1. CASE q = p
        BY <1>i, <3>1, <4>1 DEF ConnOK
      <4>2. CASE q # p
        BY <1>i, <3>1, <4>2 DEF ConnOK
      <4> QED
        BY <4>1, <4>2
    <3>3. ASSUME NEW q \in Deleters PROVE conn' # q /\ q \notin detached'
      BY <1>d, <3>1 DEF ConnOK
    <3> QED
      BY <3>2, <3>3 DEF ConnOK
  <2>2. CASE ~copied
    BY <1>10, <1>i, <1>g, <2>2 DEF Replace, Rows
  <2> QED
    BY <2>1, <2>2
<1>11. ASSUME NEW p \in Deleters, NEW r \in Records, DeleteRows(p, r) PROVE ConnOK'
  <2>1. \A q \in Ingesters : pc'[q] = pc[q]
    BY <1>11, <1>i, <1>d DEF DeleteRows, Goto, TypeOK
  <2>2. Rows' \subseteq Rows
    BY <1>11 DEF DeleteRows, Rows, TypeOK
  <2> QED
    BY <1>11, <1>q, <2>1, <2>2 DEF DeleteRows
<1>12. ASSUME NEW p \in Deleters, FilterLines(p) PROVE ConnOK'
  <2>1. \A q \in Ingesters : pc'[q] = pc[q]
    BY <1>12, <1>i, <1>d DEF FilterLines, Goto, TypeOK
  <2> QED
    BY <1>12, <1>q, <2>1 DEF FilterLines, Rows
<1>17. ASSUME NEW p \in Deleters, TruncateLines(p) PROVE ConnOK'
  <2>1. \A q \in Ingesters : pc'[q] \in {"read", "insert"} <=> pc[q] \in {"read", "insert"}
    BY <1>17, <1>i, <1>d DEF TruncateLines, Writing, TypeOK
  <2> QED
    BY <1>17, <1>q, <2>1 DEF TruncateLines, Rows
<1>13. ASSUME NEW p \in Deleters,
              WriteLines(p) \/ WriteMixed(p) \/ WriteAdrift(p) \/ RewriteTorn(p)
       PROVE  ConnOK'
  BY <1>13, <1>d, <1>g DEF WriteLines, WriteMixed, WriteAdrift, RewriteTorn, Writing, Rows
<1>14. ASSUME NEW p \in Writers, Crash(p) PROVE ConnOK'
  BY <1>14, <1>f DEF Crash, Rows
<1>15. ASSUME NEW c \in Readers, ReaderStep(c) PROVE ConnOK'
  <2>1. \A q \in Ingesters : pc'[q] = pc[q]
    BY <1>15, <1>i, <1>r DEF ReaderStep, ReadRows, ReadLive, Answer, Goto, TypeOK
  <2> QED
    BY <1>15, <1>q, <2>1 DEF ReaderStep, ReadRows, ReadLive, Answer, Rows
<1>16. CASE UNCHANGED vars
  BY <1>16, <1>q DEF vars, Rows
<1> QED
  BY <1>1, <1>2, <1>3, <1>4, <1>5, <1>6, <1>7, <1>8, <1>9, <1>10, <1>11, <1>12, <1>13,
     <1>14, <1>15, <1>16, <1>17 DEF Next, IngesterStep, DeleterStep

LEMMA OneRowStep == TypeOK /\ ConnOK /\ AtMostOne /\ [Next]_vars => AtMostOne'
<1> SUFFICES ASSUME TypeOK, ConnOK, AtMostOne, [Next]_vars PROVE AtMostOne'
  OBVIOUS
<1> USE DEF fileVars, writerVars, readerVars, boundVars
<1>1. ASSUME NEW p \in Ingesters, NEW r \in Records, InsertRow(p, r) PROVE AtMostOne'
  <2>1. CASE p \in detached \/ r \in keys[p]
    BY <1>1, <2>1 DEF InsertRow, AtMostOne
  <2>2. CASE p \notin detached /\ r \notin keys[p]
    <3>1. table' = [table EXCEPT ![r] = table[r] + 1] /\ fresh' = fresh /\ pc[p] = "insert"
      BY <1>1, <2>2 DEF InsertRow, TypeOK
    <3>2. conn = p /\ Rows \subseteq keys[p]
      BY <2>2, <3>1 DEF ConnOK
    <3>3. table[r] = 0
      BY <2>2, <3>2, RowsFacts
    <3>4. \A s \in Records : table'[s] <= 1
      BY <3>1, <3>3 DEF TypeOK, AtMostOne
    <3> QED
      BY <3>1, <3>4 DEF AtMostOne
  <2> QED
    BY <2>1, <2>2
<1>2. ASSUME NEW p \in Ingesters, Copy(p) \/ CopyFails(p) \/ Replace(p) PROVE AtMostOne'
  BY <1>2, NoRowsFact DEF Copy, CopyFails, Replace, AtMostOne
<1>3. ASSUME NEW p \in Ingesters, NEW b \in BOOLEAN,
             \/ Connect(p, b) \/ CloseDb(p, b) \/ ReadLines(p) \/ IngestFails(p) \/ Rotate(p)
      PROVE  AtMostOne'
  BY <1>3 DEF Connect, CloseDb, ReadLines, IngestFails, Rotate, AtMostOne
<1>4. ASSUME NEW p \in Deleters, NEW r \in Records, DeleteRows(p, r) PROVE AtMostOne'
  BY <1>4 DEF DeleteRows, AtMostOne, TypeOK
<1>5. ASSUME NEW p \in Deleters,
             \/ FilterLines(p) \/ TruncateLines(p) \/ WriteLines(p) \/ WriteMixed(p)
             \/ WriteAdrift(p) \/ RewriteTorn(p)
      PROVE  AtMostOne'
  BY <1>5 DEF FilterLines, TruncateLines, WriteLines, WriteMixed, WriteAdrift, RewriteTorn,
              AtMostOne
<1>6. ASSUME NEW r \in Records, Append(r) PROVE AtMostOne'
  BY <1>6 DEF Append, AtMostOne
<1>7. ASSUME NEW p \in Writers, Crash(p) PROVE AtMostOne'
  BY <1>7 DEF Crash, AtMostOne
<1>8. ASSUME NEW c \in Readers, ReaderStep(c) PROVE AtMostOne'
  BY <1>8 DEF ReaderStep, ReadRows, ReadLive, Answer, AtMostOne
<1>9. CASE UNCHANGED vars
  BY <1>9 DEF vars, AtMostOne
<1> QED
  BY <1>1, <1>2, <1>3, <1>4, <1>5, <1>6, <1>7, <1>8, <1>9 DEF Next, IngesterStep, DeleterStep

------------------------------------------------------------------------------
(* No record is lost.                                                       *)

\* A copy that may still be put in place lacks only rows that are accounted for.
CopyOK ==
    copied /\ (\E q \in Writers : pc[q] = "replace")
        => Rows \subseteq FreshRows \cup raced \cup deleted

\* What a process still has to insert or to write back.
Carry(p) == IF pc[p] = "rotate" THEN {} ELSE batch[p]

\* The lines there are, or will be when every deletion has written.
Lines == live \cup BeingWritten

OneOK(p) ==
    /\ pc[p] \in {"read", "insert"} => keys[p] \subseteq Safe
    /\ pc[p] \in {"insert", "rewrite", "write", "mixed"} => batch[p] \subseteq appended
    /\ pc[p] = "filter" => batch[p] \subseteq deleted
    /\ pc[p] = "rotate" => plan[p].rotate
    /\ p \in Committed => Lines \subseteq Carry(p) \cup Safe

KeptInv ==
    /\ CopyOK
    /\ live \subseteq appended
    /\ appended \subseteq Safe \cup Lines
    /\ \A p \in Writers : OneOK(p)

(* A process that takes no part in the step, but for another one that writes  *)
(* or renames the file it is writing.                                         *)
LEMMA Bystander ==
    ASSUME TypeOK, NEW q \in Writers, OneOK(q),
           pc'[q] = pc[q] \/ (q \in Writing /\ pc'[q] \in {"mixed", "adrift"}),
           batch'[q] = batch[q], keys'[q] = keys[q], plan'[q] = plan[q],
           Safe \subseteq Safe', deleted \subseteq deleted', appended \subseteq appended',
           q \in Committed => Lines' \subseteq Lines \cup Safe'
    PROVE  OneOK(q)'
<1>1. q \in Committed' => q \in Committed
  BY DEF Committed, Writing
<1>2. Carry(q)' = Carry(q)
  BY DEF Carry, Writing
<1>3. q \in Committed' => Lines' \subseteq Carry(q)' \cup Safe'
  BY <1>1, <1>2 DEF OneOK
<1> QED
  BY <1>3 DEF OneOK, Writing

(* A process that is done. *)
LEMMA Finished ==
    ASSUME NEW q \in Writers, pc'[q] = "idle"
    PROVE  OneOK(q)'
BY DEF OneOK, Committed

(* The lines that are being written, when the writers of none or of one change. *)
LEMMA WrittenStays ==
    ASSUME \A q \in Deleters : /\ pc'[q] \in {"write", "mixed"} <=> pc[q] \in {"write", "mixed"}
                               /\ pc[q] \in {"write", "mixed"} => batch'[q] = batch[q]
    PROVE  BeingWritten' = BeingWritten
BY DEF BeingWritten, Writing

LEMMA WrittenWithout ==
    ASSUME NEW p \in Writers,
           \A q \in Writers \ {p} : pc'[q] = pc[q] /\ batch'[q] = batch[q],
           p \notin Writing'
    PROVE  /\ BeingWritten' \subseteq BeingWritten
           /\ p \in Writing => BeingWritten \subseteq BeingWritten' \cup batch[p]
           /\ p \notin Writing => BeingWritten' = BeingWritten
BY DEF BeingWritten, Writing, Writers

(* The copy of the database is where it was. *)
LEMMA CopyStays ==
    ASSUME CopyOK, copied' = copied, fresh' = fresh,
           Rows' \subseteq Rows \cup raced' \cup deleted',
           raced \subseteq raced', deleted \subseteq deleted',
           \A q \in Writers : pc'[q] = "replace" => pc[q] = "replace"
    PROVE  CopyOK'
BY DEF CopyOK, FreshRows

LEMMA KeptStep == TypeOK /\ KeptInv /\ [Next]_vars => KeptInv'
<1> SUFFICES ASSUME TypeOK, KeptInv, [Next]_vars PROVE KeptInv'
  OBVIOUS
<1> USE DEF fileVars, writerVars, readerVars, boundVars
<1>i. ASSUME NEW p \in Ingesters PROVE p \in Writers
  BY DEF Writers
<1>d. ASSUME NEW p \in Deleters PROVE p \in Writers
  BY DEF Writers
<1>0. /\ CopyOK /\ live \subseteq appended /\ appended \subseteq Safe \cup Lines
      /\ \A p \in Writers : OneOK(p)
  BY DEF KeptInv
<1>n. ASSUME NEW p \in Ingesters PROVE p \notin Writing /\ p \notin Writing'
  BY ProcsAssumption DEF Writing
(* A process leaves and changes no row and no line.                          *)
<1>f. ASSUME NEW p \in Writers, p \notin Writing, Forget(p),
             UNCHANGED <<live, table, appended, deleted, raced>>,
             (copied' = copied /\ fresh' = fresh) \/ copied' = FALSE
      PROVE  KeptInv'
  <2>1. /\ pc'[p] = "idle"
        /\ \A q \in Writers \ {p} : /\ pc'[q] = pc[q] /\ batch'[q] = batch[q]
                                    /\ keys'[q] = keys[q] /\ plan'[q] = plan[q]
    BY <1>f, ForgetKeeps
  <2>2. Rows' = Rows /\ Safe' = Safe
    BY <1>f DEF Rows, Safe
  <2>5. Lines' = Lines
    BY <1>f, <2>1, WrittenWithout DEF Lines, Writing
  <2>3. CopyOK'
    <3>1. CASE copied' = FALSE
      BY <3>1 DEF CopyOK
    <3>2. CASE copied' = copied /\ fresh' = fresh
      BY <1>0, <1>f, <2>1, <2>2, <3>2, CopyStays
    <3> QED
      BY <1>f, <3>1, <3>2
  <2>4. ASSUME NEW q \in Writers PROVE OneOK(q)'
    BY <1>0, <1>f, <2>1, <2>2, <2>5, Bystander, Finished
  <2> QED
    BY <1>0, <1>f, <2>2, <2>3, <2>4, <2>5 DEF KeptInv
(* A process goes on and changes no row and no line.                         *)
<1>g. ASSUME NEW p \in Writers, NEW label \in WriterLabels, Goto(p, label), label # "replace",
             p \notin Writing, p \notin Writing', raced \subseteq raced',
             UNCHANGED <<live, table, copied, fresh, appended, deleted>>,
             \A q \in Writers \ {p} : /\ batch'[q] = batch[q] /\ keys'[q] = keys[q]
                                      /\ plan'[q] = plan[q],
             OneOK(p)'
      PROVE  KeptInv'
  <2>1. pc'[p] = label /\ \A q \in Writers \ {p} : pc'[q] = pc[q]
    BY <1>g, GotoKeeps
  <2>2. Rows' = Rows /\ Safe \subseteq Safe'
    BY <1>g DEF Rows, Safe
  <2>5. Lines' = Lines
    BY <1>g, <2>1, WrittenWithout DEF Lines
  <2>3. CopyOK'
    BY <1>0, <1>g, <2>1, <2>2, CopyStays
  <2>4. ASSUME NEW q \in Writers PROVE OneOK(q)'
    BY <1>0, <1>g, <2>1, <2>2, <2>5, Bystander
  <2> QED
    BY <1>0, <1>g, <2>2, <2>3, <2>4, <2>5 DEF KeptInv
<1>1. ASSUME NEW r \in Records, Append(r) PROVE KeptInv'
  <2>1. /\ live \subseteq live' /\ live' \subseteq live \cup {r}
        /\ appended' = appended \cup {r} /\ raced \subseteq raced'
        /\ Committed # {} => r \in raced'
        /\ r \in live' \cup raced'
        /\ Rows' = Rows /\ deleted' = deleted /\ UNCHANGED <<pc, batch, keys, plan, copied, fresh>>
    BY <1>1 DEF Append, Rows
  <2>2. Safe \subseteq Safe' /\ (Committed # {} => r \in Safe') /\ r \in live' \cup Safe'
    BY <2>1 DEF Safe
  <2>5. Lines \subseteq Lines' /\ Lines' \subseteq Lines \cup {r} /\ live' \subseteq Lines'
    BY <2>1 DEF Lines, BeingWritten, Writing
  <2>3. CopyOK'
    BY <1>0, <2>1, CopyStays
  <2>4. ASSUME NEW q \in Writers PROVE OneOK(q)'
    <3>1. q \in Committed => Lines' \subseteq Lines \cup Safe'
      BY <2>2, <2>5
    <3> QED
      BY <1>0, <2>1, <2>2, <3>1, Bystander
  <2> QED
    BY <1>0, <2>1, <2>2, <2>3, <2>4, <2>5 DEF KeptInv
<1>2. ASSUME NEW p \in Ingesters, NEW b \in BOOLEAN, Connect(p, b) PROVE KeptInv'
  <2>1. /\ keys'[p] = Rows /\ pc'[p] = "read"
        /\ \A q \in Writers \ {p} : /\ batch'[q] = batch[q] /\ keys'[q] = keys[q]
                                    /\ plan'[q] = plan[q]
    BY <1>2, <1>i DEF Connect, Goto, TypeOK
  <2>2. Safe' = Safe
    BY <1>2 DEF Connect, Safe, Rows
  <2>3. OneOK(p)'
    BY <2>1, <2>2 DEF OneOK, Committed, Safe
  <2> QED
    BY <1>2, <1>i, <1>n, <1>g, <2>1, <2>3 DEF Connect, WriterLabels
<1>3. ASSUME NEW p \in Ingesters, NEW b \in BOOLEAN, CloseDb(p, b) PROVE KeptInv'
  <2>1. CASE plan[p].rotate
    <3>1. /\ pc[p] = "insert" /\ batch[p] = {} /\ pc'[p] = "rotate"
          /\ \A q \in Writers \ {p} : /\ batch'[q] = batch[q] /\ keys'[q] = keys[q]
                                      /\ plan'[q] = plan[q]
      BY <1>3, <1>i, <2>1 DEF CloseDb, Goto, TypeOK
    <3>2. plan'[p].rotate
      <4>1. plan[p] \in Plans
        BY <1>i DEF TypeOK
      <4>2. plan'[p] = [plan[p] EXCEPT !.compact = b]
        BY <1>3, <1>i, <2>1 DEF CloseDb, TypeOK
      <4>3. [plan[p] EXCEPT !.compact = b].rotate = plan[p].rotate
        BY <4>1, PlanFacts
      <4> QED
        BY <2>1, <4>2, <4>3
    <3>3. Safe' = Safe
      BY <1>3 DEF CloseDb, Safe, Rows
    <3>6. Lines' = Lines
      <4>1. \A q \in Writers \ {p} : pc'[q] = pc[q]
        BY <1>3, <1>i, <2>1 DEF CloseDb, Goto, TypeOK
      <4> QED
        BY <1>3, <1>i, <1>n, <3>1, <4>1, WrittenWithout DEF CloseDb, Lines
    <3>4. Lines \subseteq Safe
      BY <1>0, <1>i, <2>1, <3>1 DEF OneOK, Committed, Carry
    <3>5. OneOK(p)'
      BY <3>1, <3>2, <3>3, <3>4, <3>6 DEF OneOK
    <3> QED
      BY <1>3, <1>i, <1>n, <1>g, <2>1, <3>1, <3>5 DEF CloseDb, WriterLabels
  <2>2. CASE ~plan[p].rotate
    BY <1>3, <1>i, <1>n, <1>f, <2>2 DEF CloseDb
  <2> QED
    BY <2>1, <2>2
<1>4. ASSUME NEW p \in Ingesters, ReadLines(p) PROVE KeptInv'
  <2>1. /\ pc[p] = "read" /\ pc'[p] = "insert" /\ batch'[p] = live /\ keys' = keys /\ live' = live
        /\ \A q \in Writers \ {p} : /\ batch'[q] = batch[q] /\ keys'[q] = keys[q]
                                    /\ plan'[q] = plan[q]
    BY <1>4, <1>i DEF ReadLines, Goto, TypeOK
  <2>2. Safe \subseteq Safe' /\ appended' = appended /\ raced \subseteq raced'
    BY <1>4 DEF ReadLines, Safe, Rows
  <2>4. BeingWritten' = BeingWritten
    <3>1. \A q \in Writers \ {p} : pc'[q] = pc[q]
      BY <1>4, <1>i DEF ReadLines, Goto, TypeOK
    <3> QED
      BY <1>i, <1>n, <2>1, <3>1, WrittenWithout
  <2>5. p \in Committed' => Lines' \subseteq live \cup Safe'
    <3>1. p \in Committed' => plan[p].rotate
      BY <1>4, <2>1 DEF Committed, ReadLines
    <3>2. plan[p].rotate => BeingWritten \subseteq live \cup raced'
      BY <1>4 DEF ReadLines
    <3> QED
      BY <2>1, <2>4, <3>1, <3>2 DEF Lines, Safe
  <2>3. OneOK(p)'
    BY <1>0, <1>i, <2>1, <2>2, <2>5 DEF OneOK, Carry
  <2> QED
    BY <1>4, <1>i, <1>n, <1>g, <2>1, <2>2, <2>3 DEF ReadLines, WriterLabels
<1>5. ASSUME NEW p \in Ingesters, NEW r \in Records, InsertRow(p, r) PROVE KeptInv'
  <2>1. /\ pc[p] = "insert" /\ r \in batch[p] /\ batch'[p] = batch[p] \ {r}
        /\ UNCHANGED <<pc, plan, live, appended, deleted, copied, fresh>>
        /\ \A q \in Writers \ {p} : batch'[q] = batch[q] /\ keys'[q] = keys[q]
    BY <1>5, <1>i DEF InsertRow, TypeOK
  <2>2. /\ Rows \subseteq Rows' /\ raced \subseteq raced' /\ Rows' \subseteq Rows \cup {r}
        /\ keys'[p] \subseteq keys[p] \cup {r} /\ (r \in keys[p] => Rows' = Rows /\ keys'[p] = keys[p])
        /\ r \notin keys[p] => r \in Rows' \cup raced'
        /\ r \notin keys[p] /\ (\E q \in Writers : pc[q] = "replace") => r \in raced'
    <3>1. CASE r \in keys[p]
      BY <1>5, <3>1 DEF InsertRow, Rows
    <3>2. CASE r \notin keys[p]
      <4>1. keys' = [keys EXCEPT ![p] = @ \cup {r}]
        BY <1>5, <3>2 DEF InsertRow
      <4>2. keys'[p] = keys[p] \cup {r}
        BY <1>i, <4>1 DEF TypeOK
      <4>3. CASE p \in detached
        BY <1>5, <3>2, <4>2, <4>3 DEF InsertRow, Rows
      <4>4. CASE p \notin detached
        <5>1. /\ table' = [table EXCEPT ![r] = table[r] + 1] /\ raced \subseteq raced'
              /\ (\E q \in Writers : pc[q] = "replace") => r \in raced'
          BY <1>5, <3>2, <4>4 DEF InsertRow
        <5>2. Rows' = Rows \cup {r}
          BY <5>1 DEF Rows, TypeOK
        <5> QED
          BY <3>2, <4>2, <5>1, <5>2
      <4> QED
        BY <4>3, <4>4
    <3> QED
      BY <3>1, <3>2
  <2>3. Safe \subseteq Safe'
    BY <2>1, <2>2 DEF Safe
  <2>4. CopyOK'
    BY <1>0, <2>1, <2>2 DEF CopyOK, FreshRows
  <2>5. r \in Safe'
    <3>1. CASE r \in keys[p]
      BY <1>0, <1>i, <2>1, <2>3, <3>1 DEF OneOK
    <3>2. CASE r \notin keys[p]
      BY <2>2, <3>2 DEF Safe
    <3> QED
      BY <3>1, <3>2
  <2>8. Lines' = Lines
    BY <1>i, <1>n, <2>1, WrittenWithout DEF Lines
  <2>6. OneOK(p)'
    BY <1>0, <1>i, <2>1, <2>2, <2>3, <2>5, <2>8 DEF OneOK, Committed, Carry
  <2>7. ASSUME NEW q \in Writers PROVE OneOK(q)'
    BY <1>0, <2>1, <2>3, <2>6, <2>8, Bystander
  <2> QED
    BY <1>0, <2>1, <2>3, <2>4, <2>7, <2>8 DEF KeptInv
<1>6. ASSUME NEW p \in Ingesters, IngestFails(p) \/ CopyFails(p) PROVE KeptInv'
  BY <1>6, <1>i, <1>n, <1>f DEF IngestFails, CopyFails
<1>7. ASSUME NEW p \in Ingesters, Rotate(p) PROVE KeptInv'
  <2>1. live' = {} /\ UNCHANGED <<table, appended, deleted, raced, copied, fresh>> /\ pc[p] = "rotate"
    BY <1>7 DEF Rotate
  <2>2. Rows' = Rows /\ Safe' = Safe
    BY <2>1 DEF Rows, Safe
  <2>3. Lines \subseteq Safe
    BY <1>0, <1>i, <2>1 DEF OneOK, Committed, Carry
  <2>4. /\ pc'[p] \in {"copy", "idle"}
        /\ \A q \in Writers \ {p} :
              /\ pc'[q] = IF q \in Writing THEN "adrift" ELSE pc[q]
              /\ batch'[q] = batch[q] /\ keys'[q] = keys[q] /\ plan'[q] = plan[q]
    BY <1>7, <1>i DEF Rotate, TypeOK
  <2>8. Lines' = {}
    <3>1. Writing' = {}
      BY <1>d, <2>4 DEF Writing
    <3> QED
      BY <2>1, <3>1 DEF Lines, BeingWritten
  <2>5. CopyOK'
    BY <1>0, <2>1, <2>2, <2>4, CopyStays
  <2>6. OneOK(p)'
    BY <2>4 DEF OneOK, Committed
  <2>7. ASSUME NEW q \in Writers PROVE OneOK(q)'
    BY <1>0, <2>1, <2>2, <2>4, <2>6, <2>8, Bystander
  <2> QED
    BY <1>0, <2>1, <2>2, <2>3, <2>5, <2>7, <2>8 DEF KeptInv
<1>8. ASSUME NEW p \in Ingesters, Copy(p) PROVE KeptInv'
  <2>1. /\ UNCHANGED <<live, table, appended, deleted, raced, batch, keys, plan>>
        /\ fresh' = table /\ pc'[p] = "replace" /\ \A q \in Writers \ {p} : pc'[q] = pc[q]
    BY <1>8, <1>i DEF Copy, Goto, TypeOK
  <2>2. Rows' = Rows /\ Safe' = Safe /\ FreshRows' = Rows'
    BY <2>1 DEF Rows, Safe, FreshRows
  <2>3. CopyOK'
    BY <2>2 DEF CopyOK
  <2>4. OneOK(p)'
    BY <1>n, <2>1 DEF OneOK, Committed
  <2>6. Lines' = Lines
    BY <1>i, <1>n, <2>1, WrittenWithout DEF Lines
  <2>5. ASSUME NEW q \in Writers PROVE OneOK(q)'
    BY <1>0, <2>1, <2>2, <2>4, <2>6, Bystander
  <2> QED
    BY <1>0, <2>1, <2>2, <2>3, <2>5, <2>6 DEF KeptInv
<1>9. ASSUME NEW p \in Ingesters, Replace(p) PROVE KeptInv'
  <2>1. CASE copied
    <3>1. /\ UNCHANGED <<live, appended, deleted, raced>> /\ pc[p] = "replace"
          /\ table' = fresh /\ copied' = FALSE
          /\ pc'[p] = "idle"
          /\ \A q \in Writers \ {p} : /\ pc'[q] = pc[q] /\ batch'[q] = batch[q]
                                      /\ keys'[q] = keys[q] /\ plan'[q] = plan[q]
      BY <1>9, <1>i, <2>1, ForgetKeeps DEF Replace
    <3>2. Rows' = FreshRows
      BY <3>1 DEF Rows, FreshRows
    <3>3. Safe \subseteq Safe'
      BY <1>0, <1>i, <2>1, <3>1, <3>2 DEF CopyOK, Safe
    <3>4. CopyOK'
      BY <3>1 DEF CopyOK
    <3>6. Lines' = Lines
      BY <1>i, <1>n, <3>1, WrittenWithout DEF Lines
    <3>5. ASSUME NEW q \in Writers PROVE OneOK(q)'
      BY <1>0, <3>1, <3>3, <3>6, Bystander, Finished
    <3> QED
      BY <1>0, <3>1, <3>3, <3>4, <3>5, <3>6 DEF KeptInv
  <2>2. CASE ~copied
    BY <1>9, <1>i, <1>n, <1>f, <2>2 DEF Replace
  <2> QED
    BY <2>1, <2>2
<1>10. ASSUME NEW p \in Deleters, NEW r \in Records, DeleteRows(p, r) PROVE KeptInv'
  <2>1. /\ UNCHANGED <<live, appended, raced, copied, fresh>> /\ deleted' = deleted \cup {r}
        /\ pc'[p] = "filter" /\ batch'[p] = {r}
        /\ \A q \in Writers \ {p} : /\ pc'[q] = pc[q] /\ batch'[q] = batch[q]
                                    /\ keys'[q] = keys[q] /\ plan'[q] = plan[q]
    BY <1>10, <1>d DEF DeleteRows, Goto, TypeOK
  <2>2. Rows \ {r} \subseteq Rows' /\ Rows' \subseteq Rows
    BY <1>10 DEF DeleteRows, Rows, TypeOK
  <2>3. Safe \subseteq Safe'
    BY <2>1, <2>2 DEF Safe
  <2>4. CopyOK'
    BY <1>0, <2>1, <2>2, CopyStays
  <2>5. OneOK(p)'
    BY <2>1 DEF OneOK, Committed
  <2>7. Lines' = Lines
    <3>1. p \notin Writing /\ p \notin Writing'
      BY <1>10, <2>1 DEF DeleteRows, Writing
    <3> QED
      BY <1>d, <2>1, <3>1, WrittenWithout DEF Lines
  <2>6. ASSUME NEW q \in Writers PROVE OneOK(q)'
    BY <1>0, <2>1, <2>3, <2>5, <2>7, Bystander
  <2> QED
    BY <1>0, <2>1, <2>3, <2>4, <2>6, <2>7 DEF KeptInv
<1>11. ASSUME NEW p \in Deleters, FilterLines(p) PROVE KeptInv'
  <2>1. /\ pc[p] = "filter" /\ pc'[p] = "rewrite" /\ batch'[p] = live \ batch[p]
        /\ UNCHANGED <<live, keys, plan, appended, deleted>>
        /\ \A q \in Writers \ {p} : batch'[q] = batch[q]
    BY <1>11, <1>d DEF FilterLines, Goto, TypeOK
  <2>2. Safe \subseteq Safe' /\ raced \subseteq raced' /\ BeingWritten \subseteq live \cup Safe'
    BY <1>11 DEF FilterLines, Safe, Rows
  <2>3. batch[p] \subseteq Safe
    BY <1>0, <1>d, <2>1 DEF OneOK, Safe
  <2>5. p \notin Writing /\ p \notin Writing'
    BY <2>1 DEF Writing
  <2>6. BeingWritten' = BeingWritten
    <3>1. \A q \in Writers \ {p} : pc'[q] = pc[q]
      BY <1>11, <1>d DEF FilterLines, Goto, TypeOK
    <3> QED
      BY <1>d, <2>1, <2>5, <3>1, WrittenWithout
  <2>7. Lines' \subseteq batch'[p] \cup Safe'
    BY <2>1, <2>2, <2>3, <2>6 DEF Lines
  <2>4. OneOK(p)'
    BY <1>0, <2>1, <2>7 DEF OneOK, Carry
  <2> QED
    BY <1>11, <1>d, <1>g, <2>1, <2>2, <2>4, <2>5 DEF FilterLines, WriterLabels
(* A deletion truncates the file: the lines it will write are among those     *)
(* that are to be there, and the others it knows to be safe.                  *)
<1>12. ASSUME NEW p \in Deleters, TruncateLines(p) PROVE KeptInv'
  <2>1. /\ pc[p] = "rewrite" /\ UNCHANGED <<table, appended, deleted, raced, copied, fresh>>
        /\ live' \subseteq batch[p] /\ pc'[p] \in {"write", "mixed"}
        /\ UNCHANGED <<batch, keys, plan>>
        /\ \A q \in Writers \ {p} : pc'[q] = IF q \in Writing THEN "mixed" ELSE pc[q]
    BY <1>12, <1>d DEF TruncateLines, TypeOK
  <2>2. Rows' = Rows /\ Safe' = Safe
    BY <2>1 DEF Rows, Safe
  <2>3. batch[p] \subseteq appended /\ Lines \subseteq batch[p] \cup Safe
    BY <1>0, <1>d, <2>1 DEF OneOK, Committed, Carry
  <2>4. Writing' = Writing \cup {p}
    BY <1>d, <2>1 DEF Writing
  <2>5. BeingWritten' = BeingWritten \cup batch[p]
    BY <2>1, <2>4 DEF BeingWritten
  <2>6. Lines' = BeingWritten \cup batch[p]
    BY <2>1, <2>5 DEF Lines
  <2>7. Lines' \subseteq Lines \cup Safe /\ Lines \subseteq Lines' \cup Safe
    BY <1>0, <2>3, <2>6 DEF Lines
  <2>8. CopyOK'
    BY <1>0, <1>d, <2>1, <2>2, CopyStays DEF Writing
  <2>9. ASSUME NEW q \in Writers, q # p PROVE OneOK(q)'
    BY <1>0, <2>1, <2>2, <2>7, <2>9, Bystander
  <2>10. OneOK(p)'
    <3>1. Lines' \subseteq batch'[p] \cup Safe'
      BY <2>1, <2>2, <2>3, <2>6 DEF Lines
    <3> QED
      BY <2>1, <2>3, <3>1 DEF OneOK, Carry
  <2> QED
    BY <1>0, <2>1, <2>2, <2>3, <2>7, <2>8, <2>9, <2>10 DEF KeptInv
(* A deletion leaves the file to others: what it lost raced, or was known.    *)
<1>17. ASSUME NEW p \in Deleters, WriteLines(p) \/ WriteMixed(p) \/ RewriteTorn(p)
       PROVE  KeptInv'
  <2>1. /\ p \in Writing /\ UNCHANGED <<table, appended, deleted, copied, fresh>>
        /\ pc'[p] = "idle"
        /\ \A q \in Writers \ {p} : /\ pc'[q] = pc[q] /\ batch'[q] = batch[q]
                                    /\ keys'[q] = keys[q] /\ plan'[q] = plan[q]
    BY <1>17, <1>d, ForgetKeeps DEF WriteLines, WriteMixed, RewriteTorn, Writing
  <2>2. Rows' = Rows /\ raced \subseteq raced'
    BY <1>17 DEF WriteLines, WriteMixed, RewriteTorn, Rows
  <2>3. batch[p] \subseteq appended /\ Lines \subseteq batch[p] \cup Safe
    BY <1>0, <1>d, <2>1 DEF OneOK, Committed, Carry, Writing
  <2>4. live' \subseteq live \cup batch[p] /\ batch[p] \subseteq live' \cup raced'
    BY <1>17 DEF WriteLines, WriteMixed, RewriteTorn
  <2>5. Safe \subseteq Safe' /\ batch[p] \subseteq live' \cup Safe'
    BY <2>1, <2>2, <2>4 DEF Safe
  <2>6. batch[p] \subseteq BeingWritten
    BY <2>1 DEF BeingWritten
  <2>7. BeingWritten' \subseteq BeingWritten
    BY <1>d, <2>1, WrittenWithout DEF Writing
  <2>8. Lines' \subseteq Lines /\ Lines \subseteq Lines' \cup Safe' /\ live' \subseteq appended'
    BY <1>0, <2>1, <2>3, <2>4, <2>5, <2>6, <2>7 DEF Lines
  <2>9. CopyOK'
    BY <1>0, <1>d, <2>1, <2>2, CopyStays
  <2>10. ASSUME NEW q \in Writers PROVE OneOK(q)'
    BY <1>0, <2>1, <2>5, <2>8, Bystander, Finished
  <2> QED
    BY <1>0, <2>1, <2>5, <2>8, <2>9, <2>10 DEF KeptInv
<1>18. ASSUME NEW p \in Deleters, WriteAdrift(p) PROVE KeptInv'
  <2>1. p \notin Writing
    BY <1>18 DEF WriteAdrift, Writing
  <2> QED
    BY <1>18, <1>d, <1>f, <2>1 DEF WriteAdrift
<1>13. ASSUME NEW p \in Writers, Crash(p) PROVE KeptInv'
  BY <1>13, <1>f DEF Crash
<1>14. ASSUME UNCHANGED <<live, table, copied, fresh, appended, deleted, raced, batch, keys, plan>>,
              \A q \in Writers : pc'[q] = pc[q]
       PROVE  KeptInv'
  <2>1. Rows' = Rows /\ Safe' = Safe
    BY <1>14 DEF Rows, Safe
  <2>4. Lines' = Lines
    BY <1>d, <1>14, WrittenStays DEF Lines
  <2>2. CopyOK'
    BY <1>0, <1>14, <2>1, CopyStays
  <2>3. ASSUME NEW q \in Writers PROVE OneOK(q)'
    BY <1>0, <1>14, <2>1, <2>4, Bystander
  <2> QED
    BY <1>0, <1>14, <2>1, <2>2, <2>3, <2>4 DEF KeptInv
<1>15. ASSUME NEW c \in Readers, ReaderStep(c) PROVE KeptInv'
  <2>1. \A q \in Writers : pc'[q] = pc[q]
    BY <1>15, ProcsAssumption DEF ReaderStep, ReadRows, ReadLive, Answer, Goto, TypeOK
  <2>2. UNCHANGED <<live, table, copied, fresh, appended, deleted, raced, batch, keys, plan>>
    BY <1>15 DEF ReaderStep, ReadRows, ReadLive, Answer
  <2> QED
    BY <1>14, <2>1, <2>2
<1>16. CASE UNCHANGED vars
  BY <1>14, <1>16 DEF vars
<1> QED
  BY <1>1, <1>2, <1>3, <1>4, <1>5, <1>6, <1>7, <1>8, <1>9, <1>10, <1>11, <1>12, <1>13,
     <1>15, <1>16, <1>17, <1>18 DEF Next, IngesterStep, DeleterStep

------------------------------------------------------------------------------
(* Answers.                                                                 *)

HalfOK ==
    \A c \in Readers :
        pc[c] = "readLive" /\ c \notin disturbed => floor[c] \subseteq seen[c] \cup live \cup deleted

ReadersInv == HalfOK /\ AnswerComplete

(* A step of somebody else either takes no line away or disturbs whoever is  *)
(* halfway.                                                                  *)
LEMMA ReadersUndisturbed ==
    ASSUME TypeOK, ReadersInv, UNCHANGED <<seen, floor>>, \A c \in Readers : pc'[c] = pc[c],
           deleted \subseteq deleted', disturbed \subseteq disturbed',
           live \subseteq live' \/ Halfway \subseteq disturbed'
    PROVE  ReadersInv'
<1>1. HalfOK'
  BY DEF ReadersInv, HalfOK, Halfway
<1>2. AnswerComplete'
  BY DEF ReadersInv, AnswerComplete
<1> QED
  BY <1>1, <1>2 DEF ReadersInv

LEMMA ReadersStep == TypeOK /\ ReadersInv /\ [Next]_vars => ReadersInv'
<1> SUFFICES ASSUME TypeOK, ReadersInv, [Next]_vars PROVE ReadersInv'
  OBVIOUS
<1> USE DEF fileVars, writerVars, readerVars, boundVars
<1>w. ASSUME NEW p \in Writers, NEW label, Goto(p, label) PROVE \A c \in Readers : pc'[c] = pc[c]
  BY <1>w, ProcsAssumption DEF Goto, TypeOK
<1>i. ASSUME NEW p \in Ingesters PROVE p \in Writers
  BY DEF Writers
<1>d. ASSUME NEW p \in Deleters PROVE p \in Writers
  BY DEF Writers
<1>1. ASSUME NEW r \in Records, Append(r) PROVE ReadersInv'
  BY <1>1, ReadersUndisturbed DEF Append
<1>2. ASSUME NEW p \in Ingesters, NEW b \in BOOLEAN, Connect(p, b) \/ CloseDb(p, b) PROVE ReadersInv'
  <2>1. \A c \in Readers : pc'[c] = pc[c]
    BY <1>2, <1>i, <1>w DEF Connect, CloseDb, Forget
  <2> QED
    BY <1>2, <2>1, ReadersUndisturbed DEF Connect, CloseDb
<1>3. ASSUME NEW p \in Ingesters, NEW r \in Records, InsertRow(p, r) PROVE ReadersInv'
  BY <1>3, ReadersUndisturbed DEF InsertRow
<1>4. ASSUME NEW p \in Ingesters, ReadLines(p) \/ IngestFails(p) \/ Copy(p) \/ CopyFails(p)
      PROVE  ReadersInv'
  <2>1. \A c \in Readers : pc'[c] = pc[c]
    BY <1>4, <1>i, <1>w DEF ReadLines, IngestFails, Copy, CopyFails, Forget
  <2> QED
    BY <1>4, <2>1, ReadersUndisturbed DEF ReadLines, IngestFails, Copy, CopyFails
<1>5. ASSUME NEW p \in Ingesters, Rotate(p) PROVE ReadersInv'
  <2>1. \A c \in Readers : pc'[c] = pc[c]
    BY <1>5, <1>i, ProcsAssumption DEF Rotate, Writing, Writers, TypeOK
  <2> QED
    BY <1>5, <2>1, ReadersUndisturbed DEF Rotate
<1>6. ASSUME NEW p \in Ingesters, Replace(p) PROVE ReadersInv'
  <2>1. \A c \in Readers : pc'[c] = pc[c]
    BY <1>6, <1>i, <1>w DEF Replace, Forget
  <2>2. disturbed \subseteq disturbed'
    BY <1>6 DEF Replace
  <2> QED
    BY <1>6, <2>1, <2>2, ReadersUndisturbed DEF Replace
<1>7. ASSUME NEW p \in Deleters, NEW r \in Records, DeleteRows(p, r) PROVE ReadersInv'
  <2>1. \A c \in Readers : pc'[c] = pc[c]
    BY <1>7, <1>d, <1>w DEF DeleteRows
  <2> QED
    BY <1>7, <2>1, ReadersUndisturbed DEF DeleteRows
<1>12. ASSUME NEW p \in Deleters, TruncateLines(p) PROVE ReadersInv'
  <2>1. \A c \in Readers : pc'[c] = pc[c]
    BY <1>12, <1>d, ProcsAssumption DEF TruncateLines, Writing, Writers, TypeOK
  <2> QED
    BY <1>12, <2>1, ReadersUndisturbed DEF TruncateLines
<1>8. ASSUME NEW p \in Deleters,
             \/ FilterLines(p) \/ WriteLines(p) \/ WriteMixed(p)
             \/ WriteAdrift(p) \/ RewriteTorn(p)
      PROVE  ReadersInv'
  <2>1. \A c \in Readers : pc'[c] = pc[c]
    BY <1>8, <1>d, <1>w DEF FilterLines, WriteLines, WriteMixed, WriteAdrift, RewriteTorn, Forget
  <2> QED
    BY <1>8, <2>1, ReadersUndisturbed
       DEF FilterLines, WriteLines, WriteMixed, WriteAdrift, RewriteTorn
<1>9. ASSUME NEW p \in Writers, Crash(p) PROVE ReadersInv'
  <2>1. \A c \in Readers : pc'[c] = pc[c]
    BY <1>9, <1>w DEF Crash, Forget
  <2> QED
    BY <1>9, <2>1, ReadersUndisturbed DEF Crash
<1>10. ASSUME NEW c \in Readers, ReaderStep(c) PROVE ReadersInv'
  <2>0. /\ UNCHANGED <<table, live, deleted>>
        /\ \A e \in Readers \ {c} : /\ pc'[e] = pc[e] /\ seen'[e] = seen[e]
                                    /\ floor'[e] = floor[e] /\ (e \in disturbed' <=> e \in disturbed)
    BY <1>10 DEF ReaderStep, ReadRows, ReadLive, Answer, Goto, TypeOK
  <2>1. CASE ReadRows(c)
    <3>1. /\ pc'[c] = "readLive" /\ floor'[c] = Union
          /\ seen'[c] = Rows \/ c \in disturbed'
      BY <2>1 DEF ReadRows, Goto, TypeOK
    <3>2. c \notin disturbed' => floor'[c] \subseteq seen'[c] \cup live' \cup deleted'
      BY <2>0, <3>1 DEF Union
    <3>3. HalfOK' /\ AnswerComplete'
      BY <2>0, <3>1, <3>2 DEF ReadersInv, HalfOK, AnswerComplete
    <3> QED
      BY <3>3 DEF ReadersInv
  <2>2. CASE ReadLive(c)
    <3>1. /\ pc[c] = "readLive" /\ pc'[c] = "answer" /\ floor' = floor /\ disturbed' = disturbed
          /\ seen'[c] = seen[c] \cup live
      BY <2>2 DEF ReadLive, Goto, TypeOK
    <3>2. c \notin disturbed' => floor'[c] \subseteq seen'[c] \cup deleted'
      BY <2>0, <3>1 DEF ReadersInv, HalfOK
    <3>3. HalfOK' /\ AnswerComplete'
      BY <2>0, <3>1, <3>2 DEF ReadersInv, HalfOK, AnswerComplete
    <3> QED
      BY <3>3 DEF ReadersInv
  <2>3. CASE Answer(c)
    <3>1. pc'[c] = "idle"
      BY <2>3 DEF Answer, Goto, TypeOK
    <3>2. HalfOK' /\ AnswerComplete'
      BY <2>0, <3>1 DEF ReadersInv, HalfOK, AnswerComplete
    <3> QED
      BY <3>2 DEF ReadersInv
  <2> QED
    BY <1>10, <2>1, <2>2, <2>3 DEF ReaderStep
<1>11. CASE UNCHANGED vars
  BY <1>11, ReadersUndisturbed DEF vars
<1> QED
  BY <1>1, <1>2, <1>3, <1>4, <1>5, <1>6, <1>7, <1>8, <1>9, <1>10, <1>11, <1>12
     DEF Next, IngesterStep, DeleterStep

------------------------------------------------------------------------------
(* The inductive invariant, and what follows from it.                       *)

IInv == TypeOK /\ ConnOK /\ AtMostOne /\ KeptInv /\ ReadersInv

LEMMA InvInit == Init => IInv
<1> SUFFICES ASSUME Init PROVE IInv
  OBVIOUS
<1>1. TypeOK
  BY TypeInit
<1>2. \A p \in Writers \cup Readers : pc[p] = "idle"
  BY DEF Init
<1>3. Rows = {}
  BY NoRowsFact DEF Init, Rows
<1>4. ConnOK
  BY <1>2, <1>3, ProcsAssumption DEF Init, ConnOK, Writers
<1>5. AtMostOne
  BY NoRowsFact DEF Init, AtMostOne
<1>6. KeptInv
  BY <1>2, <1>3 DEF Init, KeptInv, CopyOK, OneOK, Committed
<1>7. ReadersInv
  BY <1>2 DEF ReadersInv, HalfOK, AnswerComplete
<1> QED
  BY <1>1, <1>4, <1>5, <1>6, <1>7 DEF IInv

LEMMA InvAlways == Spec => []IInv
<1>1. IInv /\ [Next]_vars => IInv'
  BY TypeStep, ConnStep, OneRowStep, KeptStep, ReadersStep DEF IInv
<1> QED
  BY InvInit, <1>1, PTL DEF Spec

(* Files, rows, connections and the locals of every process keep their shape. *)
THEOREM TypeCorrect == Spec => []TypeOK
<1>1. IInv => TypeOK
  BY DEF IInv
<1> QED
  BY <1>1, InvAlways, PTL

(* A batch that is repeated after a death adds no second row: whoever has   *)
(* the database open knows every row in it.                                 *)
THEOREM OneRowEach == Spec => []OneRow
<1>1. IInv => OneRow
  BY DEF IInv, AtMostOne, OneRow
<1> QED
  BY <1>1, InvAlways, PTL

(* A record a hook has written is lost to nothing but its deletion and the  *)
(* races named where it is raced.                                           *)
THEOREM RecordsAreKept == Spec => []KeptUnlessRaced
<1>1. IInv => KeptUnlessRaced
  BY DEF IInv, KeptInv, KeptUnlessRaced, Safe, Union, Lines
<1> QED
  BY <1>1, InvAlways, PTL

(* A reader that met no batch leaves out nothing.                           *)
THEOREM AnswersAreComplete == Spec => []AnswerComplete
<1>1. IInv => AnswerComplete
  BY DEF IInv, ReadersInv
<1> QED
  BY <1>1, InvAlways, PTL

=============================================================================
