-------------------------- MODULE UtteranceProofs --------------------------
(***************************************************************************)
(* The path of an utterance, for any numbers of files, judges, promotions  *)
(* and expiries: it is read from its transcript into the archive           *)
(* (TranscriptIngest), judged (SemanticJudge), and if it is found to be a  *)
(* correction it is a signal that is promoted (WeakSignals).  Each part is *)
(* proved of its own specification.                                        *)
(*                                                                         *)
(* The arguments.  A cursor of an ingest stands behind what was stored, or *)
(* what the run that will store it has in hand; lines that are whole do    *)
(* not change, so that the cursor keeps its meaning while files grow.      *)
(* What a runner has selected fits into what is left of the day, and the   *)
(* lock keeps others from booking; a session's replies say what was said   *)
(* as long as they are read against the batches that were shown.           *)
(* Corrections are only ever added, so that a key which has its correction *)
(* when it is marked keeps it, in whatever copy the mark travels.          *)
(***************************************************************************)
EXTENDS TranscriptIngest, SemanticJudge, WeakSignals,
        FiniteSetTheorems, WellFoundedInduction, TLAPS

-----------------------------------------------------------------------------
(* Least and greatest members. *)

LEMMA SmallestOf ==
    ASSUME NEW T, T \subseteq Nat, T # {}
    PROVE  \E m \in T : \A k \in T : ~(k < m)
<1>1. \E m \in T : \A k \in T : ~(<<k, m>> \in OpToRel(<, Nat))
  BY NatLessThanWellFounded, WFMin
<1> QED BY <1>1 DEF OpToRel

LEMMA LargestOf ==
    ASSUME NEW n \in Nat, NEW S, S \subseteq 0 .. n, S # {}
    PROVE  \E x \in S : \A y \in S : y <= x
<1> DEFINE T == {n - x : x \in S}
<1>1. T \subseteq Nat /\ T # {}
  <2>1. \A x \in S : n - x \in Nat
    OBVIOUS
  <2>2. PICK x \in S : TRUE
    OBVIOUS
  <2>3. n - x \in T
    BY Zenon
  <2> QED BY <2>1, <2>3, Zenon
<1>2. PICK m \in T : \A k \in T : ~(k < m)
  <2> HIDE DEF T
  <2> QED BY <1>1, SmallestOf
<1>3. PICK x \in S : m = n - x
  OBVIOUS
<1>4. ASSUME NEW y \in S PROVE y <= x
  <2>1. n - y \in T
    OBVIOUS
  <2>2. ~(n - y < m)
    BY <2>1, <1>2
  <2>3. n \in Int /\ x \in Int /\ y \in Int
    OBVIOUS
  <2> QED BY <2>2, <2>3, <1>3
<1> QED BY <1>4

-----------------------------------------------------------------------------
(***************************************************************************)
(* The transcripts and the two ingests (TranscriptIngest).                 *)
(***************************************************************************)

\* n whole lines of a kind at the head of ls.
HasId(ls, n, kind, x) == \E i \in 1 .. n : ls[i].kind = kind /\ ls[i].whole /\ ls[i].id = x

LEMMA LineTypes ==
    ASSUME NEW ls \in Seq(TranscriptLine), NEW i \in DOMAIN ls
    PROVE  ls[i].id \in Ids /\ ls[i].kind \in Kinds /\ ls[i].whole \in BOOLEAN
<1>1. ls[i] \in TranscriptLine
  OBVIOUS
<1> QED BY <1>1 DEF TranscriptLine

(* The ids among the first lines of a transcript, and among all of them. *)
LEMMA IdsOfPrefix ==
    ASSUME NEW ls \in Seq(TranscriptLine), NEW n \in 0 .. Len(ls), NEW kind, NEW x
    PROVE  x \in IdsOf(SubSeq(ls, 1, n), kind) <=> HasId(ls, n, kind, x)
<1> DEFINE s == SubSeq(ls, 1, n)
<1>1. Len(s) = n /\ DOMAIN s = 1 .. n /\ \A i \in 1 .. n : s[i] = ls[i]
  OBVIOUS
<1>2. x \in IdsOf(s, kind) <=> \E i \in DOMAIN s : s[i].kind = kind /\ s[i].whole /\ s[i].id = x
  BY DEF IdsOf, ToSet
<1> QED BY <1>1, <1>2 DEF HasId

LEMMA IdsOfAll ==
    ASSUME NEW ls \in Seq(TranscriptLine), NEW kind, NEW x
    PROVE  x \in IdsOf(ls, kind) <=> HasId(ls, Len(ls), kind, x)
<1>1. DOMAIN ls = 1 .. Len(ls)
  OBVIOUS
<1>2. x \in IdsOf(ls, kind) <=> \E i \in DOMAIN ls : ls[i].kind = kind /\ ls[i].whole /\ ls[i].id = x
  BY DEF IdsOf, ToSet
<1> QED BY <1>1, <1>2 DEF HasId

(* What is before the cursor, and what is read from there up to m, is all    *)
(* that is before m.                                                         *)
LEMMA IdsOfRest ==
    ASSUME NEW ls \in Seq(TranscriptLine), NEW m \in 0 .. Len(ls), NEW n \in 0 .. m,
           NEW kind, NEW x, HasId(ls, m, kind, x)
    PROVE  HasId(ls, n, kind, x) \/ x \in IdsOf(SubSeq(ls, n + 1, m), kind)
<1> DEFINE s == SubSeq(ls, n + 1, m)
<1>1. Len(s) = m - n /\ DOMAIN s = 1 .. m - n
      /\ \A i \in 1 .. m - n : s[i] = ls[n + i]
  OBVIOUS
<1>2. x \in IdsOf(s, kind) <=> \E i \in DOMAIN s : s[i].kind = kind /\ s[i].whole /\ s[i].id = x
  BY DEF IdsOf, ToSet
<1>3. PICK i \in 1 .. m : ls[i].kind = kind /\ ls[i].whole /\ ls[i].id = x
  BY DEF HasId
<1>4. CASE i <= n
  BY <1>3, <1>4 DEF HasId
<1>5. CASE i > n
  <2>1. i - n \in 1 .. m - n /\ s[i - n] = ls[i]
    BY <1>1, <1>5
  <2> QED BY <2>1, <1>1, <1>2, <1>3
<1> QED BY <1>4, <1>5

LEMMA IdsAreTyped ==
    ASSUME NEW ls \in Seq(TranscriptLine), NEW kind
    PROVE  IdsOf(ls, kind) \subseteq Ids
<1>1. \A x \in IdsOf(ls, kind) : x \in Ids
  BY IdsOfAll, LineTypes DEF HasId
<1> QED BY <1>1

-----------------------------------------------------------------------------
(* How transcripts grow. *)

Grow(f) == Say(f) \/ CompleteLine(f) \/ \E g \in Files : Resume(f, g)

Reading == pc \in {"extract", "insert"}

(* Where the archive stands in the files.  A file without lines was not      *)
(* looked at, and a time that was noted is not after the file's own.         *)
CursorsBehind ==
    /\ \A f \in Files :
        /\ mtime[f] <= clock
        /\ state[f].mtime <= mtime[f]
        /\ state[f].offset <= Len(lines[f])
        /\ lines[f] = <<>> => state[f].mtime = 0 /\ f \notin waiting
    /\ Reading => fileA \in Files /\ mtimeA <= mtime[fileA] /\ lines[fileA] # <<>>

(* Whole lines stay, and so does all that is before them. *)
LEMMA GrowthKeepsLines ==
    ASSUME IngestTypeOK, NEW f \in Files, Grow(f), NEW g \in Files
    PROVE  /\ lines' \in [Files -> Seq(TranscriptLine)]
           /\ Len(lines'[g]) >= Len(lines[g])
           /\ lines'[f] # <<>>
           /\ g # f => lines'[g] = lines[g]
           /\ \A i \in 1 .. Len(lines[g]) :
                lines[g][i].whole => \A k \in 1 .. i : lines'[g][k] = lines[g][k]
<1> DEFINE ls == lines[f]
<1>0. lines \in [Files -> Seq(TranscriptLine)] /\ ls \in Seq(TranscriptLine) /\ used \in Nat
      /\ used <= MaxLines /\ MaxLines \in Nat
  BY BoundsAssumption DEF IngestTypeOK
<1>1. CASE Say(f)
  <2>1. PICK l : l \in TranscriptLine /\ lines' = [lines EXCEPT ![f] = Append(@, l)]
    <3>1. PICK kind \in Kinds, whole \in BOOLEAN :
              used < MaxLines /\ lines' = [lines EXCEPT ![f] =
                        Append(@, [id |-> used + 1, kind |-> kind, whole |-> whole])]
      BY <1>1 DEF Say
    <3>2. used + 1 \in Ids
      BY <3>1, <1>0 DEF Ids
    <3>3. [id |-> used + 1, kind |-> kind, whole |-> whole] \in TranscriptLine
      BY <3>2 DEF TranscriptLine
    <3> QED BY <3>1, <3>3
  <2>2. lines'[f] = Append(ls, l) /\ Append(ls, l) \in Seq(TranscriptLine)
        /\ Len(Append(ls, l)) = Len(ls) + 1 /\ \A i \in 1 .. Len(ls) : Append(ls, l)[i] = ls[i]
    BY <2>1, <1>0
  <2>3. lines' \in [Files -> Seq(TranscriptLine)] /\ (g # f => lines'[g] = lines[g])
    BY <2>1, <2>2, <1>0
  <2>4. lines'[f] # <<>>
    BY <2>2, <1>0
  <2>5. CASE g = f
    <3>1. \A i \in 1 .. Len(ls) : \A k \in 1 .. i : lines'[f][k] = ls[k]
      BY <2>2, <1>0
    <3>2. Len(lines'[f]) >= Len(ls)
      BY <2>2, <1>0
    <3> HIDE DEF ls
    <3> QED BY <3>1, <3>2, <2>3, <2>4, <2>5 DEF ls
  <2>6. CASE g # f
    BY <2>3, <2>4, <2>6, <1>0
  <2> QED BY <2>5, <2>6
<1>2. CASE CompleteLine(f)
  <2> DEFINE n == Len(ls)
             ended == [ls[n] EXCEPT !.whole = TRUE]
  <2>1. ls # <<>> /\ ~Last(ls).whole /\ Last(ls) = ls[n] /\ n \in 1 .. Len(ls)
    BY <1>2, <1>0 DEF CompleteLine, Last
  <2>2. ended \in TranscriptLine
    <3>1. ls[n] \in TranscriptLine
      BY <2>1, <1>0
    <3> QED BY <3>1 DEF TranscriptLine
  <2>3. lines' = [lines EXCEPT ![f] = [ls EXCEPT ![n] = ended]]
    BY <1>2 DEF CompleteLine
  <2>4. lines'[f] = [ls EXCEPT ![n] = ended] /\ Len(lines'[f]) = n
        /\ lines'[f] \in Seq(TranscriptLine) /\ \A i \in 1 .. n : i # n => lines'[f][i] = ls[i]
    BY <2>1, <2>2, <2>3, <1>0
  <2>5. lines' \in [Files -> Seq(TranscriptLine)] /\ (g # f => lines'[g] = lines[g])
    BY <2>3, <2>4, <1>0
  <2>6. lines'[f] # <<>>
    BY <2>1, <2>4, <1>0
  <2>7. \A i \in 1 .. n : ls[i].whole => \A k \in 1 .. i : lines'[f][k] = ls[k]
    BY <2>1, <2>4, <1>0
  <2>8. CASE g = f
    <3> HIDE DEF ended
    <3> QED BY <2>4, <2>5, <2>6, <2>7, <2>8, <1>0
  <2>9. CASE g # f
    BY <2>5, <2>6, <2>9, <1>0
  <2> QED BY <2>8, <2>9
<1>3. CASE \E h \in Files : Resume(f, h)
  <2>1. PICK h \in Files : ls = <<>> /\ lines[h] # <<>> /\ lines' = [lines EXCEPT ![f] = lines[h]]
    BY <1>3 DEF Resume
  <2> QED BY <2>1, <1>0
<1> QED BY <1>1, <1>2, <1>3 DEF Grow

(* A user's line that comes whole behind the archive's back is noted as missed. *)
LEMMA GrowthIsNoted ==
    ASSUME IngestTypeOK, CursorsBehind, NEW f \in Files, Grow(f), NEW g \in Files,
           NEW i \in 1 .. Len(lines'[g]), lines'[g][i].kind = "user", lines'[g][i].whole,
           i <= state[g].offset \/ Scanned(g)
    PROVE  \/ i \in 1 .. Len(lines[g]) /\ lines'[g][i] = lines[g][i]
           \/ lines'[g][i].id \in missed'
<1> DEFINE ls == lines[f]
<1>0. lines \in [Files -> Seq(TranscriptLine)] /\ ls \in Seq(TranscriptLine)
      /\ state[f].offset <= Len(ls) /\ state[f].offset \in Nat
  BY DEF IngestTypeOK, CursorsBehind
<1>1. CASE g # f
  <2>1. lines'[g] = lines[g]
    BY <1>1, GrowthKeepsLines
  <2> QED BY <2>1
<1>2. CASE g = f /\ Say(f)
  <2>1. PICK kind \in Kinds, whole \in BOOLEAN :
            /\ lines' = [lines EXCEPT ![f] =
                            Append(@, [id |-> used + 1, kind |-> kind, whole |-> whole])]
            /\ missed' = IF kind = "user" /\ whole /\ Scanned(f)
                         THEN missed \cup {used + 1} ELSE missed
    BY <1>2 DEF Say
  <2> DEFINE l == [id |-> used + 1, kind |-> kind, whole |-> whole]
  <2>2. lines'[f] = Append(ls, l)
    BY <2>1, <1>0
  <2>3. Len(lines'[f]) = Len(ls) + 1 /\ lines'[f][Len(ls) + 1] = l
        /\ \A k \in 1 .. Len(ls) : lines'[f][k] = ls[k]
    BY <2>2, <1>0
  <2>4. CASE i \in 1 .. Len(ls)
    BY <2>4, <2>3, <1>2
  <2>5. CASE i = Len(ls) + 1
    <3>1. Scanned(f)
      BY <2>5, <1>0, <1>2
    <3>2. kind = "user" /\ whole
      BY <2>5, <2>3, <1>2
    <3> QED BY <3>1, <3>2, <2>1, <2>3, <2>5, <1>2
  <2> QED BY <2>3, <2>4, <2>5, <1>0, <1>2
<1>3. CASE g = f /\ CompleteLine(f)
  <2> DEFINE n == Len(ls)
             ended == [ls[n] EXCEPT !.whole = TRUE]
  <2>1. ls # <<>> /\ Last(ls) = ls[n] /\ n \in 1 .. Len(ls)
    BY <1>3, <1>0 DEF CompleteLine, Last
  <2>2. lines' = [lines EXCEPT ![f] = [ls EXCEPT ![n] = ended]]
    BY <1>3 DEF CompleteLine
  <2>0. ls[n] \in TranscriptLine
    BY <2>1, <1>0
  <2>3. /\ Len(lines'[f]) = n /\ lines'[f][n] = ended
        /\ \A k \in 1 .. n : k # n => lines'[f][k] = ls[k]
    <3>1. ended \in TranscriptLine
      BY <2>0 DEF TranscriptLine
    <3>2. lines'[f] = [ls EXCEPT ![n] = ended]
      BY <2>2, <1>0
    <3> HIDE DEF ended
    <3> QED BY <3>1, <3>2, <2>1, <1>0
  <2>4. CASE i # n
    BY <2>4, <2>3, <1>3
  <2>5. CASE i = n
    <3>2. ended.kind = ls[n].kind /\ ended.id = ls[n].id
      BY <2>0 DEF TranscriptLine
    <3>3. ls[n].kind = "user" /\ (Scanned(f) \/ n <= state[f].offset)
      BY <3>2, <2>3, <2>5, <1>3
    <3>4. missed' = missed \cup {Last(ls).id}
      BY <3>3, <2>1, <1>3 DEF CompleteLine
    <3> QED BY <3>2, <3>4, <2>1, <2>3, <2>5, <1>3
  <2> QED BY <2>4, <2>5
<1>4. CASE g = f /\ \E h \in Files : Resume(f, h)
  <2>1. PICK h \in Files : Resume(f, h)
    BY <1>4
  <2>2. ls = <<>> /\ lines' = [lines EXCEPT ![f] = lines[h]]
        /\ missed' = IF Scanned(f) THEN missed \cup IdsOf(lines[h], "user") ELSE missed
    BY <2>1 DEF Resume
  <2>3. state[f].offset = 0 /\ lines'[f] = lines[h]
    BY <2>2, <1>0
  <2>4. Scanned(f)
    BY <2>3, <1>4
  <2>5. HasId(lines[h], Len(lines[h]), "user", lines[h][i].id)
    BY <2>3, <1>4 DEF HasId
  <2>6. lines[h][i].id \in IdsOf(lines[h], "user")
    BY <2>5, <1>0, IdsOfAll
  <2> QED BY <2>2, <2>3, <2>4, <2>6, <1>4
<1> QED BY <1>1, <1>2, <1>3, <1>4 DEF Grow

(* What growth leaves alone. *)
LEMMA GrowthLeaves ==
    ASSUME NEW f \in Files, Grow(f)
    PROVE  /\ UNCHANGED <<clock, runVars, archiveVars, tokenVars>>
           /\ Touch(f) /\ missed \subseteq missed'
<1>1. CASE Say(f)
  BY <1>1 DEF Say
<1>2. CASE CompleteLine(f)
  BY <1>2 DEF CompleteLine
<1>3. CASE \E g \in Files : Resume(f, g)
  BY <1>3 DEF Resume
<1> QED BY <1>1, <1>2, <1>3 DEF Grow

LEMMA LastRecord ==
    ASSUME IngestTypeOK, NEW f \in Files, Records(f) # {}
    PROVE  \E i \in Records(f) : /\ IdAtLast(f, Records(f)) = lines[f][i].id
                                 /\ \A k \in Records(f) : k <= i
<1> DEFINE R == Records(f)
<1>1. R \subseteq 0 .. Len(lines[f]) /\ Len(lines[f]) \in Nat
  BY DEF Records, IngestTypeOK
<1>5. \E i \in R : \A k \in R : k <= i
  BY <1>1, LargestOf
<1> DEFINE last == CHOOSE i \in R : \A k \in R : k <= i
<1>6. last \in R /\ \A k \in R : k <= last
  BY <1>5
<1> QED BY <1>6 DEF IdAtLast

-----------------------------------------------------------------------------
(* Types. *)

LEMMA InitIngestTyped == IngestInit => IngestTypeOK /\ CursorsBehind
<1> SUFFICES ASSUME IngestInit PROVE IngestTypeOK /\ CursorsBehind
  OBVIOUS
<1>1. <<>> \in Seq(TranscriptLine) /\ Len(<<>>) = 0
  OBVIOUS
<1>2. IngestTypeOK
  BY <1>1, BoundsAssumption DEF IngestInit, IngestTypeOK, Unread, None, NoCursors
<1>3. CursorsBehind
  <2>1. \A f \in Files : lines[f] = <<>> /\ mtime[f] = 1 /\ state[f].mtime = 0 /\ state[f].offset = 0
    BY DEF IngestInit, Unread, None
  <2>2. clock = 1 /\ waiting = {} /\ pc = "idle"
    BY DEF IngestInit
  <2> QED BY <1>1, <2>1, <2>2 DEF CursorsBehind, Reading
<1> QED BY <1>2, <1>3

LEMMA IngestTypePreserved ==
    ASSUME IngestTypeOK, CursorsBehind, [IngestNext]_ingestVars
    PROVE  IngestTypeOK'
<1> USE BoundsAssumption
<1>1. ASSUME NEW f \in Files, Grow(f) PROVE IngestTypeOK'
  <2>1. lines' \in [Files -> Seq(TranscriptLine)]
    BY <1>1, GrowthKeepsLines
  <2>2. UNCHANGED <<clock, runVars, archiveVars, tokenVars>> /\ Touch(f)
    BY <1>1, GrowthLeaves
  <2>3. mtime' \in [Files -> 1 .. MaxTicks] /\ tied' \subseteq Files
    BY <2>2 DEF Touch, IngestTypeOK
  <2>4. used' \in 0 .. MaxLines /\ missed' \subseteq Ids
    <3>1. CASE Say(f)
      <4>1. used < MaxLines /\ used' = used + 1 /\ missed' \subseteq missed \cup {used + 1}
        BY <3>1 DEF Say
      <4> QED BY <4>1 DEF IngestTypeOK, Ids
    <3>2. CASE CompleteLine(f)
      <4>1. lines[f] # <<>> /\ used' = used /\ missed' \subseteq missed \cup {Last(lines[f]).id}
        BY <3>2 DEF CompleteLine
      <4>2. Last(lines[f]).id \in Ids
        <5>1. Len(lines[f]) \in DOMAIN lines[f] /\ lines[f] \in Seq(TranscriptLine)
          BY <4>1 DEF IngestTypeOK
        <5> QED BY <5>1, LineTypes DEF Last
      <4> QED BY <4>1, <4>2 DEF IngestTypeOK
    <3>3. CASE \E g \in Files : Resume(f, g)
      <4>1. PICK g \in Files : used' = used /\ missed' \subseteq missed \cup IdsOf(lines[g], "user")
        BY <3>3 DEF Resume
      <4>2. IdsOf(lines[g], "user") \subseteq Ids
        BY IdsAreTyped DEF IngestTypeOK
      <4> QED BY <4>1, <4>2 DEF IngestTypeOK
    <3> QED BY <3>1, <3>2, <3>3, <1>1 DEF Grow
  <2> QED BY <2>1, <2>2, <2>3, <2>4 DEF IngestTypeOK, runVars, archiveVars, tokenVars
<1>2. CASE Tick
  BY <1>2 DEF Tick, IngestTypeOK, runVars, archiveVars, tokenVars, historyVars
<1> USE DEF IngestTypeOK, fileVars, archiveVars, tokenVars, runVars, historyVars, None
<1>3. CASE OpenArchive \/ CloseArchive \/ OpenTokens \/ NothingToScan
  BY <1>3 DEF OpenArchive, CloseArchive, OpenTokens, NothingToScan
<1>4. CASE Extract \/ ExtractFails
  <2>1. fileA \in Files
    BY <1>4 DEF Extract, ExtractFails, CursorsBehind, Reading
  <2>2. /\ lines[fileA] \in Seq(TranscriptLine) /\ state[fileA].offset \in Nat
        /\ Len(lines[fileA]) \in Nat /\ Len(lines[fileA]) <= Len(lines[fileA])
    BY <2>1
  <2>3. ASSUME NEW m \in Nat, NEW n \in Nat, n <= Len(lines[fileA])
        PROVE  IdsOf(SubSeq(lines[fileA], m + 1, n), "user") \subseteq Ids
    <3>1. SubSeq(lines[fileA], m + 1, n) \in Seq(TranscriptLine)
      BY <2>2, <2>3
    <3> QED BY <3>1, IdsAreTyped
  <2>4. CASE Extract
    <3>1. batchA' = IdsOf(SubSeq(lines[fileA], state[fileA].offset + 1, Len(lines[fileA])), "user")
      BY <2>4 DEF Extract, UserIds
    <3>2. batchA' \subseteq Ids
      BY <2>2, <2>3, <3>1
    <3> QED BY <2>4, <3>2 DEF Extract
  <2>5. CASE ExtractFails
    <3>1. PICK n \in state[fileA].offset .. Len(lines[fileA]) :
              /\ batchA' = IdsOf(SubSeq(lines[fileA], state[fileA].offset + 1, n), "user")
              /\ missed' = missed \cup UserIds(n)
      BY <2>5 DEF ExtractFails
    <3>2. n \in Nat /\ n <= Len(lines[fileA]) /\ Len(lines[fileA]) \in Nat
      BY <2>2, <3>1
    <3>3. batchA' \subseteq Ids
      BY <2>2, <2>3, <3>1, <3>2
    <3>4. UserIds(n) \subseteq Ids
      BY <2>2, <2>3, <3>2 DEF UserIds
    <3>5. missed' \subseteq Ids
      BY <3>1, <3>4
    <3>6. crashes' \in 0 .. MaxCrashes
      BY <2>5 DEF ExtractFails, Crash
    <3> QED BY <2>5, <3>3, <3>5, <3>6 DEF ExtractFails
  <2> QED BY <1>4, <2>4, <2>5
<1>5. CASE Insert
  BY <1>5 DEF Insert
<1>6. CASE Count \/ CountFails
  <2>1. fileA \in Files
    BY <1>6 DEF Count, CountFails, CursorsBehind, Reading
  <2>2. /\ [mtime |-> mtimeA, offset |-> Len(lines[fileA])] \in [mtime : Nat, offset : Nat]
        /\ [mtime |-> mtimeA, offset |-> 0] \in [mtime : Nat, offset : Nat]
    BY <2>1
  <2>3. CASE Count
    BY <2>3, <2>2 DEF Count, NextFile
  <2>4. CASE CountFails
    <3>1. crashes' \in 0 .. MaxCrashes
      BY <2>4 DEF CountFails, Crash
    <3> QED BY <2>4, <2>2, <3>1 DEF CountFails, NextFile
  <2> QED BY <1>6, <2>3, <2>4
<1>7. ASSUME NEW f \in Files, SkipFile(f) \/ StatFile(f) \/ StatFails(f) PROVE IngestTypeOK'
  <2>1. CASE SkipFile(f)
    BY <2>1 DEF SkipFile
  <2>2. CASE StatFile(f)
    <3>1. mtime[f] \in Nat
      OBVIOUS
    <3> QED BY <2>2, <3>1 DEF StatFile
  <2>3. CASE StatFails(f)
    BY <2>3 DEF StatFails, Crash
  <2> QED BY <1>7, <2>1, <2>2, <2>3
<1>8. ASSUME NEW f \in Files, Scan(f) PROVE IngestTypeOK'
  <2>1. After(f, progress[f]) \subseteq Ids
    <3>1. \A i \in Records(f) : lines[f][i].id \in Ids
      BY LineTypes DEF Records
    <3> QED BY <3>1 DEF After
  <2>2. IdAtLast(f, Records(f)) \in Ids \cup {None}
    <3>1. CASE Records(f) = {}
      BY <3>1 DEF IdAtLast
    <3>2. CASE Records(f) # {}
      <4>1. PICK i \in Records(f) : IdAtLast(f, Records(f)) = lines[f][i].id
        BY <3>2, LastRecord
      <4> QED BY <4>1, LineTypes DEF Records
    <3> QED BY <3>1, <3>2
  <2>3. recordsT' \subseteq Ids /\ cursorsT' \in [Files -> Ids \cup {None}]
    BY <1>8, <2>1, <2>2 DEF Scan
  <2>4. pc' \in {"flush", "scan"} /\ seenT' \in Nat /\ waiting' \subseteq Files
    BY <1>8 DEF Scan
  <2> QED BY <1>8, <2>3, <2>4 DEF Scan
<1>9. CASE Flush
  <2>1. progress' \in [Files -> Ids \cup {None}] /\ cursorsT' \in [Files -> Ids \cup {None}]
    BY <1>9 DEF Flush, NoCursors
  <2>2. usage' \subseteq Ids /\ recordsT' \subseteq Ids
    BY <1>9 DEF Flush
  <2>3. pc' \in {"idle", "scan"} /\ seenT' \in Nat
    BY <1>9 DEF Flush
  <2> QED BY <1>9, <2>1, <2>2, <2>3 DEF Flush
<1>10. CASE ArchiveDies \/ TokensDie
  <2>1. crashes' \in 0 .. MaxCrashes
    BY <1>10 DEF ArchiveDies, TokensDie, Crash
  <2>2. CASE ArchiveDies
    <3>1. pc' = "idle" \/ pc' = "tokens"
      BY <2>2 DEF ArchiveDies
    <3> QED BY <2>1, <2>2, <3>1 DEF ArchiveDies
  <2>3. CASE TokensDie
    BY <2>1, <2>3 DEF TokensDie, NoCursors
  <2> QED BY <1>10, <2>2, <2>3
<1>11. CASE UNCHANGED ingestVars
  BY <1>11 DEF ingestVars
<1>12. ASSUME NEW f \in Files, ScanFails(f) PROVE IngestTypeOK'
  <2>1. pc' \in {"flush", "scan"} /\ seenT' \in Nat /\ waiting' \subseteq Files
        /\ crashes' \in 0 .. MaxCrashes
    BY <1>12 DEF ScanFails, Crash
  <2> QED BY <1>12, <2>1 DEF ScanFails
<1> QED
  BY <1>1, <1>2, <1>3, <1>4, <1>5, <1>6, <1>7, <1>8, <1>9, <1>10, <1>11, <1>12
  DEF IngestNext, Runner, Grow

(* The cursors stay behind. *)
LEMMA CursorsStayBehind ==
    ASSUME IngestTypeOK, CursorsBehind, [IngestNext]_ingestVars
    PROVE  CursorsBehind'
<1> USE DEF CursorsBehind, Reading
<1>0. /\ \A f \in Files : lines[f] \in Seq(TranscriptLine) /\ mtime[f] \in Nat
                          /\ state[f].mtime \in Nat /\ state[f].offset \in Nat
      /\ clock \in Nat /\ mtimeA \in Nat
  BY BoundsAssumption DEF IngestTypeOK
<1>1. ASSUME NEW f \in Files, Grow(f) PROVE CursorsBehind'
  <2>1. \A g \in Files : Len(lines'[g]) \in Nat /\ Len(lines'[g]) >= Len(lines[g])
                        /\ (g # f => lines'[g] = lines[g])
    BY <1>1, GrowthKeepsLines
  <2>2. lines'[f] # <<>>
    BY <1>1, GrowthKeepsLines
  <2>3. UNCHANGED <<clock, pc, waiting, state, fileA, mtimeA>>
        /\ mtime' = [mtime EXCEPT ![f] = clock]
    BY <1>1, GrowthLeaves DEF Touch, runVars, archiveVars
  <2>4. \A g \in Files : mtime'[g] = IF g = f THEN clock ELSE mtime[g]
    BY <2>3 DEF IngestTypeOK
  <2>5. \A g \in Files : Len(lines[g]) \in Nat
    BY <1>0
  <2> HIDE DEF CursorsBehind, Reading
  <2>6. ASSUME NEW g \in Files
        PROVE  /\ mtime'[g] <= clock' /\ state'[g].mtime <= mtime'[g]
               /\ state'[g].offset <= Len(lines'[g])
               /\ lines'[g] = <<>> => state'[g].mtime = 0 /\ g \notin waiting'
    BY <1>0, <2>1, <2>2, <2>3, <2>4, <2>5 DEF CursorsBehind
  <2>7. Reading' => fileA' \in Files /\ mtimeA' <= mtime'[fileA'] /\ lines'[fileA'] # <<>>
    <3>1. Reading' => Reading
      BY <2>3 DEF Reading
    <3> QED BY <3>1, <1>0, <2>1, <2>2, <2>3, <2>4 DEF CursorsBehind
  <2> QED BY <2>6, <2>7 DEF CursorsBehind
<1>2. CASE Tick
  BY <1>0, <1>2 DEF Tick, runVars, archiveVars
<1> USE DEF fileVars, archiveVars, tokenVars, runVars, historyVars
<1>3. CASE OpenArchive \/ CloseArchive \/ OpenTokens \/ NothingToScan
  BY <1>0, <1>3 DEF OpenArchive, CloseArchive, OpenTokens, NothingToScan
<1>4. CASE Extract \/ ExtractFails \/ Insert
  BY <1>0, <1>4 DEF Extract, ExtractFails, Insert
<1>5. CASE Count \/ CountFails
  <2>1. fileA \in Files /\ mtimeA <= mtime[fileA] /\ pc' = "stat" /\ Len(lines[fileA]) \in Nat
        /\ lines[fileA] # <<>>
    BY <1>0, <1>5 DEF Count, CountFails, NextFile
  <2>2. PICK n \in {0, Len(lines[fileA])} :
            state' = [state EXCEPT ![fileA] = [mtime |-> mtimeA, offset |-> n]]
    BY <1>5 DEF Count, CountFails
  <2>3. UNCHANGED <<lines, mtime, clock, waiting>> /\ n \in Nat /\ n <= Len(lines[fileA])
    BY <1>5, <2>1, <2>2 DEF Count, CountFails
  <2>4. \A g \in Files : /\ g # fileA => state'[g] = state[g]
                        /\ state'[fileA].mtime = mtimeA /\ state'[fileA].offset = n
    BY <2>1, <2>2 DEF IngestTypeOK
  <2> QED BY <1>0, <2>1, <2>3, <2>4
<1>6. ASSUME NEW f \in Files, SkipFile(f) \/ StatFile(f) \/ StatFails(f) PROVE CursorsBehind'
  BY <1>0, <1>6 DEF SkipFile, StatFile, StatFails
<1>7. ASSUME NEW f \in Files, Scan(f) \/ ScanFails(f) PROVE CursorsBehind'
  BY <1>0, <1>7 DEF Scan, ScanFails
<1>8. CASE Flush
  BY <1>0, <1>8 DEF Flush
<1>9. CASE ArchiveDies \/ TokensDie
  BY <1>0, <1>9 DEF ArchiveDies, TokensDie
<1>10. CASE UNCHANGED ingestVars
  BY <1>0, <1>10 DEF ingestVars
<1> QED
  BY <1>1, <1>2, <1>3, <1>4, <1>5, <1>6, <1>7, <1>8, <1>9, <1>10
  DEF IngestNext, Runner, Grow

-----------------------------------------------------------------------------
(* The archive passes over nothing. *)

(* What was scanned is stored or about to be. *)
ScanIsInHand ==
    pc = "insert" => IdsOf(lines[fileA], "user") \subseteq utterances \cup missed \cup batchA

ArchiveKept == UtterancesKept /\ ScanIsInHand

(* The same in terms of lines. *)
KeptInLines ==
    \A f \in Files : \A x :
        HasId(lines[f], state[f].offset, "user", x) => x \in utterances \cup missed

LEMMA KeptMeansLines ==
    ASSUME IngestTypeOK, CursorsBehind
    PROVE  UtterancesKept <=> KeptInLines
<1>1. ASSUME NEW f \in Files, NEW x
      PROVE  x \in IdsOf(SubSeq(lines[f], 1, state[f].offset), "user")
                <=> HasId(lines[f], state[f].offset, "user", x)
  <2>1. lines[f] \in Seq(TranscriptLine) /\ state[f].offset \in 0 .. Len(lines[f])
    BY DEF IngestTypeOK, CursorsBehind
  <2> QED BY <2>1, IdsOfPrefix
<1> QED BY <1>1 DEF UtterancesKept, KeptInLines

LEMMA GrowthKeepsArchive ==
    ASSUME IngestTypeOK, IngestTypeOK', CursorsBehind, CursorsBehind', ArchiveKept,
           NEW f \in Files, Grow(f)
    PROVE  ArchiveKept'
<1>1. UNCHANGED <<pc, fileA, batchA, utterances, state>> /\ missed \subseteq missed'
  BY GrowthLeaves DEF archiveVars, runVars
<1>0. \A g \in Files : lines[g] \in Seq(TranscriptLine) /\ lines'[g] \in Seq(TranscriptLine)
                     /\ state[g].offset \in Nat /\ state[g].offset <= Len(lines[g])
  BY DEF IngestTypeOK, CursorsBehind
<1>2. UtterancesKept'
  <2>1. SUFFICES ASSUME NEW g \in Files, NEW x, HasId(lines'[g], state[g].offset, "user", x)
                 PROVE  x \in utterances \cup missed'
    <3>1. UtterancesKept' <=> KeptInLines'
      BY KeptMeansLines, PTL
    <3> QED BY <3>1, <1>1 DEF KeptInLines
  <2>2. PICK i \in 1 .. state[g].offset :
            lines'[g][i].kind = "user" /\ lines'[g][i].whole /\ lines'[g][i].id = x
    BY <2>1 DEF HasId
  <2>3. i \in 1 .. Len(lines'[g])
    <3>1. Len(lines'[g]) >= Len(lines[g])
      BY GrowthKeepsLines
    <3> QED BY <3>1, <2>2, <1>0
  <2>4. CASE lines'[g][i] = lines[g][i]
    <3>1. HasId(lines[g], state[g].offset, "user", x)
      BY <2>2, <2>4 DEF HasId
    <3> QED BY <3>1, <1>1, KeptMeansLines DEF ArchiveKept, KeptInLines
  <2>5. CASE lines'[g][i] # lines[g][i]
    BY <2>2, <2>3, <2>5, <1>0, GrowthIsNoted
  <2> QED BY <2>4, <2>5
<1>3. ScanIsInHand'
  <2>1. SUFFICES ASSUME pc = "insert", NEW x \in IdsOf(lines'[fileA], "user")
                 PROVE  x \in utterances \cup missed' \cup batchA
    BY <1>1 DEF ScanIsInHand
  <2>2. fileA \in Files
    BY <2>1 DEF CursorsBehind, Reading
  <2>3. HasId(lines'[fileA], Len(lines'[fileA]), "user", x)
    BY <2>1, <2>2, <1>0, IdsOfAll
  <2>4. PICK i \in 1 .. Len(lines'[fileA]) :
            lines'[fileA][i].kind = "user" /\ lines'[fileA][i].whole /\ lines'[fileA][i].id = x
    BY <2>3 DEF HasId
  <2>5. CASE i \in 1 .. Len(lines[fileA]) /\ lines'[fileA][i] = lines[fileA][i]
    <3>1. HasId(lines[fileA], Len(lines[fileA]), "user", x)
      BY <2>4, <2>5 DEF HasId
    <3>2. x \in IdsOf(lines[fileA], "user")
      BY <3>1, <2>2, <1>0, IdsOfAll
    <3> QED BY <3>2, <2>1, <1>1 DEF ArchiveKept, ScanIsInHand
  <2>6. CASE ~(i \in 1 .. Len(lines[fileA]) /\ lines'[fileA][i] = lines[fileA][i])
    <3>1. Scanned(fileA)
      BY <2>1 DEF Scanned
    <3> QED BY <3>1, <2>2, <2>4, <2>6, GrowthIsNoted
  <2> QED BY <2>5, <2>6
<1> QED BY <1>2, <1>3 DEF ArchiveKept

LEMMA ArchiveStaysKept ==
    ASSUME IngestTypeOK, IngestTypeOK', CursorsBehind, CursorsBehind', ArchiveKept,
           [IngestNext]_ingestVars
    PROVE  ArchiveKept'
<1> USE DEF fileVars, archiveVars, tokenVars, runVars, historyVars
<1>0. \A g \in Files : lines[g] \in Seq(TranscriptLine) /\ Len(lines[g]) \in Nat
                     /\ state[g].offset \in 0 .. Len(lines[g])
  BY DEF IngestTypeOK, CursorsBehind
<1>1. ASSUME NEW f \in Files, Grow(f) PROVE ArchiveKept'
  BY <1>1, GrowthKeepsArchive
<1>2. CASE Extract \/ ExtractFails
  <2> DEFINE ls == lines[fileA]
             n == state[fileA].offset
  <2>1. fileA \in Files /\ UNCHANGED <<lines, state, utterances, fileA>>
    BY <1>2 DEF Extract, ExtractFails, CursorsBehind, Reading
  <2>2. ls \in Seq(TranscriptLine) /\ n \in 0 .. Len(ls) /\ Len(ls) \in 0 .. Len(ls)
        /\ n \in Nat /\ Len(ls) \in n .. Len(ls)
    BY <2>1, <1>0
  <2>3. \A x : HasId(ls, n, "user", x) => x \in utterances \cup missed
    BY <2>1, KeptMeansLines DEF ArchiveKept, KeptInLines
  <2>4. PICK m \in n .. Len(ls) :
            /\ batchA' = IdsOf(SubSeq(ls, n + 1, m), "user")
            /\ missed \subseteq missed'
            /\ m # Len(ls) => missed' = missed \cup IdsOf(SubSeq(ls, m + 1, Len(ls)), "user")
    BY <1>2, <2>2 DEF Extract, ExtractFails, UserIds
  <2>5. ASSUME NEW x \in IdsOf(ls, "user") PROVE x \in utterances \cup missed' \cup batchA'
    <3> HIDE DEF ls, n
    <3>1. HasId(ls, Len(ls), "user", x)
      BY <2>2, <2>5, IdsOfAll
    <3>2. m \in 0 .. Len(ls) /\ n \in 0 .. m
      BY <2>2, <2>4
    <3>3. HasId(ls, m, "user", x) \/ x \in IdsOf(SubSeq(ls, m + 1, Len(ls)), "user")
      BY <3>1, <3>2, <2>2, IdsOfRest
    <3>4. HasId(ls, m, "user", x) => HasId(ls, n, "user", x) \/ x \in batchA'
      BY <3>2, <2>2, <2>4, IdsOfRest
    <3>5. HasId(ls, m, "user", x) \/ m # Len(ls)
      BY <3>1
    <3> QED BY <3>3, <3>4, <3>5, <2>3, <2>4
  <2> QED BY <2>1, <2>4, <2>5 DEF ArchiveKept, ScanIsInHand, UtterancesKept
<1>3. CASE Insert
  <2>1. PICK i \in batchA : utterances' = utterances \cup {i} /\ batchA' = batchA \ {i}
    BY <1>3 DEF Insert
  <2>2. UNCHANGED <<lines, state, missed, pc, fileA>>
    BY <1>3 DEF Insert
  <2> QED BY <2>1, <2>2 DEF ArchiveKept, ScanIsInHand, UtterancesKept
<1>4. CASE Count
  <2> DEFINE ls == lines[fileA]
  <2>1. pc = "insert" /\ fileA \in Files /\ batchA = {} /\ pc' = "stat"
        /\ UNCHANGED <<lines, utterances, missed>>
        /\ state' = [state EXCEPT ![fileA] = [mtime |-> mtimeA, offset |-> Len(ls)]]
    BY <1>4 DEF Count, NextFile, CursorsBehind, Reading
  <2>2. \A g \in Files : IF g = fileA THEN state'[g].offset = Len(ls) ELSE state'[g] = state[g]
    BY <2>1 DEF IngestTypeOK
  <2>3. SubSeq(ls, 1, Len(ls)) = ls
    BY <2>1, <1>0
  <2>4. IdsOf(ls, "user") \subseteq utterances \cup missed
    BY <2>1 DEF ArchiveKept, ScanIsInHand
  <2>5. ASSUME NEW g \in Files
        PROVE  IdsOf(SubSeq(lines[g], 1, state'[g].offset), "user") \subseteq utterances \cup missed
    BY <2>2, <2>3, <2>4 DEF ArchiveKept, UtterancesKept
  <2> QED BY <2>1, <2>5 DEF ArchiveKept, ScanIsInHand, UtterancesKept
<1>5. CASE CountFails
  <2>1. fileA \in Files /\ pc' = "stat" /\ UNCHANGED <<lines, utterances, missed>>
        /\ state' = [state EXCEPT ![fileA] = [mtime |-> mtimeA, offset |-> 0]]
    BY <1>5 DEF CountFails, NextFile, CursorsBehind, Reading
  <2>2. \A g \in Files : IF g = fileA THEN state'[g].offset = 0 ELSE state'[g] = state[g]
    BY <2>1 DEF IngestTypeOK
  <2>3. ASSUME NEW g \in Files, NEW x, HasId(lines'[g], state'[g].offset, "user", x)
        PROVE  x \in utterances' \cup missed'
    <3>1. g # fileA
      BY <2>2, <2>3 DEF HasId
    <3> QED BY <2>1, <2>2, <2>3, <3>1, KeptMeansLines DEF ArchiveKept, KeptInLines
  <2>4. UtterancesKept' <=> KeptInLines'
    BY KeptMeansLines, PTL
  <2> QED BY <2>1, <2>3, <2>4 DEF ArchiveKept, ScanIsInHand, KeptInLines
<1>6. ASSUME ~\E f \in Files : Grow(f), ~Extract, ~ExtractFails, ~Insert, ~Count, ~CountFails
      PROVE  /\ UNCHANGED <<lines, state, missed, utterances>>
             /\ pc' # "insert" \/ UNCHANGED <<pc, fileA, batchA>>
  <2>1. CASE Tick \/ ArchiveDies \/ TokensDie \/ UNCHANGED ingestVars
    BY <2>1 DEF Tick, ArchiveDies, TokensDie, ingestVars
  <2>2. CASE OpenArchive \/ CloseArchive \/ OpenTokens \/ NothingToScan \/ Flush
    BY <2>2 DEF OpenArchive, CloseArchive, OpenTokens, NothingToScan, Flush
  <2>3. ASSUME NEW f \in Files,
               SkipFile(f) \/ StatFile(f) \/ StatFails(f) \/ Scan(f) \/ ScanFails(f)
        PROVE  /\ UNCHANGED <<lines, state, missed, utterances>>
               /\ pc' # "insert" \/ UNCHANGED <<pc, fileA, batchA>>
    BY <2>3 DEF SkipFile, StatFile, StatFails, Scan, ScanFails
  <2> QED BY <1>6, <2>1, <2>2, <2>3 DEF IngestNext, Runner, Grow
<1> QED
  BY <1>1, <1>2, <1>3, <1>4, <1>5, <1>6 DEF ArchiveKept, ScanIsInHand, UtterancesKept

-----------------------------------------------------------------------------
(* Growth is seen: what grows has a new time, and what was counted has been  *)
(* scanned.                                                                  *)

LEMMA GrowthStaysSeen ==
    ASSUME IngestTypeOK, CursorsBehind, ScanIsInHand, GrowthIsSeen, [IngestNext]_ingestVars
    PROVE  GrowthIsSeen'
<1>0. /\ \A f \in Files : /\ mtime[f] \in Nat /\ state[f].mtime \in Nat
                          /\ mtime[f] <= clock /\ state[f].mtime <= mtime[f]
      /\ clock \in Nat \ {0}
  BY BoundsAssumption DEF IngestTypeOK, CursorsBehind
<1>1. ASSUME NEW f \in Files, Grow(f) PROVE GrowthIsSeen'
  <2>1. UNCHANGED <<clock, state, utterances>> /\ mtime' = [mtime EXCEPT ![f] = clock]
        /\ tied' = (IF mtime[f] = clock /\ lines[f] # <<>> THEN tied \cup {f} ELSE tied)
        /\ missed \subseteq missed'
    BY <1>1, GrowthLeaves DEF Touch, archiveVars
  <2>2. \A g \in Files : mtime'[g] = IF g = f THEN clock ELSE mtime[g]
    BY <2>1 DEF IngestTypeOK
  <2>3. mtime'[f] > state'[f].mtime \/ f \in tied'
    <3>1. CASE lines[f] = <<>>
      <4>1. state[f].mtime = 0
        BY <3>1 DEF CursorsBehind
      <4> QED BY <4>1, <2>1, <2>2, <1>0
    <3>2. CASE lines[f] # <<>> /\ mtime[f] = clock
      BY <2>1, <3>2
    <3>3. CASE mtime[f] # clock
      BY <2>1, <2>2, <3>3, <1>0
    <3> QED BY <3>1, <3>2, <3>3
  <2>4. ASSUME NEW g \in Files, g # f
        PROVE  \/ IdsOf(lines'[g], "user") \subseteq utterances' \cup missed'
               \/ mtime'[g] > state'[g].mtime \/ g \in tied'
    <3>1. lines'[g] = lines[g]
      BY <1>1, <2>4, GrowthKeepsLines
    <3> QED BY <3>1, <2>1, <2>2, <2>4 DEF GrowthIsSeen
  <2> QED BY <2>3, <2>4 DEF GrowthIsSeen
<1>2. CASE Count \/ CountFails
  <2>1. fileA \in Files /\ batchA = {} /\ UNCHANGED <<lines, mtime, tied, utterances, missed>>
    BY <1>2 DEF Count, CountFails, CursorsBehind, Reading, fileVars, historyVars
  <2>2. IdsOf(lines[fileA], "user") \subseteq utterances \cup missed
    BY <1>2, <2>1 DEF Count, CountFails, ScanIsInHand
  <2>3. \A g \in Files : g # fileA => state'[g] = state[g]
    BY <1>2, <2>1 DEF Count, CountFails, IngestTypeOK
  <2> QED BY <2>1, <2>2, <2>3 DEF GrowthIsSeen
<1>3. ASSUME ~\E f \in Files : Grow(f), ~Count, ~CountFails
      PROVE  /\ UNCHANGED <<lines, mtime, state, tied>>
             /\ utterances \subseteq utterances' /\ missed \subseteq missed'
  <2> USE DEF fileVars, archiveVars, tokenVars, runVars, historyVars
  <2>1. CASE Tick \/ ArchiveDies \/ TokensDie \/ UNCHANGED ingestVars
    BY <2>1 DEF Tick, ArchiveDies, TokensDie, ingestVars
  <2>2. CASE OpenArchive \/ Extract \/ ExtractFails \/ Insert \/ CloseArchive
    BY <2>2 DEF OpenArchive, Extract, ExtractFails, Insert, CloseArchive
  <2>3. CASE OpenTokens \/ NothingToScan \/ Flush
    BY <2>3 DEF OpenTokens, NothingToScan, Flush
  <2>4. ASSUME NEW f \in Files,
               SkipFile(f) \/ StatFile(f) \/ StatFails(f) \/ Scan(f) \/ ScanFails(f)
        PROVE  UNCHANGED <<lines, mtime, state, tied, utterances, missed>>
    BY <2>4 DEF SkipFile, StatFile, StatFails, Scan, ScanFails
  <2> QED BY <1>3, <2>1, <2>2, <2>3, <2>4 DEF IngestNext, Runner, Grow
<1>4. CASE ~(\E f \in Files : Grow(f)) /\ ~Count /\ ~CountFails
  BY <1>3, <1>4 DEF GrowthIsSeen
<1> QED BY <1>1, <1>2, <1>4

-----------------------------------------------------------------------------
(* The records up to a cursor are in the database. *)

RecordLine(l) == l.kind = "assistant" /\ l.whole

(* Some record of a transcript has this id, and those up to it are in S.  It *)
(* is whole, so that what is before it does not change.                      *)
Covered(ls, id, S) ==
    \E i \in 1 .. Len(ls) :
        /\ RecordLine(ls[i]) /\ ls[i].id = id
        /\ \A k \in 1 .. i : RecordLine(ls[k]) => ls[k].id \in S

UsageCovered ==
    \A f \in Files :
        /\ progress[f] # None => Covered(lines[f], progress[f], usage)
        /\ cursorsT[f] # None => Covered(lines[f], cursorsT[f], usage \cup recordsT)

LEMMA CoveredIsComplete == IngestTypeOK /\ UsageCovered => UsageComplete
<1> SUFFICES ASSUME IngestTypeOK, UsageCovered, NEW f \in Files, progress[f] # None
             PROVE  \E i \in DOMAIN lines[f] :
                        /\ lines[f][i].id = progress[f]
                        /\ IdsOf(SubSeq(lines[f], 1, i), "assistant") \subseteq usage
  BY DEF UsageComplete
<1>1. PICK i \in 1 .. Len(lines[f]) :
          /\ lines[f][i].id = progress[f]
          /\ \A k \in 1 .. i : RecordLine(lines[f][k]) => lines[f][k].id \in usage
  BY DEF UsageCovered, Covered
<1>2. lines[f] \in Seq(TranscriptLine) /\ i \in DOMAIN lines[f] /\ i \in 0 .. Len(lines[f])
  BY DEF IngestTypeOK
<1>3. ASSUME NEW x \in IdsOf(SubSeq(lines[f], 1, i), "assistant") PROVE x \in usage
  <2>1. HasId(lines[f], i, "assistant", x)
    BY <1>2, <1>3, IdsOfPrefix
  <2> QED BY <2>1, <1>1 DEF HasId, RecordLine
<1> QED BY <1>1, <1>2, <1>3

LEMMA GrowthKeepsCover ==
    ASSUME IngestTypeOK, NEW f \in Files, Grow(f), NEW g \in Files, NEW id, NEW S,
           Covered(lines[g], id, S)
    PROVE  Covered(lines'[g], id, S)
<1>0. Len(lines[g]) \in Nat /\ Len(lines'[g]) \in Nat /\ Len(lines'[g]) >= Len(lines[g])
  BY GrowthKeepsLines DEF IngestTypeOK
<1>1. PICK i \in 1 .. Len(lines[g]) :
          /\ RecordLine(lines[g][i]) /\ lines[g][i].id = id
          /\ \A k \in 1 .. i : RecordLine(lines[g][k]) => lines[g][k].id \in S
  BY DEF Covered
<1>2. \A k \in 1 .. i : lines'[g][k] = lines[g][k]
  BY <1>1, GrowthKeepsLines DEF RecordLine
<1>3. i \in 1 .. i /\ i \in 1 .. Len(lines'[g])
  BY <1>0
<1> QED BY <1>1, <1>2, <1>3 DEF Covered

LEMMA CoverGrows ==
    ASSUME NEW ls, NEW id, NEW S, NEW T, S \subseteq T, Covered(ls, id, S)
    PROVE  Covered(ls, id, T)
BY DEF Covered

(* A scan from a covered cursor leaves nothing out. *)
LEMMA ScanCovers ==
    ASSUME IngestTypeOK, UsageCovered, NEW f \in Files, Records(f) # {}
    PROVE  Covered(lines[f], IdAtLast(f, Records(f)), usage \cup After(f, progress[f]))
<1> DEFINE ls == lines[f]
<1>1. \A i : i \in Records(f) <=> i \in 1 .. Len(ls) /\ RecordLine(ls[i])
  BY DEF IngestTypeOK, Records, RecordLine
<1>2. PICK i \in Records(f) : /\ IdAtLast(f, Records(f)) = ls[i].id
                             /\ \A k \in Records(f) : k <= i
  BY LastRecord
<1>3. ASSUME NEW k \in Records(f) PROVE ls[k].id \in usage \cup After(f, progress[f])
  <2>1. CASE \A c \in Records(f) : ls[c].id # progress[f]
    BY <2>1 DEF After
  <2>2. CASE \E c \in Records(f) : c < k /\ ls[c].id = progress[f]
    BY <2>2 DEF After
  <2>3. CASE (\E c \in Records(f) : ls[c].id = progress[f])
             /\ \A c \in Records(f) : ls[c].id = progress[f] => ~(c < k)
    <3>1. PICK c \in Records(f) : ls[c].id = progress[f]
      BY <2>3
    <3>2. progress[f] # None
      <4>1. ls[c].id \in Ids
        BY LineTypes DEF IngestTypeOK, Records
      <4> QED BY <4>1, <3>1 DEF Ids, None
    <3>3. PICK j \in 1 .. Len(ls) :
              /\ RecordLine(ls[j]) /\ ls[j].id = progress[f]
              /\ \A m \in 1 .. j : RecordLine(ls[m]) => ls[m].id \in usage
      BY <3>2 DEF UsageCovered, Covered
    <3>4. j \in Records(f) /\ k \in 1 .. Len(ls) /\ RecordLine(ls[k])
      BY <1>1, <3>3
    <3>5. ~(j < k)
      BY <2>3, <3>3, <3>4
    <3>6. k \in 1 .. j
      BY <3>4, <3>5
    <3> QED BY <3>3, <3>4, <3>6
  <2> QED BY <2>1, <2>2, <2>3
<1>4. i \in 1 .. Len(ls) /\ RecordLine(ls[i]) /\ Len(ls) \in Nat
  BY <1>1 DEF IngestTypeOK
<1>5. ASSUME NEW k \in 1 .. i, RecordLine(ls[k]) PROVE ls[k].id \in usage \cup After(f, progress[f])
  <2>1. k \in Records(f)
    BY <1>1, <1>4, <1>5
  <2> QED BY <2>1, <1>3
<1> QED BY <1>2, <1>4, <1>5 DEF Covered

LEMMA UsageStaysCovered ==
    ASSUME IngestTypeOK, UsageCovered, [IngestNext]_ingestVars
    PROVE  UsageCovered'
<1> USE DEF fileVars, archiveVars, tokenVars, runVars, historyVars
<1>1. ASSUME NEW f \in Files, Grow(f) PROVE UsageCovered'
  <2>1. UNCHANGED <<usage, progress, recordsT, cursorsT>>
    BY <1>1, GrowthLeaves
  <2>2. \A g \in Files : \A id : \A S : Covered(lines[g], id, S) => Covered(lines'[g], id, S)
    BY <1>1, GrowthKeepsCover
  <2> QED BY <2>1, <2>2 DEF UsageCovered
<1>2. ASSUME NEW f \in Files, Scan(f) PROVE UsageCovered'
  <2>1. /\ UNCHANGED <<lines, usage, progress>>
        /\ recordsT' = recordsT \cup After(f, progress[f])
        /\ cursorsT' = [cursorsT EXCEPT ![f] = IdAtLast(f, Records(f))]
    BY <1>2 DEF Scan
  <2>2. SUFFICES ASSUME NEW g \in Files, cursorsT'[g] # None
                 PROVE  Covered(lines[g], cursorsT'[g], usage \cup recordsT')
    BY <2>1 DEF UsageCovered
  <2>3. CASE g = f
    <3>1. cursorsT'[g] = IdAtLast(f, Records(f))
      BY <2>1, <2>3 DEF IngestTypeOK
    <3>2. Records(f) # {}
      BY <2>2, <3>1 DEF IdAtLast
    <3>3. Covered(lines[f], IdAtLast(f, Records(f)), usage \cup After(f, progress[f]))
      BY <3>2, ScanCovers
    <3>4. usage \cup After(f, progress[f]) \subseteq usage \cup recordsT'
      BY <2>1
    <3> QED BY <3>1, <3>3, <3>4, <2>3, CoverGrows
  <2>4. CASE g # f
    <3>1. cursorsT'[g] = cursorsT[g]
      BY <2>1, <2>4 DEF IngestTypeOK
    <3>2. Covered(lines[g], cursorsT[g], usage \cup recordsT)
      BY <2>2, <3>1 DEF UsageCovered
    <3>3. usage \cup recordsT \subseteq usage \cup recordsT'
      BY <2>1
    <3> QED BY <3>1, <3>2, <3>3, CoverGrows
  <2> QED BY <2>3, <2>4
<1>3. CASE Flush
  <2>1. /\ lines' = lines /\ usage' = usage \cup recordsT /\ cursorsT' = NoCursors
        /\ progress' = [f \in Files |-> IF cursorsT[f] = None THEN progress[f] ELSE cursorsT[f]]
    BY <1>3 DEF Flush
  <2>2. SUFFICES ASSUME NEW g \in Files, progress'[g] # None
                 PROVE  Covered(lines[g], progress'[g], usage \cup recordsT)
    BY <2>1 DEF UsageCovered, NoCursors
  <2>3. CASE cursorsT[g] = None
    <3>1. progress'[g] = progress[g]
      BY <2>1, <2>3
    <3>2. Covered(lines[g], progress[g], usage)
      BY <2>2, <3>1 DEF UsageCovered
    <3> QED BY <3>1, <3>2, CoverGrows
  <2>4. CASE cursorsT[g] # None
    BY <2>1, <2>4 DEF UsageCovered
  <2> QED BY <2>3, <2>4
<1>4. CASE TokensDie
  BY <1>4 DEF TokensDie, UsageCovered, NoCursors
<1>5. ASSUME ~\E f \in Files : Grow(f) \/ Scan(f), ~Flush, ~TokensDie
      PROVE  UNCHANGED <<lines, usage, progress, recordsT, cursorsT>>
  <2>1. CASE Tick \/ ArchiveDies \/ UNCHANGED ingestVars
    BY <2>1 DEF Tick, ArchiveDies, ingestVars
  <2>2. CASE OpenArchive \/ Extract \/ Insert \/ Count \/ CloseArchive
    BY <2>2 DEF OpenArchive, Extract, Insert, Count, CloseArchive
  <2>3. CASE OpenTokens \/ NothingToScan \/ ExtractFails \/ CountFails
    BY <2>3 DEF OpenTokens, NothingToScan, ExtractFails, CountFails
  <2>4. ASSUME NEW f \in Files, SkipFile(f) \/ StatFile(f) \/ StatFails(f) \/ ScanFails(f)
        PROVE  UNCHANGED <<lines, usage, progress, recordsT, cursorsT>>
    BY <2>4 DEF SkipFile, StatFile, StatFails, ScanFails
  <2> QED BY <1>5, <2>1, <2>2, <2>3, <2>4 DEF IngestNext, Runner, Grow
<1> QED BY <1>1, <1>2, <1>3, <1>4, <1>5 DEF UsageCovered

-----------------------------------------------------------------------------
IngestInv ==
    /\ IngestTypeOK /\ CursorsBehind
    /\ GrowthIsSeen /\ ArchiveKept /\ UsageCovered

LEMMA IngestInvHolds == IngestSpec => []IngestInv
<1>1. IngestInit => IngestInv
  <2> SUFFICES ASSUME IngestInit PROVE GrowthIsSeen /\ ArchiveKept /\ UsageCovered
    BY InitIngestTyped DEF IngestInv
  <2>1. \A f \in Files : lines[f] = <<>> /\ state[f].offset = 0 /\ progress[f] = None /\ cursorsT[f] = None
    BY DEF IngestInit, Unread, NoCursors
  <2>2. Len(<<>>) = 0 /\ \A kind, x : ~HasId(<<>>, 0, kind, x)
    BY DEF HasId
  <2>3. KeptInLines
    BY <2>1, <2>2 DEF KeptInLines
  <2>4. UtterancesKept /\ pc # "insert"
    BY <2>3, InitIngestTyped, KeptMeansLines DEF IngestInit
  <2>5. GrowthIsSeen
    <3>1. IdsOf(<<>>, "user") = {}
      BY DEF IdsOf, ToSet
    <3> QED BY <2>1, <3>1 DEF GrowthIsSeen
  <2> QED BY <2>1, <2>4, <2>5 DEF ArchiveKept, ScanIsInHand, UsageCovered
<1>2. IngestInv /\ [IngestNext]_ingestVars => IngestInv'
  <2> SUFFICES ASSUME IngestInv, [IngestNext]_ingestVars PROVE IngestInv'
    OBVIOUS
  <2>1. IngestTypeOK' /\ CursorsBehind'
    BY IngestTypePreserved, CursorsStayBehind DEF IngestInv
  <2>2. GrowthIsSeen'
    BY GrowthStaysSeen DEF IngestInv, ArchiveKept
  <2>3. ArchiveKept'
    BY <2>1, ArchiveStaysKept DEF IngestInv
  <2>4. UsageCovered'
    BY UsageStaysCovered DEF IngestInv
  <2> QED BY <2>1, <2>2, <2>3, <2>4 DEF IngestInv
<1> QED BY <1>1, <1>2, PTL DEF IngestSpec

(* Types of the transcripts and of both ingests' cursors. *)
THEOREM IngestTypeCorrect == IngestSpec => []IngestTypeOK
<1>1. IngestInv => IngestTypeOK
  BY DEF IngestInv
<1> QED BY <1>1, IngestInvHolds, PTL

(* The archive's cursor passes over no utterance that was whole when its    *)
(* file was scanned, wherever a run is cut short (ingest_pj_dir), except for*)
(* those behind a read that failed.                                         *)
THEOREM NoUtterancePassedOver == IngestSpec => []UtterancesKept
<1>1. IngestInv => UtterancesKept
  BY DEF IngestInv, ArchiveKept
<1> QED BY <1>1, IngestInvHolds, PTL

(* A file with utterances that were not passed over and are not stored is   *)
(* looked at by the next run (the fast path of ingest_pj_dir), also after a *)
(* count that failed, but for growth within one tick.                       *)
THEOREM NoGrowthUnseen == IngestSpec => []GrowthIsSeen
<1>1. IngestInv => GrowthIsSeen
  BY DEF IngestInv
<1> QED BY <1>1, IngestInvHolds, PTL

(* Every record up to a cursor of session_progress is in token_usage.db     *)
(* (_scan_jsonl and _flush).                                                *)
THEOREM CursorsAreCovered == IngestSpec => []UsageComplete
<1>1. IngestInv => UsageComplete
  BY CoveredIsComplete DEF IngestInv
<1> QED BY <1>1, IngestInvHolds, PTL

-----------------------------------------------------------------------------
(***************************************************************************)
(* The judgement of utterances (SemanticJudge).                            *)
(***************************************************************************)

(* A set that is counted by 0 .. c - 1 has n members counted below n. *)
LEMMA CountedBelow ==
    ASSUME NEW S, IsFiniteSet(S), NEW f \in Injection(S, 0 .. Cardinality(S) - 1),
           NEW n \in 0 .. Cardinality(S)
    PROVE  Cardinality({u \in S : f[u] < n}) = n
<1> DEFINE c == Cardinality(S)
           N == {u \in S : f[u] < n}
           g == [u \in N |-> f[u]]
<1>0. c \in Nat
  BY FS_CardinalityType
<1>1. IsFiniteSet(0 .. c - 1) /\ Cardinality(0 .. c - 1) = c
        /\ IsFiniteSet(0 .. n - 1) /\ Cardinality(0 .. n - 1) = n
  <2>1. c - 1 \in Int /\ n - 1 \in Int /\ 0 \in Int /\ n \in Nat
    BY <1>0
  <2> HIDE DEF c
  <2>2. IsFiniteSet(0 .. c - 1) /\ Cardinality(0 .. c - 1) = IF 0 > c - 1 THEN 0 ELSE c - 1 - 0 + 1
    BY <2>1, FS_Interval
  <2>3. IsFiniteSet(0 .. n - 1) /\ Cardinality(0 .. n - 1) = IF 0 > n - 1 THEN 0 ELSE n - 1 - 0 + 1
    BY <2>1, FS_Interval
  <2> QED BY <2>1, <2>2, <2>3, <1>0
<1>2. f \in Surjection(S, 0 .. c - 1)
  BY <1>1, FS_Injection
<1>3. f \in [S -> 0 .. c - 1] /\ (\A a, b \in S : f[a] = f[b] => a = b)
        /\ \A t \in 0 .. c - 1 : \E s \in S : f[s] = t
  BY <1>2 DEF Injection, Surjection, IsInjective
<1>4. g \in Bijection(N, 0 .. n - 1)
  <2> HIDE DEF c
  <2>1. g \in [N -> 0 .. n - 1]
    BY <1>0, <1>3
  <2>2. \A a, b \in DOMAIN g : g[a] = g[b] => a = b
    BY <1>3
  <2>3. \A t \in 0 .. n - 1 : \E s \in N : g[s] = t
    <3> TAKE t \in 0 .. n - 1
    <3>1. t \in 0 .. c - 1 /\ t < n
      BY <1>0 DEF c
    <3>2. PICK s \in S : f[s] = t
      BY <3>1, <1>3
    <3>3. s \in N
      BY <3>1, <3>2
    <3> QED BY <3>2, <3>3
  <2> QED BY <2>1, <2>2, <2>3 DEF Bijection, Injection, Surjection, IsInjective
<1>5. IsFiniteSet(N)
  BY FS_Subset
<1> HIDE DEF N, g, c
<1>6. ExistsBijection(N, 0 .. n - 1)
  BY <1>4 DEF ExistsBijection
<1>7. Cardinality(0 .. n - 1) = Cardinality(N)
  BY <1>5, <1>6, FS_Bijection
<1> QED BY <1>1, <1>7 DEF N

(* Newest takes as many as it is asked for, if there are as many. *)
LEMMA NewestSize ==
    ASSUME NEW S, IsFiniteSet(S), S \subseteq Nat, NEW n \in Nat
    PROVE  /\ Newest(S, n) \subseteq S
           /\ Cardinality(Newest(S, n)) = IF n <= Cardinality(S) THEN n ELSE Cardinality(S)
<1> DEFINE c == Cardinality(S)
           Above(u) == {v \in S : v > u}
           rank == [u \in S |-> Cardinality(Above(u))]
<1>0. c \in Nat
  BY FS_CardinalityType
<1>1. ASSUME NEW u \in S PROVE IsFiniteSet(Above(u)) /\ Cardinality(Above(u)) \in 0 .. c - 1
  <2>1. IsFiniteSet(S \ {u}) /\ Cardinality(S \ {u}) = c - 1
    BY FS_RemoveElement
  <2>2. Above(u) \in SUBSET (S \ {u})
    OBVIOUS
  <2>3. IsFiniteSet(Above(u)) /\ Cardinality(Above(u)) <= c - 1
    <3> HIDE DEF Above
    <3> QED BY <2>1, <2>2, FS_Subset
  <2>4. Cardinality(Above(u)) \in Nat
    BY <2>3, FS_CardinalityType
  <2> QED BY <2>3, <2>4, <1>0
<1>2. ASSUME NEW u \in S, NEW w \in S, u < w PROVE Cardinality(Above(u)) # Cardinality(Above(w))
  <2>1. Above(w) \in SUBSET Above(u) /\ w \in Above(u) /\ w \notin Above(w)
    <3>1. u \in Nat /\ w \in Nat /\ \A v \in S : v \in Nat
      OBVIOUS
    <3>2. \A v \in S : v > w => v > u
      BY <1>2, <3>1
    <3>3. Above(w) \subseteq Above(u)
      BY <3>2, Zenon
    <3>4. w > u /\ ~(w > w)
      BY <1>2, <3>1
    <3>5. w \in Above(u) /\ w \notin Above(w)
      BY <3>4, Zenon
    <3> QED BY <3>3, <3>5
  <2>2. IsFiniteSet(Above(u))
    BY <1>1
  <2> HIDE DEF Above
  <2> QED BY <2>1, <2>2, FS_Subset
<1>3. rank \in Injection(S, 0 .. c - 1)
  <2>1. rank \in [S -> 0 .. c - 1]
    BY <1>1
  <2>2. ASSUME NEW u \in S, NEW w \in S, rank[u] = rank[w] PROVE u = w
    <3>1. u \in Nat /\ w \in Nat
      OBVIOUS
    <3>2. ~(u < w) /\ ~(w < u)
      BY <1>2, <2>2
    <3> QED BY <3>1, <3>2
  <2> HIDE DEF rank
  <2> QED BY <2>1, <2>2 DEF Injection, IsInjective
<1>4. Newest(S, n) = {u \in S : rank[u] < n}
  BY DEF Newest
<1>5. CASE n <= c
  <2>1. n \in 0 .. c
    BY <1>5, <1>0
  <2> HIDE DEF rank, c
  <2>2. Cardinality({u \in S : rank[u] < n}) = n
    BY <2>1, <1>3, CountedBelow DEF c
  <2> QED BY <2>2, <1>4, <1>5 DEF c
<1>6. CASE ~(n <= c)
  <2>1. \A u \in S : rank[u] < n
    BY <1>0, <1>1, <1>6
  <2>2. Newest(S, n) = S
    BY <2>1, <1>4
  <2> QED BY <2>2, <1>6
<1> QED BY <1>4, <1>5, <1>6

(* A batch is no larger than BatchSize: places differ, and those in one      *)
(* batch are within BatchSize of each other.                                 *)
LEMMA BatchIsSmall ==
    ASSUME NEW S, IsFiniteSet(S), S \subseteq Nat, NEW h \in S
    PROVE  BatchOf(S, h) \subseteq S /\ Cardinality(BatchOf(S, h)) \in 0 .. BatchSize
<1> DEFINE Below(u) == {v \in S : v < u}
           T == BatchOf(S, h)
           q == Place(S, h) \div BatchSize
           from == BatchSize * q
           place == [u \in T |-> Place(S, u)]
<1>0. BatchSize \in Nat \ {0} /\ T \subseteq S /\ IsFiniteSet(T)
  BY JudgeAssumption, FS_Subset DEF BatchOf
<1>1. ASSUME NEW u \in S PROVE IsFiniteSet(Below(u)) /\ Place(S, u) \in Nat
  <2>1. Below(u) \in SUBSET S
    OBVIOUS
  <2>2. IsFiniteSet(Below(u))
    <3> HIDE DEF Below
    <3> QED BY <2>1, FS_Subset
  <2> QED BY <2>2, FS_CardinalityType DEF Place
<1>2. ASSUME NEW u \in S, NEW w \in S, u < w PROVE Place(S, u) # Place(S, w)
  <2>1. Below(u) \in SUBSET Below(w) /\ u \in Below(w) /\ u \notin Below(u)
    <3>1. u \in Nat /\ w \in Nat /\ \A v \in S : v \in Nat
      OBVIOUS
    <3>2. \A v \in S : v < u => v < w
      BY <1>2, <3>1
    <3>3. Below(u) \subseteq Below(w)
      BY <3>2, Zenon
    <3>4. ~(u < u)
      BY <3>1
    <3>5. u \in Below(w) /\ u \notin Below(u)
      BY <1>2, <3>4, Zenon
    <3> QED BY <3>3, <3>5
  <2>2. IsFiniteSet(Below(w))
    BY <1>1
  <2>3. Place(S, u) = Cardinality(Below(u)) /\ Place(S, w) = Cardinality(Below(w))
    BY DEF Place
  <2> HIDE DEF Below
  <2> QED BY <2>1, <2>2, <2>3, FS_Subset
<1>3. q \in Nat /\ from \in Nat
  <2>1. \A p \in Nat, b \in Nat \ {0} : p \div b \in Nat /\ b * (p \div b) \in Nat
    OBVIOUS
  <2> QED BY <2>1, <1>0, <1>1
<1>4. ASSUME NEW u \in T PROVE Place(S, u) \in from .. from + BatchSize - 1
  <2>1. Place(S, u) \in Nat /\ Place(S, u) \div BatchSize = q
    BY <1>1 DEF BatchOf
  <2>2. \A p \in Nat, b \in Nat \ {0} : p \in b * (p \div b) .. b * (p \div b) + b - 1
    OBVIOUS
  <2> HIDE DEF q
  <2> QED BY <2>1, <2>2, <1>0
<1>5. place \in Injection(T, from .. from + BatchSize - 1)
  <2>1. place \in [T -> from .. from + BatchSize - 1]
    BY <1>4
  <2>2. ASSUME NEW u \in T, NEW w \in T, place[u] = place[w] PROVE u = w
    <3>1. u \in Nat /\ w \in Nat /\ u \in S /\ w \in S
      BY <1>0
    <3>2. ~(u < w) /\ ~(w < u)
      BY <1>2, <2>2, <3>1
    <3> QED BY <3>1, <3>2
  <2> HIDE DEF place
  <2> QED BY <2>1, <2>2 DEF Injection, IsInjective
<1>6. IsFiniteSet(from .. from + BatchSize - 1) /\ Cardinality(from .. from + BatchSize - 1) = BatchSize
  <2>1. from \in Int /\ from + BatchSize - 1 \in Int /\ ~(from > from + BatchSize - 1)
    BY <1>0, <1>3
  <2> HIDE DEF from
  <2>2. IsFiniteSet(from .. from + BatchSize - 1)
        /\ Cardinality(from .. from + BatchSize - 1) = (from + BatchSize - 1) - from + 1
    BY <2>1, FS_Interval
  <2> QED BY <2>1, <2>2, <1>0, <1>3
<1>7. Cardinality(T) <= BatchSize
  <2> HIDE DEF place, from, T
  <2> QED BY <1>5, <1>6, FS_Injection
<1>8. Cardinality(T) \in Nat
  BY <1>0, FS_CardinalityType
<1> QED BY <1>0, <1>7, <1>8

-----------------------------------------------------------------------------
(* What estimates add up to. *)

LEMMA EstimateSplits ==
    /\ Estimate(0) = 0
    /\ \A n \in Nat : Estimate(n) \in Nat
    /\ \A n \in Nat : n >= BatchSize =>
            Estimate(BatchSize) + Estimate(n - BatchSize) = Estimate(n)
<1> DEFINE B == BatchSize
           Batches(n) == (n + B - 1) \div B
<1>0. B \in Nat \ {0} /\ Overhead \in Nat
  BY JudgeAssumption
<1>1. \A a, b \in Nat : a * b \in Nat /\ a * (b + 1) = a * b + a
  OBVIOUS
<1>2. Batches(0) = 0 /\ Batches(B) = 1
  <2>1. \A b \in Nat \ {0} : (0 + b - 1) \div b = 0 /\ (b + b - 1) \div b = 1
    OBVIOUS
  <2> QED BY <2>1, <1>0
<1>3. \A n \in Nat : Batches(n) \in Nat
  <2>1. \A n \in Nat, b \in Nat \ {0} : (n + b - 1) \div b \in Nat
    OBVIOUS
  <2> QED BY <2>1, <1>0
<1>4. \A n \in Nat : n >= B => Batches(n) = Batches(n - B) + 1
  <2>1. \A n \in Nat, b \in Nat \ {0} : n >= b => (n + b - 1) \div b = ((n - b) + b - 1) \div b + 1
    OBVIOUS
  <2> QED BY <2>1, <1>0
<1>5. \A n : Estimate(n) = n + Overhead * Batches(n)
  BY DEF Estimate
<1> HIDE DEF Batches
<1>6. Estimate(0) = 0
  BY <1>0, <1>2, <1>5
<1>7. \A n \in Nat : Estimate(n) \in Nat
  BY <1>0, <1>1, <1>3, <1>5
<1>8. ASSUME NEW n \in Nat, n >= B PROVE Estimate(B) + Estimate(n - B) = Estimate(n)
  <2>1. n - B \in Nat
    BY <1>0, <1>8
  <2>2. Overhead * Batches(n) = Overhead * Batches(n - B) + Overhead
    BY <1>0, <1>1, <1>3, <1>4, <1>8, <2>1
  <2>3. Overhead * Batches(B) = Overhead
    BY <1>0, <1>2
  <2>4. Overhead * Batches(n - B) \in Nat
    BY <1>0, <1>1, <1>3, <2>1
  <2> QED BY <1>0, <1>5, <2>1, <2>2, <2>3, <2>4
<1> QED BY <1>6, <1>7, <1>8

-----------------------------------------------------------------------------
(* The sum of what is booked, a fold over the days. *)

Total(b) == MapThenSumSet(LAMBDA d : b[d], Days)

Pick(s) == CHOOSE x \in s : TRUE

\* it adds up b over every set of days among those in D.
IsTally(it, b, D) ==
    it = [s \in D |-> IF s = {} THEN 0 ELSE b[Pick(s)] + it[s \ {Pick(s)}]]

DaySets(n) == {s \in SUBSET Days : Cardinality(s) <= n}

LEMMA DaysAreFinite ==
    /\ IsFiniteSet(Days) /\ Cardinality(Days) \in Nat
    /\ \A s \in SUBSET Days : IsFiniteSet(s) /\ Cardinality(s) \in Nat
                             /\ Cardinality(s) <= Cardinality(Days)
    /\ \A s \in SUBSET Days : s # {} => /\ Pick(s) \in s /\ s \ {Pick(s)} \in SUBSET Days
                                      /\ Cardinality(s) # 0
                                      /\ Cardinality(s \ {Pick(s)}) = Cardinality(s) - 1
<1>1. IsFiniteSet(Days)
  <2>1. MaxDays \in Int /\ 1 \in Int
    BY JudgeAssumption
  <2> QED BY <2>1, FS_Interval DEF Days
<1>2. \A s \in SUBSET Days : IsFiniteSet(s) /\ Cardinality(s) <= Cardinality(Days)
  BY <1>1, FS_Subset
<1>3. Cardinality(Days) \in Nat /\ \A s \in SUBSET Days : Cardinality(s) \in Nat
  BY <1>1, <1>2, FS_CardinalityType
<1>4. ASSUME NEW s \in SUBSET Days, s # {}
      PROVE  /\ Pick(s) \in s /\ s \ {Pick(s)} \in SUBSET Days
             /\ Cardinality(s) # 0
             /\ Cardinality(s \ {Pick(s)}) = Cardinality(s) - 1
  <2>1. Pick(s) \in s
    BY <1>4 DEF Pick
  <2> QED BY <2>1, <1>2, <1>4, FS_RemoveElement, FS_EmptySet
<1> QED BY <1>1, <1>2, <1>3, <1>4

(* There is a tally, so the fold is one. *)
LEMMA TallyExists ==
    ASSUME NEW b
    PROVE  \E it : IsTally(it, b, SUBSET Days)
<1> DEFINE Bad == {n \in Nat : ~\E it : IsTally(it, b, DaySets(n))}
<1>1. Bad = {}
  <2> SUFFICES ASSUME Bad # {} PROVE FALSE
    OBVIOUS
  <2>1. PICK n \in Bad : \A m \in Bad : ~(m < n)
    <3>1. Bad \subseteq Nat
      OBVIOUS
    <3> HIDE DEF Bad
    <3> QED BY <3>1, SmallestOf
  <2>2. n \in Nat /\ ~\E it : IsTally(it, b, DaySets(n))
    OBVIOUS
  <2>3. CASE n = 0
    <3> DEFINE it == [s \in DaySets(0) |-> 0]
    <3>1. ASSUME NEW s \in DaySets(0) PROVE s = {}
      <4>1. s \in SUBSET Days /\ Cardinality(s) <= 0
        BY DEF DaySets
      <4>2. Cardinality(s) \in Nat /\ (s # {} => Cardinality(s) # 0)
        BY <4>1, DaysAreFinite
      <4> QED BY <4>1, <4>2
    <3>2. it = [s \in DaySets(0) |-> IF s = {} THEN 0 ELSE b[Pick(s)] + it[s \ {Pick(s)}]]
      BY <3>1
    <3>3. IsTally(it, b, DaySets(0))
      BY <3>2, Zenon DEF IsTally
    <3> QED BY <2>2, <2>3, <3>3, Zenon
  <2>4. CASE n # 0
    <3>1. n - 1 \in Nat /\ n - 1 < n
      BY <2>2, <2>4
    <3>2. n - 1 \notin Bad
      BY <2>1, <3>1
    <3>3. PICK f : IsTally(f, b, DaySets(n - 1))
      BY <3>1, <3>2
    <3> DEFINE g == [s \in DaySets(n) |-> IF s = {} THEN 0 ELSE b[Pick(s)] + f[s \ {Pick(s)}]]
    <3>4. ASSUME NEW s \in DaySets(n), s # {} PROVE f[s \ {Pick(s)}] = g[s \ {Pick(s)}]
      <4> DEFINE t == s \ {Pick(s)}
      <4>1. t \in SUBSET Days /\ Cardinality(t) = Cardinality(s) - 1
            /\ Cardinality(s) \in Nat /\ Cardinality(s) <= n
        BY <3>4, DaysAreFinite DEF DaySets
      <4>2. t \in DaySets(n - 1) /\ t \in DaySets(n)
        BY <4>1, <2>2 DEF DaySets
      <4> HIDE DEF t
      <4>3. f[t] = IF t = {} THEN 0 ELSE b[Pick(t)] + f[t \ {Pick(t)}]
        BY <3>3, <4>2 DEF IsTally
      <4>4. g[t] = IF t = {} THEN 0 ELSE b[Pick(t)] + f[t \ {Pick(t)}]
        BY <4>2
      <4> QED BY <4>3, <4>4 DEF t
    <3>5. g = [s \in DaySets(n) |-> IF s = {} THEN 0 ELSE b[Pick(s)] + g[s \ {Pick(s)}]]
      BY <3>4
    <3>6. IsTally(g, b, DaySets(n))
      BY <3>5, Zenon DEF IsTally
    <3> QED BY <2>2, <3>6, Zenon
  <2> QED BY <2>3, <2>4
<1>2. \E it : IsTally(it, b, DaySets(Cardinality(Days)))
  BY <1>1, DaysAreFinite
<1>3. DaySets(Cardinality(Days)) = SUBSET Days
  BY DaysAreFinite DEF DaySets
<1> QED BY <1>2, <1>3

LEMMA TotalIsTally ==
    ASSUME NEW b
    PROVE  \E it : IsTally(it, b, SUBSET Days) /\ Total(b) = it[Days]
<1> DEFINE it == CHOOSE i : IsTally(i, b, SUBSET Days)
<1>1. Total(b) = it[Days]
  BY DEF Total, MapThenSumSet, MapThenFoldSet, IsTally, Pick
<1>2. IsTally(it, b, SUBSET Days)
  BY TallyExists
<1> QED BY <1>1, <1>2

(* What is added to one day is added to the sum. *)
LEMMA TotalGrows ==
    ASSUME NEW b \in [Days -> Nat], NEW d \in Days, NEW k \in Nat
    PROVE  Total(b) \in Nat /\ Total([b EXCEPT ![d] = @ + k]) = Total(b) + k
<1> DEFINE a == [b EXCEPT ![d] = @ + k]
<1>1. PICK it : IsTally(it, b, SUBSET Days) /\ Total(b) = it[Days]
  BY TotalIsTally
<1>2. PICK jt : IsTally(jt, a, SUBSET Days) /\ Total(a) = jt[Days]
  BY TotalIsTally
<1> DEFINE Good(s) == it[s] \in Nat /\ jt[s] = it[s] + (IF d \in s THEN k ELSE 0)
           Bad == {n \in Nat : \E s \in SUBSET Days : Cardinality(s) = n /\ ~Good(s)}
<1>3. \A x \in Days : b[x] \in Nat /\ a[x] = IF x = d THEN b[x] + k ELSE b[x]
  OBVIOUS
<1>4. \A s \in SUBSET Days :
          /\ it[s] = IF s = {} THEN 0 ELSE b[Pick(s)] + it[s \ {Pick(s)}]
          /\ jt[s] = IF s = {} THEN 0 ELSE a[Pick(s)] + jt[s \ {Pick(s)}]
  <2> HIDE DEF a
  <2> QED BY <1>1, <1>2 DEF IsTally
<1>5. Bad = {}
  <2> SUFFICES ASSUME Bad # {} PROVE FALSE
    OBVIOUS
  <2>1. PICK n \in Bad : \A m \in Bad : ~(m < n)
    <3>1. Bad \subseteq Nat
      OBVIOUS
    <3> HIDE DEF Bad
    <3> QED BY <3>1, SmallestOf
  <2>2. PICK s \in SUBSET Days : Cardinality(s) = n /\ ~Good(s)
    OBVIOUS
  <2>3. s # {}
    <3>1. SUFFICES ASSUME s = {} PROVE Good(s)
      BY <2>2
    <3>2. it[s] = 0 /\ jt[s] = 0 /\ d \notin s
      BY <1>4, <3>1
    <3> QED BY <3>2
  <2> DEFINE x == Pick(s)
             t == s \ {x}
  <2>4. x \in s /\ t \in SUBSET Days /\ Cardinality(t) = n - 1 /\ n \in Nat \ {0}
    BY <2>2, <2>3, DaysAreFinite
  <2>5. Good(t)
    <3>1. n - 1 \in Nat /\ n - 1 < n
      BY <2>4
    <3>2. n - 1 \notin Bad
      BY <2>1, <3>1
    <3> QED BY <2>4, <3>1, <3>2
  <2>6. it[s] = b[x] + it[t] /\ jt[s] = a[x] + jt[t]
    BY <1>4, <2>3
  <2>7. (d \in s <=> x = d \/ d \in t) /\ ~(x = d /\ d \in t)
    BY <2>4
  <2>8. x \in Days
    BY <2>4
  <2> HIDE DEF x, t, a
  <2> QED BY <1>3, <2>2, <2>5, <2>6, <2>7, <2>8
<1>6. Good(Days)
  BY <1>5, DaysAreFinite
<1> QED BY <1>1, <1>2, <1>6

-----------------------------------------------------------------------------
(* Types. *)

(* Who judges what: a runner that is not idle has the lock, replies are kept *)
(* from Show to Drain, and the archive is finite.                            *)
StagesOK ==
    /\ \A r \in Runners : stage[r] # "show" /\ (stage[r] # "idle" => lock = r)
    /\ \A s \in Sessions : /\ stage[s] \notin {"book", "call"}
                           /\ stage[s] # "show" => replies[s] = {}

WorkIsUttered == IsFiniteSet(uttered) /\ \A j \in Judges : todo[j] \subseteq uttered

SelectedIsUnjudged == Selected \subseteq Unjudged /\ Unjudged \subseteq uttered

LEMMA Selection == SelectedIsUnjudged
BY DEF SelectedIsUnjudged, Selected, Newest, Unjudged

LEMMA ShownAreFinite ==
    ASSUME JudgeTypeOK, WorkIsUttered, NEW S, S \subseteq uttered
    PROVE  IsFiniteSet(S) /\ S \subseteq Nat /\ S \subseteq Utterances
BY JudgeAssumption, FS_Subset DEF JudgeTypeOK, WorkIsUttered

LEMMA InitJudgeTyped == JudgeInit => JudgeTypeOK /\ StagesOK /\ WorkIsUttered
<1> SUFFICES ASSUME JudgeInit PROVE JudgeTypeOK /\ StagesOK /\ WorkIsUttered
  OBVIOUS
<1>1. JudgeTypeOK
  <2>1. 1 \in Days /\ 0 \in 0 .. MaxDays /\ 0 \in 0 .. MaxJudgeDeaths
    BY JudgeAssumption DEF Days
  <2> QED BY <2>1 DEF JudgeInit, JudgeTypeOK
<1>2. StagesOK
  BY DEF JudgeInit, StagesOK, Judges
<1>3. WorkIsUttered
  BY FS_EmptySet DEF JudgeInit, WorkIsUttered
<1> QED BY <1>1, <1>2, <1>3

LEMMA StagesPreserved ==
    ASSUME JudgeTypeOK, StagesOK, [JudgeNext]_judgeVars
    PROVE  StagesOK'
<1> USE DEF StagesOK, Enter, Unlocked
<1>0. /\ stage \in [Judges -> {"idle", "book", "call", "show", "write"}]
      /\ replies \in [Sessions -> SUBSET [head : Utterances, said : Said(BatchSize)]]
      /\ Runners \cap Sessions = {} /\ Nobody \notin Runners /\ Judges = Runners \cup Sessions
  BY JudgeAssumption DEF JudgeTypeOK, Judges
<1>1. CASE Utter \/ Midnight \/ UNCHANGED judgeVars
  BY <1>1 DEF Utter, Midnight, judgeVars
<1>2. ASSUME NEW r \in Runners, Select(r) \/ Book(r) \/ Call(r) \/ Ingest(r) PROVE StagesOK'
  BY <1>0, <1>2 DEF Select, Book, Call, Ingest
<1>3. ASSUME NEW s \in Sessions, Show(s) \/ Answer(s) \/ Drain(s) PROVE StagesOK'
  <2>1. CASE Show(s)
    BY <1>0, <2>1 DEF Show
  <2>2. CASE Answer(s)
    <3>1. PICK x : replies' = [replies EXCEPT ![s] = x]
      BY <2>2 DEF Answer
    <3> QED BY <1>0, <2>2, <3>1 DEF Answer
  <2>3. CASE Drain(s)
    BY <1>0, <2>3 DEF Drain
  <2> QED BY <1>3, <2>1, <2>2, <2>3
<1>4. ASSUME NEW j \in Judges, WriteSignal(j) \/ WriteJudged(j) \/ Finish(j) PROVE StagesOK'
  BY <1>0, <1>4 DEF WriteSignal, WriteJudged, Finish
<1>5. ASSUME NEW j \in Judges, JudgeDies(j) PROVE StagesOK'
  BY <1>0, <1>5 DEF JudgeDies
<1> QED BY <1>1, <1>2, <1>3, <1>4, <1>5 DEF JudgeNext

LEMMA WorkStaysUttered ==
    ASSUME JudgeTypeOK, WorkIsUttered, [JudgeNext]_judgeVars
    PROVE  WorkIsUttered'
<1>0. todo \in [Judges -> SUBSET Utterances] /\ Runners \subseteq Judges /\ Sessions \subseteq Judges
  BY DEF JudgeTypeOK, Judges
<1>1. CASE Utter
  <2>1. PICK u \in Utterances : uttered' = uttered \cup {u} /\ todo' = todo
    BY <1>1 DEF Utter
  <2>2. IsFiniteSet(uttered')
    BY <2>1, FS_AddElement DEF WorkIsUttered
  <2> QED BY <2>1, <2>2 DEF WorkIsUttered
<1>2. ASSUME UNCHANGED uttered, NEW j \in Judges, NEW S \in SUBSET uttered,
             todo' = [todo EXCEPT ![j] = S]
      PROVE  WorkIsUttered'
  BY <1>0, <1>2 DEF WorkIsUttered
<1>3. ASSUME NEW r \in Runners, Select(r) \/ Call(r) PROVE WorkIsUttered'
  <2>1. \E S \in SUBSET uttered : UNCHANGED uttered /\ todo' = [todo EXCEPT ![r] = S]
    BY <1>0, <1>3, Selection DEF Select, Call, SelectedIsUnjudged, WorkIsUttered
  <2> QED BY <1>0, <1>2, <2>1
<1>4. ASSUME NEW s \in Sessions, Show(s) \/ Drain(s) PROVE WorkIsUttered'
  <2>1. \E S \in SUBSET uttered : UNCHANGED uttered /\ todo' = [todo EXCEPT ![s] = S]
    BY <1>0, <1>4, Selection DEF Show, Drain, SelectedIsUnjudged
  <2> QED BY <1>0, <1>2, <2>1
<1>5. ASSUME NEW j \in Judges, JudgeDies(j) PROVE WorkIsUttered'
  <2>1. \E S \in SUBSET uttered : UNCHANGED uttered /\ todo' = [todo EXCEPT ![j] = S]
    BY <1>5 DEF JudgeDies
  <2> QED BY <1>2, <2>1
<1>6. CASE Midnight \/ UNCHANGED judgeVars
  BY <1>6 DEF Midnight, judgeVars, WorkIsUttered
<1>7. ASSUME NEW r \in Runners, Book(r) \/ Ingest(r) PROVE WorkIsUttered'
  BY <1>7 DEF Book, Ingest, WorkIsUttered
<1>8. ASSUME NEW s \in Sessions, Answer(s) PROVE WorkIsUttered'
  BY <1>8 DEF Answer, WorkIsUttered
<1>9. ASSUME NEW j \in Judges, WriteSignal(j) \/ WriteJudged(j) \/ Finish(j) PROVE WorkIsUttered'
  BY <1>9 DEF WriteSignal, WriteJudged, Finish, WorkIsUttered
<1> QED BY <1>1, <1>3, <1>4, <1>5, <1>6, <1>7, <1>8, <1>9 DEF JudgeNext

(* A batch and what is left of the work have the estimate of the whole. *)
LEMMA BatchOfWork ==
    ASSUME JudgeTypeOK, WorkIsUttered, NEW r \in Runners
    PROVE  /\ Batch(r) \subseteq todo[r]
           /\ Estimate(Cardinality(todo[r])) \in Nat
           /\ Estimate(Cardinality(Batch(r))) \in Nat
           /\ Estimate(Cardinality(todo[r] \ Batch(r))) \in Nat
           /\ Estimate(Cardinality(Batch(r))) + Estimate(Cardinality(todo[r] \ Batch(r)))
                = Estimate(Cardinality(todo[r]))
<1> DEFINE T == todo[r]
           B == Batch(r)
<1>1. IsFiniteSet(T) /\ T \subseteq Nat
  <2>1. T \subseteq uttered
    BY DEF WorkIsUttered, Judges
  <2> QED BY <2>1, ShownAreFinite
<1>2. B \subseteq T /\ Cardinality(B) = IF BatchSize <= Cardinality(T) THEN BatchSize ELSE Cardinality(T)
  BY <1>1, NewestSize, JudgeAssumption DEF Batch
<1>3. Cardinality(T) \in Nat /\ BatchSize \in Nat \ {0}
  BY <1>1, FS_CardinalityType, JudgeAssumption
<1>4. IsFiniteSet(T \ B) /\ Cardinality(T \ B) = Cardinality(T) - Cardinality(B)
  <2>1. IsFiniteSet(B) /\ T \cap B = B
    BY <1>1, <1>2, FS_Subset
  <2>2. IsFiniteSet(T \ B) /\ Cardinality(T \ B) = Cardinality(T) - Cardinality(T \cap B)
    BY <1>1, FS_Difference
  <2> QED BY <2>1, <2>2
<1> HIDE DEF T, B
<1>5. CASE BatchSize <= Cardinality(T)
  <2>1. Cardinality(B) = BatchSize /\ Cardinality(T \ B) = Cardinality(T) - BatchSize
        /\ Cardinality(T \ B) \in Nat /\ Cardinality(T) >= BatchSize
    BY <1>2, <1>3, <1>4, <1>5
  <2> QED BY <2>1, <1>2, <1>3, EstimateSplits DEF T, B
<1>6. CASE ~(BatchSize <= Cardinality(T))
  <2>1. Cardinality(B) = Cardinality(T) /\ Cardinality(T \ B) = 0
    BY <1>2, <1>3, <1>4, <1>6
  <2> QED BY <2>1, <1>2, <1>3, EstimateSplits DEF T, B
<1> QED BY <1>5, <1>6

(* What is selected fits into what is left of the day. *)
LEMMA SelectionFits ==
    ASSUME JudgeTypeOK, WorkIsUttered, Selected # {}
    PROVE  Estimate(Cardinality(Selected)) + booked[today] <= TokenLimit
<1> DEFINE count == Cardinality({u \in Utterances : judged[u] = today})
           c == Cardinality(Unjudged)
           fits == {n \in 0 .. c : n + count <= UtteranceLimit
                                   /\ Estimate(n) + booked[today] <= TokenLimit}
           most == IF fits = {} THEN 0 ELSE Max(fits)
<1>1. IsFiniteSet(Unjudged) /\ Unjudged \subseteq Nat
  BY ShownAreFinite DEF Unjudged
<1>2. c \in Nat
  BY <1>1, FS_CardinalityType
<1>3. Selected = Newest(Unjudged, most)
  BY DEF Selected
<1>4. fits # {}
  <2> SUFFICES ASSUME fits = {} PROVE FALSE
    OBVIOUS
  <2>1. Selected = Newest(Unjudged, 0)
    BY <1>3
  <2>2. Cardinality(Selected) = 0
    BY <2>1, <1>1, <1>2, NewestSize
  <2>3. IsFiniteSet(Selected)
    BY <1>1, Selection, FS_Subset DEF SelectedIsUnjudged
  <2> QED BY <2>2, <2>3, FS_EmptySet
<1>5. Max(fits) \in fits
  <2>1. \E x \in fits : \A y \in fits : y <= x
    <3>1. fits \subseteq 0 .. c
      OBVIOUS
    <3> HIDE DEF fits, c
    <3> QED BY <1>2, <1>4, <3>1, LargestOf
  <2>2. \A x \in fits : x \in Nat
    OBVIOUS
  <2> HIDE DEF fits
  <2>3. \E x \in fits : \A y \in fits : x >= y
    BY <2>1, <2>2
  <2> QED BY <2>3 DEF Max
<1>6. most \in 0 .. c /\ Estimate(most) + booked[today] <= TokenLimit
  BY <1>4, <1>5
<1>7. Cardinality(Selected) = most
  <2> HIDE DEF most, fits
  <2>1. most \in Nat /\ most <= Cardinality(Unjudged)
    BY <1>2, <1>6
  <2> HIDE DEF c
  <2> QED BY <2>1, <1>1, <1>3, NewestSize
<1> QED BY <1>6, <1>7

LEMMA ReplyIsTyped ==
    ASSUME JudgeTypeOK, WorkIsUttered, NEW s \in Sessions, NEW h \in Heads(todo[s]),
           NEW said \in Said(Cardinality(BatchOf(todo[s], h)))
    PROVE  [head |-> h, said |-> said] \in [head : Utterances, said : Said(BatchSize)]
<1> DEFINE n == Cardinality(BatchOf(todo[s], h))
<1>1. todo[s] \subseteq uttered /\ h \in todo[s]
  BY DEF WorkIsUttered, Judges, Heads
<1>2. h \in Utterances /\ n \in 0 .. BatchSize
  BY <1>1, ShownAreFinite, BatchIsSmall
<1>3. PICK D \in SUBSET (0 .. n - 1) : said \in [D -> {"yes", "no"}]
  BY DEF Said
<1> HIDE DEF n
<1>4. D \in SUBSET (0 .. BatchSize - 1)
  <2>1. \A i \in 0 .. n - 1 : i \in 0 .. BatchSize - 1
    BY <1>2, JudgeAssumption
  <2> QED BY <2>1
<1>5. said \in Said(BatchSize)
  BY <1>3, <1>4 DEF Said
<1> QED BY <1>2, <1>5

LEMMA JudgeTypePreserved ==
    ASSUME JudgeTypeOK, WorkIsUttered, [JudgeNext]_judgeVars
    PROVE  JudgeTypeOK'
<1> USE DEF Enter
<1>0. /\ Runners \subseteq Judges /\ Sessions \subseteq Judges /\ Unjudged \subseteq Utterances
      /\ today \in Nat /\ today \in 0 .. MaxDays
  <2>1. today \in 1 .. MaxDays /\ uttered \subseteq Utterances
    BY DEF JudgeTypeOK, Days
  <2>2. today \in Nat /\ today \in 0 .. MaxDays
    BY <2>1, JudgeAssumption
  <2> QED BY <2>1, <2>2 DEF Judges, Unjudged
<1>1. CASE Utter
  BY <1>1 DEF Utter, JudgeTypeOK
<1>2. CASE Midnight
  <2>1. today' \in Days
    BY <1>2, JudgeAssumption DEF Midnight, JudgeTypeOK, Days
  <2> QED BY <1>2, <2>1 DEF Midnight, JudgeTypeOK
<1>3. ASSUME NEW r \in Runners, Select(r) PROVE JudgeTypeOK'
  <2>1. Selected \subseteq Utterances
    BY <1>0, Selection DEF SelectedIsUnjudged
  <2> QED BY <1>0, <1>3, <2>1 DEF Select, JudgeTypeOK
<1>4. ASSUME NEW r \in Runners, Book(r) PROVE JudgeTypeOK'
  <2>1. Estimate(Cardinality(Batch(r))) \in Nat
    BY BatchOfWork
  <2>2. booked' \in [Days -> Nat]
    BY <1>4, <2>1 DEF Book, JudgeTypeOK
  <2> QED BY <1>0, <1>4, <2>2 DEF Book, JudgeTypeOK
<1>5. ASSUME NEW r \in Runners, Call(r) PROVE JudgeTypeOK'
  <2>1. Batch(r) \subseteq Utterances /\ todo[r] \subseteq Utterances
        /\ Estimate(Cardinality(Batch(r))) \in Nat
    BY <1>0, BatchOfWork DEF JudgeTypeOK
  <2>2. spent' \in Nat /\ todo' \in [Judges -> SUBSET Utterances]
    BY <1>0, <1>5, <2>1 DEF Call, JudgeTypeOK
  <2>3. CASE UNCHANGED <<heard, signal, given>>
    BY <1>0, <1>5, <2>2, <2>3 DEF Call, JudgeTypeOK
  <2>4. ASSUME NEW yes \in SUBSET Batch(r), NEW no \in SUBSET Batch(r),
               heard' = [heard EXCEPT ![r] = @ \cup yes \cup no],
               signal' = [signal EXCEPT ![r] = @ \cup yes],
               given' = given \cup (yes \X {"yes"}) \cup (no \X {"no"})
        PROVE  JudgeTypeOK'
    <3>1. heard' \in [Judges -> SUBSET Utterances] /\ signal' \in [Judges -> SUBSET Utterances]
      BY <1>0, <2>1, <2>4 DEF JudgeTypeOK
    <3>2. given' \subseteq Utterances \X {"yes", "no"}
      BY <2>1, <2>4 DEF JudgeTypeOK
    <3> QED BY <1>0, <1>5, <2>2, <3>1, <3>2 DEF Call, JudgeTypeOK
  <2> QED BY <1>5, <2>3, <2>4 DEF Call
<1>6. ASSUME NEW r \in Runners, Ingest(r) PROVE JudgeTypeOK'
  BY <1>0, <1>6 DEF Ingest, JudgeTypeOK
<1>7. ASSUME NEW s \in Sessions, Show(s) PROVE JudgeTypeOK'
  BY <1>0, <1>7 DEF Show, JudgeTypeOK
<1>8. ASSUME NEW s \in Sessions, Answer(s) PROVE JudgeTypeOK'
  <2>1. PICK h \in Heads(todo[s]) \ {a.head : a \in replies[s]} :
        \E said \in Said(Cardinality(BatchOf(todo[s], h))) :
            LET reply == [head |-> h, said |-> said]
                yes == Corrections(todo[s], reply)
            IN  /\ replies' = [replies EXCEPT ![s] = @ \cup {reply}]
                /\ given' = given \cup (yes \X {"yes"})
                                  \cup ((Judged(todo[s], reply) \ yes) \X {"no"})
    BY <1>8 DEF Answer
  <2>2. PICK said \in Said(Cardinality(BatchOf(todo[s], h))) :
            LET reply == [head |-> h, said |-> said]
                yes == Corrections(todo[s], reply)
            IN  /\ replies' = [replies EXCEPT ![s] = @ \cup {reply}]
                /\ given' = given \cup (yes \X {"yes"})
                                  \cup ((Judged(todo[s], reply) \ yes) \X {"no"})
    BY <2>1
  <2> DEFINE reply == [head |-> h, said |-> said]
  <2>3. reply \in [head : Utterances, said : Said(BatchSize)]
    BY <2>1, <2>2, ReplyIsTyped
  <2>4. Corrections(todo[s], reply) \subseteq Utterances /\ Judged(todo[s], reply) \subseteq Utterances
    BY <1>0 DEF Corrections, Judged, BatchOf, JudgeTypeOK
  <2> HIDE DEF reply
  <2>5. replies' \in [Sessions -> SUBSET [head : Utterances, said : Said(BatchSize)]]
    BY <2>2, <2>3 DEF JudgeTypeOK, reply
  <2>6. given' \subseteq Utterances \X {"yes", "no"}
    BY <2>2, <2>4 DEF JudgeTypeOK, reply
  <2> QED BY <1>8, <2>5, <2>6 DEF Answer, JudgeTypeOK
<1>9. ASSUME NEW s \in Sessions, Drain(s) PROVE JudgeTypeOK'
  <2>1. \A a : Judged(Unjudged, a) \subseteq Utterances /\ Corrections(Unjudged, a) \subseteq Utterances
    BY <1>0 DEF Corrections, Judged, BatchOf
  <2>2. heard' \in [Judges -> SUBSET Utterances] /\ signal' \in [Judges -> SUBSET Utterances]
    BY <1>0, <1>9, <2>1 DEF Drain, JudgeTypeOK
  <2>3. stale' \in BOOLEAN
    BY <1>9 DEF Drain, JudgeTypeOK
  <2> QED BY <1>0, <1>9, <2>2, <2>3 DEF Drain, JudgeTypeOK
<1>10. ASSUME NEW j \in Judges, WriteSignal(j) PROVE JudgeTypeOK'
  BY <1>10 DEF WriteSignal, JudgeTypeOK
<1>11. ASSUME NEW j \in Judges, WriteJudged(j) PROVE JudgeTypeOK'
  <2>1. judged' \in [Utterances -> 0 .. MaxDays]
    BY <1>0, <1>11 DEF WriteJudged, JudgeTypeOK
  <2> QED BY <1>11, <2>1 DEF WriteJudged, JudgeTypeOK
<1>12. ASSUME NEW j \in Judges, Finish(j) PROVE JudgeTypeOK'
  BY <1>12 DEF Finish, Unlocked, JudgeTypeOK
<1>13. ASSUME NEW j \in Judges, JudgeDies(j) PROVE JudgeTypeOK'
  <2>1. judgeDeaths' \in 0 .. MaxJudgeDeaths /\ lock' \in Runners \cup {Nobody}
    BY <1>13, JudgeAssumption DEF JudgeDies, Unlocked, JudgeTypeOK
  <2>2. replies' \in [Sessions -> SUBSET [head : Utterances, said : Said(BatchSize)]]
    BY <1>13 DEF JudgeDies, JudgeTypeOK
  <2>3. todo' \in [Judges -> SUBSET Utterances] /\ heard' \in [Judges -> SUBSET Utterances]
        /\ signal' \in [Judges -> SUBSET Utterances]
    BY <1>13 DEF JudgeDies, JudgeTypeOK
  <2> QED BY <1>13, <2>1, <2>2, <2>3 DEF JudgeDies, JudgeTypeOK
<1>14. CASE UNCHANGED judgeVars
  BY <1>14 DEF judgeVars, JudgeTypeOK
<1> QED
  BY <1>1, <1>2, <1>3, <1>4, <1>5, <1>6, <1>7, <1>8, <1>9, <1>10, <1>11, <1>12, <1>13, <1>14
  DEF JudgeNext

-----------------------------------------------------------------------------
(* The budget. *)

(* What a runner has booked and what it will book stay within the limit,     *)
(* whichever day it will do so: nothing is booked on a day to come.          *)
BudgetOK ==
    /\ BookedWithinLimit
    /\ \A d \in Days : d > today => booked[d] = 0
    /\ \A r \in Runners :
        /\ stage[r] = "book" => booked[today] + Estimate(Cardinality(todo[r])) <= TokenLimit
        /\ stage[r] = "call" =>
            booked[today] + Estimate(Cardinality(todo[r] \ Batch(r))) <= TokenLimit

(* A call under way is booked, besides the calls that were made. *)
CallsOK ==
    /\ spent <= Total(booked)
    /\ \A r \in Runners :
        stage[r] = "call" => spent + Estimate(Cardinality(Batch(r))) <= Total(booked)

LEMMA InitBudget == JudgeInit => BudgetOK /\ CallsOK
<1> SUFFICES ASSUME JudgeInit PROVE BudgetOK /\ CallsOK
  OBVIOUS
<1>0. \A d \in Days : booked[d] = 0
  BY DEF JudgeInit
<1>1. booked \in [Days -> Nat] /\ 1 \in Days
  BY JudgeAssumption DEF JudgeInit, Days
<1>2. \A r \in Runners : stage[r] = "idle"
  BY DEF JudgeInit, Judges
<1>3. BudgetOK
  BY <1>0, <1>2, JudgeAssumption DEF BudgetOK, BookedWithinLimit
<1>4. Total(booked) \in Nat
  BY <1>1, TotalGrows
<1> QED BY <1>2, <1>3, <1>4 DEF CallsOK, JudgeInit

(* What neither runner's work nor its stage is about. *)
LEMMA BudgetUntouched ==
    ASSUME BudgetOK, CallsOK, UNCHANGED <<today, booked, spent>>,
           \A r \in Runners : stage'[r] \in {"book", "call"} =>
                                stage'[r] = stage[r] /\ todo'[r] = todo[r]
    PROVE  BudgetOK' /\ CallsOK'
BY DEF BudgetOK, CallsOK, BookedWithinLimit, Batch

LEMMA BudgetPreserved ==
    ASSUME JudgeTypeOK, StagesOK, WorkIsUttered, BudgetOK, CallsOK, [JudgeNext]_judgeVars
    PROVE  BudgetOK' /\ CallsOK'
<1>0. /\ stage \in [Judges -> {"idle", "book", "call", "show", "write"}]
      /\ todo \in [Judges -> SUBSET Utterances]
      /\ booked \in [Days -> Nat] /\ today \in Days /\ Days \subseteq Nat
      /\ spent \in Nat /\ TokenLimit \in Nat
      /\ Runners \cap Sessions = {} /\ Judges = Runners \cup Sessions /\ Nobody \notin Runners
  BY JudgeAssumption DEF JudgeTypeOK, Judges, Days
<1>1. Total(booked) \in Nat
  BY <1>0, TotalGrows
<1>2. \A r \in Runners : /\ Estimate(Cardinality(todo[r])) \in Nat
                         /\ Estimate(Cardinality(Batch(r))) \in Nat
                         /\ Estimate(Cardinality(todo[r] \ Batch(r))) \in Nat
                         /\ Estimate(Cardinality(Batch(r))) + Estimate(Cardinality(todo[r] \ Batch(r)))
                                = Estimate(Cardinality(todo[r]))
  BY BatchOfWork
<1>3. CASE Midnight
  <2>1. today' = today + 1 /\ today' \in Days /\ UNCHANGED <<booked, stage, todo, spent>>
    BY <1>0, <1>3, JudgeAssumption DEF Midnight, Days
  <2>2. booked[today'] = 0 /\ \A d \in Days : d > today' => booked[d] = 0
    BY <1>0, <2>1 DEF BudgetOK
  <2>3. ASSUME NEW r \in Runners
        PROVE  /\ stage[r] = "book" => booked[today'] + Estimate(Cardinality(todo[r])) <= TokenLimit
               /\ stage[r] = "call" =>
                    booked[today'] + Estimate(Cardinality(todo[r] \ Batch(r))) <= TokenLimit
    <3>1. booked[today] \in Nat
      BY <1>0
    <3> QED BY <1>0, <1>2, <2>2, <3>1 DEF BudgetOK
  <2>4. \A r : Batch(r)' = Batch(r)
    BY <2>1 DEF Batch
  <2> QED BY <2>1, <2>2, <2>3, <2>4 DEF BudgetOK, CallsOK, BookedWithinLimit
<1>4. ASSUME NEW r \in Runners, Select(r) PROVE BudgetOK' /\ CallsOK'
  <2>1. /\ UNCHANGED <<today, booked, spent>> /\ lock = Nobody /\ Selected # {}
        /\ todo' = [todo EXCEPT ![r] = Selected] /\ stage' = [stage EXCEPT ![r] = "book"]
    BY <1>4 DEF Select, Enter
  <2>2. \A q \in Runners : stage'[q] = IF q = r THEN "book" ELSE "idle"
    BY <1>0, <2>1 DEF StagesOK
  <2>3. todo'[r] = Selected
    BY <1>0, <2>1
  <2>4. booked[today] + Estimate(Cardinality(Selected)) <= TokenLimit
    <3>1. Estimate(Cardinality(Selected)) \in Nat
      <4>1. Selected \subseteq uttered
        BY Selection DEF SelectedIsUnjudged
      <4> QED BY <4>1, ShownAreFinite, FS_CardinalityType, EstimateSplits
    <3>2. booked[today] \in Nat
      BY <1>0
    <3> QED BY <1>0, <2>1, <3>1, <3>2, SelectionFits
  <2> QED BY <2>1, <2>2, <2>3, <2>4 DEF BudgetOK, CallsOK, BookedWithinLimit
<1>5. ASSUME NEW r \in Runners, Book(r) PROVE BudgetOK' /\ CallsOK'
  <2> DEFINE k == Estimate(Cardinality(Batch(r)))
             rest == Estimate(Cardinality(todo[r] \ Batch(r)))
  <2>1. /\ stage[r] = "book" /\ UNCHANGED <<today, todo, spent>>
        /\ booked' = [booked EXCEPT ![today] = @ + k] /\ stage' = [stage EXCEPT ![r] = "call"]
    BY <1>5 DEF Book, Enter
  <2>2. k \in Nat /\ rest \in Nat /\ k + rest = Estimate(Cardinality(todo[r]))
    BY <1>2
  <2>3. Batch(r)' = Batch(r)
    BY <2>1 DEF Batch
  <2>4. booked[today] + (k + rest) <= TokenLimit
    BY <2>1, <2>2 DEF BudgetOK
  <2>5. \A q \in Runners : stage'[q] = IF q = r THEN "call" ELSE "idle"
    BY <1>0, <2>1 DEF StagesOK
  <2> HIDE DEF k, rest
  <2>6. \A d \in Days : booked'[d] = IF d = today THEN booked[d] + k ELSE booked[d]
    BY <1>0, <2>1
  <2>7. booked[today] \in Nat /\ \A d \in Days : d = today => ~(d > today)
    BY <1>0
  <2>8. Total(booked') = Total(booked) + k
    BY <1>0, <2>1, <2>2, TotalGrows
  <2>9. BookedWithinLimit'
    BY <1>0, <2>2, <2>4, <2>6, <2>7 DEF BudgetOK, BookedWithinLimit
  <2>10. \A d \in Days : d > today => booked'[d] = 0
    BY <2>6, <2>7 DEF BudgetOK
  <2>11. booked'[today] + rest <= TokenLimit
    BY <1>0, <2>2, <2>4, <2>6, <2>7
  <2>12. BudgetOK'
    <3>1. ASSUME NEW q \in Runners
          PROVE  /\ stage'[q] # "book"
                 /\ stage'[q] = "call" =>
                      booked'[today] + Estimate(Cardinality(todo[q] \ Batch(q))) <= TokenLimit
      BY <2>5, <2>11 DEF rest
    <3>2. \A q : Batch(q)' = Batch(q)
      BY <2>1 DEF Batch
    <3> QED BY <2>1, <2>9, <2>10, <3>1, <3>2 DEF BudgetOK
  <2>13. spent <= Total(booked') /\ spent + k <= Total(booked')
    BY <1>0, <1>1, <2>2, <2>8 DEF CallsOK
  <2>14. CallsOK'
    <3>1. ASSUME NEW q \in Runners, stage'[q] = "call"
          PROVE  spent + Estimate(Cardinality(Batch(q))) <= Total(booked')
      BY <2>5, <2>13, <3>1 DEF k
    <3>2. \A q : Batch(q)' = Batch(q)
      BY <2>1 DEF Batch
    <3> QED BY <2>1, <2>13, <3>1, <3>2 DEF CallsOK
  <2> QED BY <2>12, <2>14
<1>6. ASSUME NEW r \in Runners, Call(r) PROVE BudgetOK' /\ CallsOK'
  <2> DEFINE k == Estimate(Cardinality(Batch(r)))
  <2>1. /\ stage[r] = "call" /\ UNCHANGED <<today, booked>> /\ spent' = spent + k
        /\ todo' = [todo EXCEPT ![r] = @ \ Batch(r)] /\ stage' = [stage EXCEPT ![r] = "book"]
    BY <1>6 DEF Call, Enter
  <2>2. \A q \in Runners : stage'[q] = IF q = r THEN "book" ELSE "idle"
    BY <1>0, <2>1 DEF StagesOK
  <2>3. todo'[r] = todo[r] \ Batch(r)
    BY <1>0, <2>1
  <2>4. booked[today] + Estimate(Cardinality(todo[r] \ Batch(r))) <= TokenLimit
    BY <2>1 DEF BudgetOK
  <2>5. BudgetOK'
    BY <2>1, <2>2, <2>3, <2>4 DEF BudgetOK, BookedWithinLimit
  <2>6. CallsOK'
    BY <2>1, <2>2 DEF CallsOK
  <2> QED BY <2>5, <2>6
<1>7. ASSUME NEW r \in Runners, Ingest(r) PROVE BudgetOK' /\ CallsOK'
  BY <1>0, <1>7, BudgetUntouched DEF Ingest, Enter
<1>8. ASSUME NEW s \in Sessions, Show(s) \/ Answer(s) \/ Drain(s) PROVE BudgetOK' /\ CallsOK'
  BY <1>0, <1>8, BudgetUntouched DEF Show, Answer, Drain, Enter
<1>9. ASSUME NEW j \in Judges, WriteSignal(j) \/ WriteJudged(j) \/ Finish(j) \/ JudgeDies(j)
      PROVE  BudgetOK' /\ CallsOK'
  BY <1>0, <1>9, BudgetUntouched DEF WriteSignal, WriteJudged, Finish, JudgeDies, Enter
<1>10. CASE Utter \/ UNCHANGED judgeVars
  BY <1>10, BudgetUntouched DEF Utter, judgeVars
<1> QED BY <1>3, <1>4, <1>5, <1>6, <1>7, <1>8, <1>9, <1>10 DEF JudgeNext

-----------------------------------------------------------------------------
(* The verdicts. *)

(* What a judge has heard of an utterance was said of it, and a "yes" is on *)
(* its way to the signals.                                                  *)
HeardOK ==
    ~stale => \A j \in Judges : \A u \in heard[j] :
        \/ <<u, "no">> \in given
        \/ <<u, "yes">> \in given /\ u \in signal[j] \cup signals

(* A saved reply, read against the batches its session was shown, says what *)
(* was said.                                                                *)
SaysOnly(a, S, verdicts) ==
    \A u \in Judged(S, a) :
        IF u \in Corrections(S, a) THEN <<u, "yes">> \in verdicts ELSE <<u, "no">> \in verdicts
RepliesOK == \A s \in Sessions : \A a \in replies[s] : SaysOnly(a, todo[s], given)

LEMMA InitVerdicts == JudgeInit => HeardOK /\ RepliesOK /\ JudgedOnItsVerdict
BY DEF JudgeInit, HeardOK, RepliesOK, JudgedOnItsVerdict

LEMMA RepliesKept ==
    ASSUME RepliesOK, given \subseteq given',
           \A s \in Sessions : replies'[s] = {} \/ (replies'[s] = replies[s] /\ todo'[s] = todo[s])
    PROVE  RepliesOK'
<1>1. \A S, a : SaysOnly(a, S, given) => SaysOnly(a, S, given')
  BY DEF SaysOnly
<1>2. ASSUME NEW s \in Sessions, NEW a \in replies'[s] PROVE SaysOnly(a, todo'[s], given')
  <2>1. a \in replies[s] /\ todo'[s] = todo[s]
    BY <1>2
  <2> QED BY <1>1, <2>1 DEF RepliesOK
<1> QED BY <1>2 DEF RepliesOK

LEMMA HeardKept ==
    ASSUME HeardOK, stale => stale', given \subseteq given',
           \A j \in Judges :
              \/ heard'[j] = {}
              \/ heard'[j] \subseteq heard[j]
                 /\ signal[j] \cup signals \subseteq signal'[j] \cup signals'
    PROVE  HeardOK'
BY DEF HeardOK

LEMMA VerdictKept ==
    ASSUME JudgedOnItsVerdict, stale => stale', given \subseteq given', signals \subseteq signals',
           UNCHANGED judged
    PROVE  JudgedOnItsVerdict'
BY DEF JudgedOnItsVerdict

LEMMA VerdictsPreserved ==
    ASSUME JudgeTypeOK, StagesOK, HeardOK, RepliesOK, JudgedOnItsVerdict, [JudgeNext]_judgeVars
    PROVE  HeardOK' /\ RepliesOK' /\ JudgedOnItsVerdict'
<1>0. /\ todo \in [Judges -> SUBSET Utterances] /\ heard \in [Judges -> SUBSET Utterances]
      /\ signal \in [Judges -> SUBSET Utterances] /\ judged \in [Utterances -> 0 .. MaxDays]
      /\ replies \in [Sessions -> SUBSET [head : Utterances, said : Said(BatchSize)]]
      /\ Runners \cap Sessions = {} /\ Judges = Runners \cup Sessions
  BY JudgeAssumption DEF JudgeTypeOK, Judges
<1>1. CASE Utter \/ Midnight \/ UNCHANGED judgeVars
  <2>1. UNCHANGED <<stale, given, signals, judged, heard, signal, replies, todo>>
    BY <1>1 DEF Utter, Midnight, judgeVars
  <2> QED BY <2>1, RepliesKept, HeardKept, VerdictKept
<1>2. ASSUME NEW r \in Runners, Select(r) \/ Book(r) \/ Ingest(r)
      PROVE  HeardOK' /\ RepliesOK' /\ JudgedOnItsVerdict'
  <2>1. UNCHANGED <<stale, given, signals, judged, heard, signal, replies>>
    BY <1>2 DEF Select, Book, Ingest
  <2>2. \A s \in Sessions : todo'[s] = todo[s]
    BY <1>0, <1>2 DEF Select, Book, Ingest
  <2> QED BY <2>1, <2>2, RepliesKept, HeardKept, VerdictKept
<1>3. ASSUME NEW r \in Runners, Call(r)
      PROVE  HeardOK' /\ RepliesOK' /\ JudgedOnItsVerdict'
  <2>1. UNCHANGED <<stale, signals, judged, replies>> /\ \A s \in Sessions : todo'[s] = todo[s]
    BY <1>0, <1>3 DEF Call
  <2>2. CASE UNCHANGED <<heard, signal, given>>
    BY <2>1, <2>2, RepliesKept, HeardKept, VerdictKept
  <2>3. ASSUME NEW yes \in SUBSET Batch(r), NEW no \in SUBSET Batch(r),
               heard' = [heard EXCEPT ![r] = @ \cup yes \cup no],
               signal' = [signal EXCEPT ![r] = @ \cup yes],
               given' = given \cup (yes \X {"yes"}) \cup (no \X {"no"})
        PROVE  HeardOK' /\ RepliesOK' /\ JudgedOnItsVerdict'
    <3>1. /\ given \subseteq given'
          /\ \A u \in yes : <<u, "yes">> \in given'
          /\ \A u \in no : <<u, "no">> \in given'
      BY <2>3
    <3>2. /\ \A j \in Judges \ {r} : heard'[j] = heard[j] /\ signal'[j] = signal[j]
          /\ heard'[r] = heard[r] \cup yes \cup no /\ signal'[r] = signal[r] \cup yes
      BY <1>0, <2>3
    <3>3. HeardOK'
      BY <2>1, <3>1, <3>2 DEF HeardOK
    <3> QED BY <2>1, <3>1, <3>3, RepliesKept, VerdictKept
  <2> QED BY <1>3, <2>2, <2>3 DEF Call
<1>4. ASSUME NEW s \in Sessions, Show(s)
      PROVE  HeardOK' /\ RepliesOK' /\ JudgedOnItsVerdict'
  <2>1. UNCHANGED <<stale, given, signals, judged, heard, signal, replies>> /\ replies[s] = {}
    BY <1>4 DEF Show, StagesOK
  <2>2. \A q \in Sessions : q # s => todo'[q] = todo[q]
    BY <1>0, <1>4 DEF Show
  <2> QED BY <2>1, <2>2, RepliesKept, HeardKept, VerdictKept
<1>5. ASSUME NEW s \in Sessions, Answer(s)
      PROVE  HeardOK' /\ RepliesOK' /\ JudgedOnItsVerdict'
  <2>1. UNCHANGED <<stale, signals, judged, heard, signal, todo>>
    BY <1>5 DEF Answer
  <2>2. PICK reply :
          /\ replies' = [replies EXCEPT ![s] = @ \cup {reply}]
          /\ given' = given \cup (Corrections(todo[s], reply) \X {"yes"})
                            \cup ((Judged(todo[s], reply) \ Corrections(todo[s], reply)) \X {"no"})
    BY <1>5 DEF Answer
  <2> DEFINE yes == Corrections(todo[s], reply)
             all == Judged(todo[s], reply)
  <2>3. /\ given \subseteq given'
        /\ \A u \in yes : <<u, "yes">> \in given'
        /\ \A u \in all \ yes : <<u, "no">> \in given'
    <3> HIDE DEF yes, all
    <3>1. given' = given \cup (yes \X {"yes"}) \cup ((all \ yes) \X {"no"})
      BY <2>2 DEF yes, all
    <3> QED BY <3>1
  <2>4. \A S, a : SaysOnly(a, S, given) => SaysOnly(a, S, given')
    BY <2>3 DEF SaysOnly
  <2>5. SaysOnly(reply, todo[s], given')
    BY <2>3 DEF SaysOnly
  <2>6. \A q \in Sessions : replies'[q] = IF q = s THEN replies[q] \cup {reply} ELSE replies[q]
    BY <1>0, <2>2
  <2>7. ASSUME NEW q \in Sessions, NEW a \in replies'[q] PROVE SaysOnly(a, todo[q], given')
    BY <2>4, <2>5, <2>6, <2>7 DEF RepliesOK
  <2>8. RepliesOK'
    BY <2>1, <2>7 DEF RepliesOK
  <2> QED BY <2>1, <2>3, <2>8, HeardKept, VerdictKept
<1>6. ASSUME NEW s \in Sessions, Drain(s)
      PROVE  HeardOK' /\ RepliesOK' /\ JudgedOnItsVerdict'
  <2> DEFINE found == {a \in replies[s] : a.head \in Heads(Unjudged)}
  <2>1. /\ UNCHANGED <<given, signals, judged>>
        /\ stale => stale'
        /\ ~stale' => ~stale /\ Unjudged = todo[s]
        /\ \A q \in Sessions : replies'[q] = {} \/ (replies'[q] = replies[q] /\ todo'[q] = todo[q])
    BY <1>0, <1>6 DEF Drain
  <2>2. /\ \A j \in Judges \ {s} : heard'[j] = heard[j] /\ signal'[j] = signal[j]
        /\ heard'[s] = UNION {Judged(Unjudged, a) : a \in found}
        /\ signal'[s] = UNION {Corrections(Unjudged, a) : a \in found}
    BY <1>0, <1>6 DEF Drain
  <2>3. ASSUME ~stale', NEW u \in heard'[s]
        PROVE  <<u, "no">> \in given \/ (<<u, "yes">> \in given /\ u \in signal'[s])
    <3>1. PICK a \in found : u \in Judged(Unjudged, a)
      BY <2>2, <2>3
    <3>2. SaysOnly(a, Unjudged, given)
      BY <2>1, <2>3 DEF RepliesOK
    <3>3. u \in Corrections(Unjudged, a) => u \in signal'[s]
      BY <2>2
    <3> QED BY <3>1, <3>2, <3>3 DEF SaysOnly
  <2>4. HeardOK'
    <3> HIDE DEF found
    <3>1. ASSUME ~stale', NEW j \in Judges, j # s, NEW u \in heard'[j]
          PROVE  <<u, "no">> \in given \/ (<<u, "yes">> \in given /\ u \in signal'[j] \cup signals)
      <4>1. u \in heard[j] /\ signal'[j] = signal[j] /\ ~stale
        BY <2>1, <2>2, <3>1
      <4> QED BY <4>1 DEF HeardOK
    <3>2. signals' = signals /\ given' = given
      BY <2>1
    <3>3. ASSUME ~stale', NEW j \in Judges, NEW u \in heard'[j]
          PROVE  <<u, "no">> \in given \/ (<<u, "yes">> \in given /\ u \in signal'[j] \cup signals)
      <4>1. CASE j = s
        BY <2>3, <3>3, <4>1
      <4>2. CASE j # s
        BY <3>1, <3>3, <4>2
      <4> QED BY <4>1, <4>2
    <3> QED BY <3>2, <3>3 DEF HeardOK
  <2> QED BY <2>1, <2>4, RepliesKept, VerdictKept
<1>7. ASSUME NEW j \in Judges, WriteSignal(j)
      PROVE  HeardOK' /\ RepliesOK' /\ JudgedOnItsVerdict'
  <2>1. PICK u : signals' = signals \cup {u} /\ signal' = [signal EXCEPT ![j] = @ \ {u}]
    BY <1>7 DEF WriteSignal
  <2>2. UNCHANGED <<stale, given, judged, heard, replies, todo>>
    BY <1>7 DEF WriteSignal
  <2>3. \A k \in Judges : signal[k] \cup signals \subseteq signal'[k] \cup signals'
    BY <1>0, <2>1
  <2> QED BY <2>1, <2>2, <2>3, RepliesKept, HeardKept, VerdictKept
<1>8. ASSUME NEW j \in Judges, WriteJudged(j)
      PROVE  HeardOK' /\ RepliesOK' /\ JudgedOnItsVerdict'
  <2>1. PICK u \in heard[j] :
          /\ judged' = [judged EXCEPT ![u] = IF @ = 0 THEN today ELSE @]
          /\ heard' = [heard EXCEPT ![j] = @ \ {u}]
    BY <1>8 DEF WriteJudged
  <2>2. UNCHANGED <<stale, given, signals, signal, replies, todo>> /\ signal[j] = {}
    BY <1>8 DEF WriteJudged
  <2>3. \A k \in Judges : heard'[k] \subseteq heard[k]
    BY <1>0, <2>1
  <2>4. \A v \in Utterances : v # u => judged'[v] = judged[v]
    BY <1>0, <2>1
  <2>5. ~stale => <<u, "no">> \in given \/ (<<u, "yes">> \in given /\ u \in signals)
    BY <2>1, <2>2 DEF HeardOK
  <2>6. JudgedOnItsVerdict'
    BY <2>2, <2>4, <2>5 DEF JudgedOnItsVerdict
  <2> QED BY <2>2, <2>3, <2>6, RepliesKept, HeardKept
<1>9. ASSUME NEW j \in Judges, Finish(j)
      PROVE  HeardOK' /\ RepliesOK' /\ JudgedOnItsVerdict'
  <2>1. UNCHANGED <<stale, given, signals, judged, heard, signal, replies, todo>>
    BY <1>9 DEF Finish
  <2> QED BY <2>1, RepliesKept, HeardKept, VerdictKept
<1>10. ASSUME NEW j \in Judges, JudgeDies(j)
      PROVE  HeardOK' /\ RepliesOK' /\ JudgedOnItsVerdict'
  <2>1. UNCHANGED <<stale, given, signals, judged>>
    BY <1>10 DEF JudgeDies
  <2>2. \A k \in Judges : heard'[k] = {} \/ (heard'[k] = heard[k] /\ signal'[k] = signal[k])
    BY <1>0, <1>10 DEF JudgeDies
  <2>3. \A s \in Sessions : replies'[s] = {} \/ (replies'[s] = replies[s] /\ todo'[s] = todo[s])
    BY <1>0, <1>10 DEF JudgeDies
  <2> QED BY <2>1, <2>2, <2>3, RepliesKept, HeardKept, VerdictKept
<1> QED BY <1>1, <1>2, <1>3, <1>4, <1>5, <1>6, <1>7, <1>8, <1>9, <1>10 DEF JudgeNext

-----------------------------------------------------------------------------
JudgeInv ==
    /\ JudgeTypeOK /\ StagesOK /\ WorkIsUttered
    /\ BudgetOK /\ CallsOK
    /\ HeardOK /\ RepliesOK /\ JudgedOnItsVerdict

LEMMA JudgeInvariant == JudgeSpec => []JudgeInv
<1>1. JudgeInit => JudgeInv
  BY InitJudgeTyped, InitBudget, InitVerdicts DEF JudgeInv
<1>2. JudgeInv /\ [JudgeNext]_judgeVars => JudgeInv'
  <2> SUFFICES ASSUME JudgeInv, [JudgeNext]_judgeVars PROVE JudgeInv'
    OBVIOUS
  <2>1. JudgeTypeOK /\ StagesOK /\ WorkIsUttered /\ BudgetOK /\ CallsOK
        /\ HeardOK /\ RepliesOK /\ JudgedOnItsVerdict
    BY DEF JudgeInv
  <2>2. JudgeTypeOK' /\ StagesOK' /\ WorkIsUttered'
    BY <2>1, JudgeTypePreserved, StagesPreserved, WorkStaysUttered
  <2>3. BudgetOK' /\ CallsOK'
    BY <2>1, BudgetPreserved
  <2>4. HeardOK' /\ RepliesOK' /\ JudgedOnItsVerdict'
    BY <2>1, VerdictsPreserved
  <2> QED BY <2>2, <2>3, <2>4 DEF JudgeInv
<1> QED BY <1>1, <1>2, PTL DEF JudgeSpec

(* The state of the judges keeps its type. *)
THEOREM JudgeTypeCorrect == JudgeSpec => []JudgeTypeOK
<1>1. JudgeInv => JudgeTypeOK
  BY DEF JudgeInv
<1> QED BY <1>1, JudgeInvariant, PTL

(* Whatever the number of runners, their deaths and the midnights in between,  *)
(* what reserve_batch_cost books on a day stays within daily_token_limit: the  *)
(* lock keeps one runner at work, and what it has still to book was within    *)
(* what was left when it selected (_select_for_today).                         *)
THEOREM LimitsHold == JudgeSpec => []BookedWithinLimit
<1>1. JudgeInv => BookedWithinLimit
  BY DEF JudgeInv, BudgetOK
<1> QED BY <1>1, JudgeInvariant, PTL

(* The tokens of all calls made are booked, over the days: the booking goes   *)
(* before the call, and both count the batch the same way.                     *)
THEOREM NoCallUnbooked == JudgeSpec => []CallsAreBooked
<1>1. JudgeInv => CallsAreBooked
  BY DEF JudgeInv, CallsOK, CallsAreBooked, Total
<1> QED BY <1>1, JudgeInvariant, PTL

(* An utterance is in correction_judged.jsonl only on a verdict, and its       *)
(* signal was appended before if all verdicts on it were "yes": replies are    *)
(* read against the batches their session was shown, unless a drain was stale. *)
THEOREM VerdictsComeFirst == JudgeSpec => []JudgedOnItsVerdict
<1>1. JudgeInv => JudgedOnItsVerdict
  BY DEF JudgeInv
<1> QED BY <1>1, JudgeInvariant, PTL

-----------------------------------------------------------------------------
(***************************************************************************)
(* The weak signals (WeakSignals).                                         *)
(***************************************************************************)

HasCorrection(k) == corrections[k] > 0

DoneOK == \A p \in Promoters : \A k \in done[p] : HasCorrection(k)
CopyOK == \A p \in Rewriters, k \in Signals : copy[p][k] = "promoted" => HasCorrection(k)

SignalsInv == TypeOK /\ PromotedIsRecorded /\ DoneOK /\ CopyOK

LEMMA RewritersFacts ==
    /\ Promoters \subseteq Rewriters
    /\ Expirers \subseteq Rewriters
    /\ Promoters \cap Expirers = {}
BY SignalsAssumption DEF Rewriters

LEMMA NoLinesTyped == NoLines \in [Signals -> Line] /\ \A k \in Signals : NoLines[k] = "absent"
BY DEF NoLines, Line

LEMMA InitSignals == Init => SignalsInv
<1> SUFFICES ASSUME Init PROVE SignalsInv
  OBVIOUS
<1>1. TypeOK
  BY SignalsAssumption, NoLinesTyped, RewritersFacts DEF Init, TypeOK
<1>2. PromotedIsRecorded /\ DoneOK /\ CopyOK
  BY NoLinesTyped DEF Init, PromotedIsRecorded, DoneOK, CopyOK
<1> QED
  BY <1>1, <1>2 DEF SignalsInv

(* The end of a promotion leaves it with nothing in hand. *)
LEMMA AbandonTyped ==
    ASSUME TypeOK, NEW p \in Promoters, Abandon(p)
    PROVE  /\ at' \in [Rewriters -> {"idle", "append", "mark", "review", "expire"}]
           /\ left' \in [Promoters -> SUBSET Signals]
           /\ done' \in [Promoters -> SUBSET Signals]
           /\ copy' \in [Rewriters -> [Signals -> Line]]
           /\ \A q \in Promoters : at'[q] = "idle" => left'[q] = {} /\ done'[q] = {}
BY NoLinesTyped, RewritersFacts DEF TypeOK, Abandon, Goto

LEMMA StepSignalsTyped == TypeOK /\ [Next]_vars => TypeOK'
<1> SUFFICES ASSUME TypeOK, [Next]_vars PROVE TypeOK'
  OBVIOUS
<1> USE SignalsAssumption, RewritersFacts
<1>1. ASSUME NEW k \in Signals, Detect(k) \/ Age(k) \/ Reject(k) PROVE TypeOK'
  BY <1>1 DEF TypeOK, Detect, Age, Reject, Line
<1>2. ASSUME NEW p \in Promoters, PromoteRead(p) PROVE TypeOK'
  <2>1. Candidates \subseteq Signals
    BY DEF Candidates
  <2> QED
    BY <1>2, <2>1 DEF TypeOK, PromoteRead, Goto
<1>3. ASSUME NEW p \in Promoters, PromoteAppend(p) PROVE TypeOK'
  BY <1>3 DEF TypeOK, PromoteAppend
<1>4. ASSUME NEW p \in Promoters, PromoteFail(p) \/ PromoterDies(p) PROVE TypeOK'
  BY <1>4, AbandonTyped DEF TypeOK, PromoteFail, PromoterDies
<1>5. ASSUME NEW p \in Promoters, MarkRead(p) PROVE TypeOK'
  BY <1>5 DEF TypeOK, MarkRead, Goto
<1>6. ASSUME NEW p \in Promoters, MarkWrite(p) PROVE TypeOK'
  <2>1. Marked(copy[p], done[p]) \in [Signals -> Line]
    BY DEF TypeOK, Marked, Line
  <2>2. weak' \in [Signals -> Line]
    BY <1>6, <2>1 DEF MarkWrite, TypeOK
  <2>3. copy' \in [Rewriters -> [Signals -> Line]]
    BY <1>6, NoLinesTyped DEF MarkWrite, TypeOK
  <2>4. at' \in [Rewriters -> {"idle", "append", "mark", "review", "expire"}]
    BY <1>6 DEF TypeOK, MarkWrite, Goto
  <2>5. \A q \in Promoters : at'[q] = "idle" => at[q] = "idle"
    BY <1>6 DEF TypeOK, MarkWrite, Goto
  <2>6. UNCHANGED <<aged, reviewed, corrections, left, done, failures, deaths>>
    BY <1>6 DEF MarkWrite
  <2>7. \A q \in Promoters : at'[q] = "idle" => left'[q] = {} /\ done'[q] = {}
    BY <2>5, <2>6 DEF TypeOK
  <2>8. /\ aged' \subseteq Signals
        /\ reviewed' \in [Signals -> {"no", "promoted", "rejected"}]
        /\ corrections' \in [Signals -> Nat]
        /\ left' \in [Promoters -> SUBSET Signals]
        /\ done' \in [Promoters -> SUBSET Signals]
        /\ failures' \in 0 .. MaxFailures /\ deaths' \in 0 .. MaxDeaths
    BY <2>6 DEF TypeOK
  <2> QED
    BY <2>2, <2>3, <2>4, <2>7, <2>8, Zenon DEF TypeOK
<1>7. ASSUME NEW p \in Promoters, Review(p) \/ ReviewFail(p) \/ ReviewEnd(p) PROVE TypeOK'
  <2>1. CASE Review(p) \/ ReviewFail(p)
    <3>1. \A q \in Promoters : done'[q] \subseteq done[q]
      BY <2>1 DEF Review, ReviewFail, TypeOK
    <3>2. reviewed' \in [Signals -> {"no", "promoted", "rejected"}]
      BY <2>1 DEF Review, ReviewFail, TypeOK
    <3>3. done' \in [Promoters -> SUBSET Signals]
      <4>1. PICK k : done' = [done EXCEPT ![p] = @ \ {k}]
        BY <2>1 DEF Review, ReviewFail
      <4>2. done \in [Promoters -> SUBSET Signals]
        BY DEF TypeOK
      <4> QED
        BY <4>1, <4>2
    <3>4. failures' \in 0 .. MaxFailures
      <4>1. failures \in 0 .. MaxFailures /\ MaxFailures \in Nat
        BY DEF TypeOK
      <4>2. failures' = failures \/ (failures < MaxFailures /\ failures' = failures + 1)
        BY <2>1 DEF Review, ReviewFail
      <4> QED
        BY <4>1, <4>2
    <3>5. UNCHANGED <<weak, aged, corrections, at, left, copy, deaths>>
      BY <2>1 DEF Review, ReviewFail
    <3> QED
      BY <3>1, <3>2, <3>3, <3>4, <3>5 DEF TypeOK
  <2>2. CASE ReviewEnd(p)
    BY <2>2, AbandonTyped DEF TypeOK, ReviewEnd
  <2> QED
    BY <1>7, <2>1, <2>2
<1>8. ASSUME NEW e \in Expirers, ExpireRead(e) \/ ExpireWrite(e) PROVE TypeOK'
  <2>1. [k \in Signals |-> IF k \in Expirable THEN "expired" ELSE weak[k]] \in [Signals -> Line]
    BY DEF TypeOK, Line
  <2>2. e \notin Promoters
    OBVIOUS
  <2>3. weak' \in [Signals -> Line] /\ copy' \in [Rewriters -> [Signals -> Line]]
    <3>1. CASE ExpireRead(e)
      <4>1. PICK f \in [Signals -> Line] : copy' = [copy EXCEPT ![e] = f]
        BY <2>1, <3>1 DEF ExpireRead
      <4> QED
        BY <3>1, <4>1 DEF TypeOK, ExpireRead
    <3>2. CASE ExpireWrite(e)
      BY <3>2, NoLinesTyped DEF TypeOK, ExpireWrite
    <3> QED
      BY <1>8, <3>1, <3>2
  <2>4. /\ at' \in [Rewriters -> {"idle", "append", "mark", "review", "expire"}]
        /\ \A q \in Promoters : at'[q] = at[q]
    BY <1>8, <2>2 DEF TypeOK, ExpireRead, ExpireWrite, Goto
  <2>5. UNCHANGED <<aged, reviewed, corrections, left, done, failures, deaths>>
    BY <1>8 DEF ExpireRead, ExpireWrite
  <2>6. /\ aged' \subseteq Signals
        /\ reviewed' \in [Signals -> {"no", "promoted", "rejected"}]
        /\ corrections' \in [Signals -> Nat]
        /\ left' \in [Promoters -> SUBSET Signals]
        /\ done' \in [Promoters -> SUBSET Signals]
        /\ failures' \in 0 .. MaxFailures /\ deaths' \in 0 .. MaxDeaths
    BY <2>5 DEF TypeOK
  <2>7. \A q \in Promoters : at'[q] = "idle" => left'[q] = {} /\ done'[q] = {}
    BY <2>4, <2>5 DEF TypeOK
  <2> QED
    BY <2>3, <2>4, <2>6, <2>7, Zenon DEF TypeOK
<1>9. CASE UNCHANGED vars
  BY <1>9 DEF vars, TypeOK
<1> QED
  BY <1>1, <1>2, <1>3, <1>4, <1>5, <1>6, <1>7, <1>8, <1>9 DEF Next

LEMMA CorrectionsStay ==
    ASSUME TypeOK, [Next]_vars, NEW k \in Signals, HasCorrection(k)
    PROVE  HasCorrection(k)'
<1>1. corrections' = corrections \/ \E j \in Signals : corrections' = [corrections EXCEPT ![j] = @ + 1]
  BY DEF Next, vars, Detect, Age, Reject, PromoteRead, PromoteAppend, PromoteFail, MarkRead,
         MarkWrite, Review, ReviewFail, ReviewEnd, PromoterDies, ExpireRead, ExpireWrite, TypeOK
<1> QED
  BY <1>1 DEF TypeOK, HasCorrection

(* What is in hand has its correction: a key joins promoted_keys in the step *)
(* that appends it.                                                          *)
LEMMA StepDone == SignalsInv /\ [Next]_vars => DoneOK'
<1> SUFFICES ASSUME SignalsInv, [Next]_vars, NEW p \in Promoters, NEW k \in done'[p]
             PROVE  HasCorrection(k)'
  BY DEF DoneOK
<1>0. TypeOK /\ TypeOK'
  BY StepSignalsTyped DEF SignalsInv
<1>1. k \in Signals
  BY <1>0 DEF TypeOK
<1>2. CASE k \in done[p]
  BY <1>0, <1>1, <1>2, CorrectionsStay DEF SignalsInv, DoneOK
<1>3. CASE k \notin done[p]
  <2>1. PICK q \in Promoters : PromoteAppend(q)
    <3>1. ASSUME NEW q \in Promoters, Abandon(q) PROVE FALSE
      BY <1>0, <1>3, <3>1 DEF Abandon, TypeOK
    <3>2. CASE UNCHANGED done
      BY <1>3, <3>2
    <3>3. ASSUME NEW q \in Promoters, PromoteRead(q) \/ MarkRead(q) \/ MarkWrite(q)
          PROVE  UNCHANGED done
      BY <3>3 DEF PromoteRead, MarkRead, MarkWrite
    <3>4. ASSUME NEW q \in Promoters, Review(q) \/ ReviewFail(q) PROVE FALSE
      BY <1>0, <1>3, <3>4 DEF Review, ReviewFail, TypeOK
    <3> QED
      BY <3>1, <3>2, <3>3, <3>4, Zenon
         DEF Next, vars, Detect, Age, Reject, PromoteRead, PromoteFail, MarkRead, MarkWrite,
             ReviewEnd, PromoterDies, ExpireRead, ExpireWrite
  <2>2. PICK j \in left[q] : /\ corrections' = [corrections EXCEPT ![j] = @ + 1]
                             /\ done' = [done EXCEPT ![q] = @ \cup {j}]
    BY <2>1 DEF PromoteAppend
  <2>3. j = k
    BY <1>0, <1>3, <2>2 DEF TypeOK
  <2> QED
    BY <1>0, <1>1, <2>2, <2>3 DEF TypeOK, HasCorrection
<1> QED
  BY <1>2, <1>3

LEMMA StepCopy == SignalsInv /\ [Next]_vars => CopyOK'
<1> SUFFICES ASSUME SignalsInv, [Next]_vars, NEW p \in Rewriters, NEW k \in Signals,
                    copy'[p][k] = "promoted"
             PROVE  HasCorrection(k)'
  BY DEF CopyOK
<1>0. TypeOK
  BY DEF SignalsInv
<1> USE RewritersFacts
<1>1. copy[p][k] = "promoted" \/ weak[k] = "promoted"
  <2>1. CASE UNCHANGED copy
    BY <2>1
  <2>2. ASSUME NEW q \in Promoters, Abandon(q) \/ MarkWrite(q)
        PROVE  copy[p][k] = "promoted"
    BY <1>0, <2>2, NoLinesTyped DEF Abandon, MarkWrite, TypeOK
  <2>3. ASSUME NEW q \in Promoters, MarkRead(q)
        PROVE  copy[p][k] = "promoted" \/ weak[k] = "promoted"
    BY <1>0, <2>3 DEF MarkRead, TypeOK
  <2>4. ASSUME NEW e \in Expirers, ExpireRead(e) \/ ExpireWrite(e)
        PROVE  copy[p][k] = "promoted" \/ weak[k] = "promoted"
    BY <1>0, <2>4, NoLinesTyped DEF ExpireRead, ExpireWrite, TypeOK
  <2> QED
    BY <2>1, <2>2, <2>3, <2>4
       DEF Next, vars, Detect, Age, Reject, PromoteRead, PromoteAppend, PromoteFail, Review,
           ReviewFail, ReviewEnd, PromoterDies
<1>2. HasCorrection(k)
  BY <1>1 DEF SignalsInv, CopyOK, PromotedIsRecorded, HasCorrection
<1> QED
  BY <1>0, <1>2, CorrectionsStay

LEMMA StepMarks == SignalsInv /\ [Next]_vars => PromotedIsRecorded'
<1> SUFFICES ASSUME SignalsInv, [Next]_vars, NEW k \in Signals,
                    weak'[k] = "promoted" \/ reviewed'[k] = "promoted"
             PROVE  HasCorrection(k)'
  BY DEF PromotedIsRecorded, HasCorrection
<1>0. TypeOK
  BY DEF SignalsInv
<1> USE RewritersFacts
<1>1. \/ weak[k] = "promoted" \/ reviewed[k] = "promoted"
      \/ \E p \in Rewriters : copy[p][k] = "promoted"
      \/ \E p \in Promoters : k \in done[p]
  <2>1. CASE UNCHANGED <<weak, reviewed>>
    BY <2>1
  <2>2. ASSUME NEW j \in Signals, Detect(j) \/ Reject(j)
        PROVE  weak[k] = "promoted" \/ reviewed[k] = "promoted"
    BY <1>0, <2>2 DEF Detect, Reject, TypeOK
  <2>3. ASSUME NEW p \in Promoters, MarkWrite(p)
        PROVE  \/ weak[k] = "promoted" \/ reviewed[k] = "promoted"
               \/ copy[p][k] = "promoted" \/ k \in done[p]
    BY <1>0, <2>3 DEF MarkWrite, Marked, TypeOK
  <2>4. ASSUME NEW p \in Promoters, Review(p)
        PROVE  weak[k] = "promoted" \/ reviewed[k] = "promoted" \/ k \in done[p]
    BY <1>0, <2>4 DEF Review, TypeOK
  <2>5. ASSUME NEW e \in Expirers, ExpireWrite(e)
        PROVE  reviewed[k] = "promoted" \/ copy[e][k] = "promoted"
    BY <1>0, <2>5 DEF ExpireWrite, TypeOK
  <2> QED
    BY <2>1, <2>2, <2>3, <2>4, <2>5
       DEF Next, vars, Age, PromoteRead, PromoteAppend, PromoteFail, MarkRead, ReviewFail,
           ReviewEnd, PromoterDies, ExpireRead
<1>2. HasCorrection(k)
  BY <1>1 DEF SignalsInv, CopyOK, DoneOK, PromotedIsRecorded, HasCorrection
<1> QED
  BY <1>0, <1>2, CorrectionsStay

LEMMA StepSignals == SignalsInv /\ [Next]_vars => SignalsInv'
BY StepSignalsTyped, StepDone, StepCopy, StepMarks DEF SignalsInv

(***************************************************************************)
(* Every signal that is marked promoted, or recorded as answered yes, has  *)
(* a record in corrections.jsonl, whatever promotions, failed appends,     *)
(* deaths and unlocked rewrites of weak_signals.jsonl interleave.          *)
(***************************************************************************)
THEOREM MarksAreRecorded == Spec => []PromotedIsRecorded
<1>1. Init => SignalsInv
  BY InitSignals
<1>2. SignalsInv /\ [Next]_vars => SignalsInv'
  BY StepSignals
<1>3. SignalsInv => PromotedIsRecorded
  BY DEF SignalsInv
<1> QED
  BY <1>1, <1>2, <1>3, PTL DEF Spec

(***************************************************************************)
(* A promotion that has ended, in whatever way, holds no keys: the next    *)
(* one marks what it has appended itself.                                  *)
(***************************************************************************)
THEOREM SignalsTypeCorrect == Spec => []TypeOK
<1>1. Init => SignalsInv
  BY InitSignals
<1>2. SignalsInv /\ [Next]_vars => SignalsInv'
  BY StepSignals
<1>3. SignalsInv => TypeOK
  BY DEF SignalsInv
<1> QED
  BY <1>1, <1>2, <1>3, PTL DEF Spec

-----------------------------------------------------------------------------
(***************************************************************************)
(* How often a signal becomes a correction.  While it is not in            *)
(* correction_review_seen.jsonl, those who have it in promoted_keys have   *)
(* appended it, and so has whoever was cut short.  Once it is there nobody *)
(* takes it up, and only those who still have it to append will.           *)
(***************************************************************************)
Cuts == failures + deaths
Limit == Cardinality(Promoters) + Cuts

Holders(f, k) == {p \in Promoters : k \in f[p]}

CountedOf(k) ==
    /\ Holders(left, k) \cap Holders(done, k) = {}
    /\ reviewed[k] = "no" => corrections[k] <= Cardinality(Holders(done, k)) + Cuts
    /\ reviewed[k] # "no" => corrections[k] + Cardinality(Holders(left, k)) <= Limit

Counted == \A k \in Signals : CountedOf(k)

LEMMA HoldersAreFinite ==
    ASSUME NEW S, S \subseteq Promoters
    PROVE  /\ IsFiniteSet(S) /\ Cardinality(S) \in Nat
           /\ Cardinality(Promoters) \in Nat /\ Cardinality(S) <= Cardinality(Promoters)
           /\ \A T : T \subseteq S => Cardinality(T) \in Nat /\ Cardinality(T) <= Cardinality(S)
           /\ \A T : T \subseteq Promoters /\ S \cap T = {}
                     => Cardinality(S) + Cardinality(T) <= Cardinality(Promoters)
           /\ \A p \in Promoters \ S : Cardinality(S \cup {p}) = Cardinality(S) + 1
           /\ \A p \in S : Cardinality(S \ {p}) = Cardinality(S) - 1
<1>1. /\ IsFiniteSet(Promoters) /\ Cardinality(Promoters) \in Nat
      /\ \A T : T \subseteq Promoters => /\ IsFiniteSet(T) /\ Cardinality(T) \in Nat
                                         /\ Cardinality(T) <= Cardinality(Promoters)
  BY SignalsAssumption, FS_Subset, FS_CardinalityType
<1>2. ASSUME NEW T, T \subseteq S
      PROVE  Cardinality(T) \in Nat /\ Cardinality(T) <= Cardinality(S)
  BY <1>1, <1>2, FS_Subset, FS_CardinalityType
<1>3. ASSUME NEW T, T \subseteq Promoters, S \cap T = {}
      PROVE  Cardinality(S) + Cardinality(T) <= Cardinality(Promoters)
  <2>1. Cardinality(S \cup T) = Cardinality(S) + Cardinality(T) - Cardinality(S \cap T)
    BY <1>1, <1>3, FS_Union
  <2>2. Cardinality(S \cap T) = 0
    BY <1>3, FS_EmptySet
  <2>3. Cardinality(S \cup T) \in Nat /\ Cardinality(S \cup T) <= Cardinality(Promoters)
    <3>1. S \cup T \subseteq Promoters
      BY <1>3
    <3> QED
      BY <1>1, <3>1
  <2> QED
    BY <1>1, <1>3, <2>1, <2>2, <2>3
<1>4. ASSUME NEW p \in Promoters \ S PROVE Cardinality(S \cup {p}) = Cardinality(S) + 1
  BY <1>1, FS_AddElement
<1>5. ASSUME NEW p \in S PROVE Cardinality(S \ {p}) = Cardinality(S) - 1
  BY <1>1, FS_RemoveElement
<1> QED
  BY <1>1, <1>2, <1>3, <1>4, <1>5

LEMMA CountTyped ==
    ASSUME TypeOK
    PROVE  /\ Cuts \in Nat /\ Limit \in Nat
           /\ Cardinality(Promoters) \in Nat /\ Limit = Cardinality(Promoters) + Cuts
           /\ \A k \in Signals : corrections[k] \in Nat
<1>1. Cuts \in Nat
  BY SignalsAssumption DEF TypeOK, Cuts
<1>2. Cardinality(Promoters) \in Nat
  BY HoldersAreFinite
<1>3. \A k \in Signals : corrections[k] \in Nat
  BY DEF TypeOK
<1> QED
  BY <1>1, <1>2, <1>3 DEF Limit

(* A step that appends no k, by which nobody new holds it and fewer have it  *)
(* to record only if it is recorded, or if somebody is cut short.            *)
LEMMA CountStays ==
    ASSUME TypeOK, NEW k \in Signals, CountedOf(k), corrections'[k] = corrections[k],
           Holders(left, k)' \subseteq Holders(left, k),
           Holders(done, k)' \subseteq Holders(done, k),
           \/ Cuts' = Cuts /\ (reviewed'[k] = "no" => reviewed[k] = "no"
                                                     /\ Holders(done, k)' = Holders(done, k))
           \/ /\ Cuts' = Cuts + 1 /\ reviewed'[k] = reviewed[k]
              /\ \E p \in Promoters : Holders(done, k) \ {p} \subseteq Holders(done, k)'
    PROVE  CountedOf(k)'
<1> DEFINE L == Holders(left, k)
           D == Holders(done, k)
           n == Cardinality(Promoters)
<1>0. /\ Cuts \in Nat /\ n \in Nat /\ corrections[k] \in Nat
      /\ Limit = n + Cuts /\ Limit' = n + Cuts'
  BY CountTyped DEF Limit
<1>1. L \subseteq Promoters /\ D \subseteq Promoters /\ L' \subseteq Promoters /\ D' \subseteq Promoters
  BY DEF Holders
<1>2. /\ Cardinality(L) \in Nat /\ Cardinality(D) \in Nat
      /\ Cardinality(L') \in Nat /\ Cardinality(D') \in Nat
      /\ Cardinality(L') <= Cardinality(L)
  BY <1>1, HoldersAreFinite
<1>3. L \cap D = {} /\ L' \cap D' = {}
  BY DEF CountedOf
<1>4. Cardinality(L) + Cardinality(D) <= n
  BY <1>1, <1>3, HoldersAreFinite
<1>5. Cuts' = Cuts + 1 => Cardinality(D) <= Cardinality(D') + 1
  <2> SUFFICES ASSUME Cuts' = Cuts + 1 PROVE Cardinality(D) <= Cardinality(D') + 1
    OBVIOUS
  <2>1. PICK p \in Promoters : D \ {p} \subseteq D'
    BY <1>0
  <2>2. CASE p \in D
    <3>1. Cardinality(D \ {p}) = Cardinality(D) - 1
      BY <1>1, <2>2, HoldersAreFinite
    <3>2. Cardinality(D \ {p}) <= Cardinality(D')
      BY <1>1, <2>1, HoldersAreFinite
    <3> QED
      BY <1>2, <3>1, <3>2
  <2>3. CASE p \notin D
    <3>1. D \subseteq D'
      BY <2>1, <2>3
    <3>2. Cardinality(D) <= Cardinality(D')
      BY <1>1, <3>1, HoldersAreFinite
    <3> QED
      BY <1>2, <3>2
  <2> QED
    BY <2>2, <2>3
<1>6. /\ reviewed[k] = "no" => corrections[k] <= Cardinality(D) + Cuts
      /\ reviewed[k] # "no" => corrections[k] + Cardinality(L) <= n + Cuts
  BY <1>0 DEF CountedOf
<1>7. corrections[k] + Cardinality(L) <= n + Cuts
  BY <1>0, <1>2, <1>4, <1>6
<1> HIDE DEF L, D, n
<1>8. CASE Cuts' = Cuts
  <2>1. reviewed'[k] = "no" => reviewed[k] = "no" /\ D' = D
    BY <1>0, <1>8 DEF D
  <2>2. reviewed'[k] = "no" => corrections'[k] <= Cardinality(D') + Cuts'
    BY <1>6, <1>8, <2>1
  <2>3. corrections'[k] + Cardinality(L') <= n + Cuts'
    BY <1>0, <1>2, <1>7, <1>8
  <2> QED
    BY <1>0, <1>3, <2>2, <2>3 DEF CountedOf, L, D
<1>9. CASE Cuts' = Cuts + 1
  <2>1. reviewed'[k] = reviewed[k]
    BY <1>0, <1>9
  <2>2. reviewed'[k] = "no" => corrections'[k] <= Cardinality(D') + Cuts'
    BY <1>0, <1>2, <1>5, <1>6, <1>9, <2>1
  <2>3. corrections'[k] + Cardinality(L') <= n + Cuts'
    BY <1>0, <1>2, <1>7, <1>9
  <2> QED
    BY <1>0, <1>3, <2>2, <2>3 DEF CountedOf, L, D
<1> QED
  BY <1>8, <1>9

(* The same for all signals, where nobody is cut short. *)
LEMMA QuietCounts ==
    ASSUME TypeOK, Counted, UNCHANGED <<corrections, left, done, failures, deaths>>,
           \A k \in Signals : reviewed'[k] = "no" => reviewed[k] = "no"
    PROVE  Counted'
<1>1. ASSUME NEW k \in Signals PROVE CountedOf(k)'
  <2>1. Holders(left, k)' = Holders(left, k) /\ Holders(done, k)' = Holders(done, k) /\ Cuts' = Cuts
    BY DEF Holders, Cuts
  <2> QED
    BY <2>1, CountStays DEF Counted
<1> QED
  BY <1>1 DEF Counted

(* One promotion is cut short, or one key of its is not recorded. *)
LEMMA CutCounts ==
    ASSUME TypeOK, Counted, NEW p \in Promoters, Cuts' = Cuts + 1,
           UNCHANGED <<corrections, reviewed>>,
           \A q \in Promoters : left'[q] \subseteq left[q] /\ done'[q] \subseteq done[q],
           \A q \in Promoters : q # p => done'[q] = done[q]
    PROVE  Counted'
<1>1. ASSUME NEW k \in Signals PROVE CountedOf(k)'
  <2>1. /\ Holders(left, k)' \subseteq Holders(left, k)
        /\ Holders(done, k)' \subseteq Holders(done, k)
        /\ Holders(done, k) \ {p} \subseteq Holders(done, k)'
    BY DEF Holders
  <2> QED
    BY <2>1, CountStays DEF Counted
<1> QED
  BY <1>1 DEF Counted

LEMMA StepCounted == TypeOK /\ Counted /\ [Next]_vars => Counted'
<1> SUFFICES ASSUME TypeOK, Counted, [Next]_vars PROVE Counted'
  OBVIOUS
<1>0. Cuts \in Nat /\ failures \in Nat /\ deaths \in Nat
  BY SignalsAssumption DEF TypeOK, Cuts
<1>1. ASSUME NEW k \in Signals, Detect(k) \/ Age(k) PROVE Counted'
  BY <1>1, QuietCounts DEF Detect, Age
<1>2. ASSUME NEW k \in Signals, Reject(k) PROVE Counted'
  BY <1>2, QuietCounts DEF Reject, TypeOK
<1>3. ASSUME NEW p \in Promoters, PromoteRead(p) PROVE Counted'
  <2>1. /\ left[p] = {} /\ done[p] = {}
        /\ UNCHANGED <<reviewed, corrections, done, failures, deaths>>
    BY <1>3 DEF PromoteRead, TypeOK
  <2>2. PICK K \in SUBSET Candidates : left' = [left EXCEPT ![p] = K]
    BY <1>3 DEF PromoteRead
  <2>3. \A q \in Promoters : left'[q] = IF q = p THEN K ELSE left[q]
    BY <2>2 DEF TypeOK
  <2>4. ASSUME NEW k \in Signals PROVE CountedOf(k)'
    <3>1. Holders(done, k)' = Holders(done, k) /\ p \notin Holders(done, k) /\ Cuts' = Cuts
      BY <2>1 DEF Holders, Cuts
    <3>2. CASE k \in K
      <4>1. reviewed'[k] = "no" /\ reviewed[k] = "no"
        BY <2>1, <3>2 DEF Candidates
      <4>2. Holders(left, k)' \subseteq Holders(left, k) \cup {p}
        BY <2>3 DEF Holders
      <4> QED
        BY <2>1, <3>1, <4>1, <4>2 DEF Counted, CountedOf
    <3>3. CASE k \notin K
      <4>1. Holders(left, k)' = Holders(left, k)
        BY <2>1, <2>3, <3>3 DEF Holders
      <4> QED
        BY <2>1, <3>1, <4>1, CountStays DEF Counted
    <3> QED
      BY <3>2, <3>3
  <2> QED
    BY <2>4 DEF Counted
<1>4. ASSUME NEW p \in Promoters, PromoteAppend(p) PROVE Counted'
  <2>1. PICK k \in left[p] : /\ corrections' = [corrections EXCEPT ![k] = @ + 1]
                             /\ left' = [left EXCEPT ![p] = @ \ {k}]
                             /\ done' = [done EXCEPT ![p] = @ \cup {k}]
    BY <1>4 DEF PromoteAppend
  <2>2. k \in Signals /\ Cuts' = Cuts /\ UNCHANGED reviewed
    BY <1>4 DEF PromoteAppend, TypeOK, Cuts
  <2>3. \A q \in Promoters : /\ left'[q] = IF q = p THEN left[q] \ {k} ELSE left[q]
                             /\ done'[q] = IF q = p THEN done[q] \cup {k} ELSE done[q]
    BY <2>1 DEF TypeOK
  <2>4. ASSUME NEW j \in Signals, j # k PROVE CountedOf(j)'
    <3>1. Holders(left, j)' = Holders(left, j) /\ Holders(done, j)' = Holders(done, j)
      BY <2>3, <2>4 DEF Holders
    <3>2. corrections'[j] = corrections[j]
      BY <2>1, <2>4 DEF TypeOK
    <3> QED
      BY <2>2, <3>1, <3>2, CountStays DEF Counted
  <2>5. CountedOf(k)'
    <3> DEFINE L == Holders(left, k)
               D == Holders(done, k)
    <3>1. p \in L /\ L \cap D = {} /\ L \subseteq Promoters /\ D \subseteq Promoters
      BY <2>1, <2>2 DEF Counted, CountedOf, Holders
    <3>2. L' = L \ {p} /\ D' = D \cup {p}
      BY <2>3 DEF Holders
    <3>3. p \in Promoters \ D
      BY <3>1
    <3>4. /\ Cardinality(L) \in Nat /\ Cardinality(D) \in Nat
          /\ Cardinality(L') = Cardinality(L) - 1 /\ Cardinality(D') = Cardinality(D) + 1
      BY <3>1, <3>2, <3>3, HoldersAreFinite
    <3>5. corrections'[k] = corrections[k] + 1 /\ corrections[k] \in Nat /\ Limit \in Nat /\ Limit' = Limit
      BY <2>1, <2>2, CountTyped DEF TypeOK, Limit
    <3>6. L' \cap D' = {}
      BY <3>1, <3>2
    <3>7. /\ reviewed[k] = "no" => corrections[k] <= Cardinality(D) + Cuts
          /\ reviewed[k] # "no" => corrections[k] + Cardinality(L) <= Limit
      BY <2>2 DEF Counted, CountedOf
    <3> HIDE DEF L, D
    <3>8. /\ reviewed'[k] = "no" => corrections'[k] <= Cardinality(D') + Cuts'
          /\ reviewed'[k] # "no" => corrections'[k] + Cardinality(L') <= Limit'
      BY <1>0, <2>2, <3>4, <3>5, <3>7
    <3> QED
      BY <3>6, <3>8 DEF CountedOf, L, D
  <2> QED
    BY <2>4, <2>5 DEF Counted
<1>5. ASSUME NEW p \in Promoters, PromoteFail(p) \/ PromoterDies(p) \/ ReviewFail(p) PROVE Counted'
  <2>1. /\ UNCHANGED <<corrections, reviewed>>
        /\ \/ failures' = failures + 1 /\ deaths' = deaths
           \/ failures' = failures /\ deaths' = deaths + 1
    BY <1>5 DEF PromoteFail, PromoterDies, ReviewFail
  <2>2. Cuts' = Cuts + 1
    BY <1>0, <2>1 DEF Cuts
  <2>3. /\ \A q \in Promoters : left'[q] \subseteq left[q] /\ done'[q] \subseteq done[q]
        /\ \A q \in Promoters : q # p => done'[q] = done[q]
    BY <1>5 DEF PromoteFail, PromoterDies, ReviewFail, Abandon, TypeOK
  <2> QED
    BY <2>1, <2>2, <2>3, CutCounts
<1>6. ASSUME NEW p \in Promoters, MarkRead(p) \/ MarkWrite(p) PROVE Counted'
  BY <1>6, QuietCounts DEF MarkRead, MarkWrite
<1>7. ASSUME NEW p \in Promoters, Review(p) PROVE Counted'
  <2>1. PICK k \in done[p] :
          /\ reviewed' = [reviewed EXCEPT ![k] = IF @ = "no" THEN "promoted" ELSE @]
          /\ done' = [done EXCEPT ![p] = @ \ {k}]
    BY <1>7 DEF Review
  <2>2. UNCHANGED <<corrections, left>> /\ Cuts' = Cuts /\ k \in Signals
    BY <1>7 DEF Review, TypeOK, Cuts
  <2>3. \A q \in Promoters : done'[q] = IF q = p THEN done[q] \ {k} ELSE done[q]
    BY <2>1 DEF TypeOK
  <2>4. reviewed'[k] # "no" /\ \A j \in Signals : j # k => reviewed'[j] = reviewed[j]
    BY <2>1, <2>2 DEF TypeOK
  <2>5. ASSUME NEW j \in Signals PROVE CountedOf(j)'
    <3>1. Holders(left, j)' = Holders(left, j) /\ Holders(done, j)' \subseteq Holders(done, j)
          /\ (j # k => Holders(done, j)' = Holders(done, j))
      BY <2>2, <2>3 DEF Holders
    <3> QED
      BY <2>2, <2>4, <3>1, CountStays DEF Counted
  <2> QED
    BY <2>5 DEF Counted
<1>8. ASSUME NEW p \in Promoters, ReviewEnd(p) PROVE Counted'
  <2>1. UNCHANGED <<corrections, reviewed>> /\ Cuts' = Cuts
    BY <1>8 DEF ReviewEnd, Cuts
  <2>2. \A q \in Promoters : left'[q] \subseteq left[q] /\ done'[q] = done[q]
    BY <1>8 DEF ReviewEnd, Abandon, TypeOK
  <2>3. ASSUME NEW k \in Signals PROVE CountedOf(k)'
    <3>1. Holders(left, k)' \subseteq Holders(left, k) /\ Holders(done, k)' = Holders(done, k)
      BY <2>2 DEF Holders
    <3> QED
      BY <2>1, <3>1, CountStays DEF Counted
  <2> QED
    BY <2>3 DEF Counted
<1>9. ASSUME NEW e \in Expirers, ExpireRead(e) \/ ExpireWrite(e) PROVE Counted'
  BY <1>9, QuietCounts DEF ExpireRead, ExpireWrite
<1>10. CASE UNCHANGED vars
  BY <1>10, QuietCounts DEF vars
<1> QED
  BY <1>1, <1>2, <1>3, <1>4, <1>5, <1>6, <1>7, <1>8, <1>9, <1>10 DEF Next

(***************************************************************************)
(* A signal is a correction at most once for each promotion that can be    *)
(* under way at a time, and once more only for one that was cut short or   *)
(* could not record the answer, although nothing keeps its mark in         *)
(* weak_signals.jsonl from being overwritten (promote_signals,             *)
(* record_reviewed).                                                       *)
(***************************************************************************)
THEOREM RepeatsBounded == Spec => []RepeatsArePaidFor
<1>1. Init => TypeOK /\ Counted
  <2> SUFFICES ASSUME Init, NEW k \in Signals PROVE CountedOf(k)
    BY InitSignals DEF SignalsInv, Counted
  <2>1. corrections[k] = 0 /\ reviewed[k] = "no"
        /\ Holders(left, k) = {} /\ Holders(done, k) = {}
    BY DEF Init, Holders
  <2>2. Cardinality(Holders(done, k)) = 0
    BY <2>1, FS_EmptySet
  <2>3. Cuts = 0
    BY DEF Init, Cuts
  <2> QED
    BY <2>1, <2>2, <2>3 DEF CountedOf
<1>2. TypeOK /\ Counted /\ [Next]_vars => (TypeOK /\ Counted)'
  BY StepSignalsTyped, StepCounted
<1>3. ASSUME TypeOK, Counted PROVE RepeatsArePaidFor
  <2>1. ASSUME NEW k \in Signals
        PROVE  corrections[k] <= Cardinality(Promoters) + failures + deaths
    <3>1. Holders(left, k) \subseteq Promoters /\ Holders(done, k) \subseteq Promoters
      BY DEF Holders
    <3>2. /\ Cardinality(Holders(left, k)) \in Nat /\ Cardinality(Holders(done, k)) \in Nat
          /\ Cardinality(Holders(done, k)) <= Cardinality(Promoters)
      BY <3>1, HoldersAreFinite
    <3>3. failures \in Nat /\ deaths \in Nat /\ corrections[k] \in Nat /\ Cardinality(Promoters) \in Nat
      BY <1>3, CountTyped, SignalsAssumption DEF TypeOK
    <3>4. /\ reviewed[k] = "no" => corrections[k] <= Cardinality(Holders(done, k)) + (failures + deaths)
          /\ reviewed[k] # "no" => corrections[k] + Cardinality(Holders(left, k))
                                      <= Cardinality(Promoters) + (failures + deaths)
      BY <1>3 DEF Counted, CountedOf, Limit, Cuts
    <3> QED
      BY <3>2, <3>3, <3>4
  <2> QED
    BY <2>1 DEF RepeatsArePaidFor
<1> QED
  BY <1>1, <1>2, <1>3, PTL DEF Spec
=============================================================================
