-------------------------- MODULE TranscriptIngest --------------------------
(***************************************************************************)
(* The two incremental readers of the transcripts under ~/.claude/projects,*)
(* after scripts/lib/utterance_archive and scripts/lib/token_usage_ingest. *)
(*                                                                         *)
(* Claude Code appends to the transcripts while they are read.  The archive*)
(* keeps, per file, the modification time it saw and the number of lines   *)
(* it counted, and stores the utterances one by one.  The token ingest     *)
(* keeps the last record it saw and writes records and cursors of a chunk  *)
(* of files in one transaction.  Each holds its DuckDB file to the end, so *)
(* that a second run of the same kind fails at once.  The daily runner     *)
(* starts the one and, whatever became of it, the other.                   *)
(*                                                                         *)
(* Transcripts only grow; a resumed session starts with a copy of another. *)
(* A transcript that cannot be read is no error to either reader.          *)
(***************************************************************************)
EXTENDS Naturals, Sequences, SequencesExt, FiniteSets

CONSTANTS
    Files,       \* transcripts
    CHUNK_SIZE,  \* files per transaction of the token ingest
    MaxLines,    \* bound on the lines of all sessions
    MaxTicks,    \* bound on the clock
    MaxCrashes   \* bound on the runs cut short and on the reads that fail

ASSUME ChunkAssumption == CHUNK_SIZE \in Nat \ {0}
ASSUME BoundsAssumption ==
    MaxLines \in Nat /\ MaxTicks \in Nat \ {0} /\ MaxCrashes \in Nat

VARIABLES
    lines,     \* per file its lines
    mtime,     \* per file its modification time
    clock,     \* the time, as coarse as the file system's
    used,      \* lines spoken so far
    crashes,   \* runs cut short and reads that failed
    pc,        \* what the daily runner does next
    \* the archive
    utterances,\* utterances.db: the utterances
    state,     \* utterances.db: ingest_state per file
    waiting,      \* the files not looked at yet, of this ingest
    fileA, mtimeA, batchA,   \* the file being read, its time, its utterances to store
    \* the token ingest
    usage,     \* token_usage.db: the records
    progress,  \* token_usage.db: session_progress, the last record per file
    seenT, recordsT, cursorsT,   \* files scanned, what the next transaction holds
    \* history
    missed,    \* utterances appended or completed between a scan and its count, or
               \* that a scan did not get to
    tied       \* files that grew without a new modification time

fileVars == <<lines, mtime, clock, used>>
archiveVars == <<utterances, state, fileA, mtimeA, batchA>>
tokenVars == <<usage, progress, seenT, recordsT, cursorsT>>
runVars == <<pc, waiting, crashes>>
historyVars == <<missed, tied>>
ingestVars == <<fileVars, runVars, archiveVars, tokenVars, historyVars>>

Ids == 1 .. MaxLines
Kinds == {"user", "assistant"}
TranscriptLine == [id : Ids, kind : Kinds, whole : BOOLEAN]

None == 0
NoCursors == [f \in Files |-> None]
Unread == [mtime |-> None, offset |-> 0]

IngestInit ==
    /\ lines = [f \in Files |-> <<>>]
    /\ mtime = [f \in Files |-> 1]
    /\ clock = 1
    /\ used = 0
    /\ crashes = 0
    /\ utterances = {}
    /\ state = [f \in Files |-> Unread]
    /\ pc = "idle" /\ waiting = {}
    /\ fileA = None /\ mtimeA = None /\ batchA = {}
    /\ usage = {}
    /\ progress = [f \in Files |-> None]
    /\ seenT = 0 /\ recordsT = {} /\ cursorsT = NoCursors
    /\ missed = {}
    /\ tied = {}

------------------------------------------------------------------------------
(* Claude Code writes. *)

IdsOf(ls, kind) == {l.id : l \in {m \in ToSet(ls) : m.kind = kind /\ m.whole}}

\* The archive has scanned f and not counted its lines yet.
Scanned(f) == pc = "insert" /\ fileA = f

Touch(f) ==
    /\ mtime' = [mtime EXCEPT ![f] = clock]
    /\ tied' = IF mtime[f] = clock /\ lines[f] # <<>> THEN tied \cup {f} ELSE tied

\* A line, or the part of it that has reached the file.
Say(f) ==
    \E kind \in Kinds, whole \in BOOLEAN :
        /\ used < MaxLines
        /\ used' = used + 1
        /\ lines[f] # <<>> => Last(lines[f]).whole
        /\ lines' = [lines EXCEPT ![f] =
                        Append(@, [id |-> used + 1, kind |-> kind, whole |-> whole])]
        /\ Touch(f)
        /\ missed' = IF kind = "user" /\ whole /\ Scanned(f)
                     THEN missed \cup {used + 1} ELSE missed
        /\ UNCHANGED <<clock, runVars, archiveVars, tokenVars>>

\* The rest of a line: too late if it has been counted, or is about to be.
CompleteLine(f) ==
    /\ lines[f] # <<>> /\ ~Last(lines[f]).whole
    /\ lines' = [lines EXCEPT ![f][Len(lines[f])].whole = TRUE]
    /\ Touch(f)
    /\ missed' = IF /\ Last(lines[f]).kind = "user"
                    /\ Scanned(f) \/ Len(lines[f]) <= state[f].offset
                 THEN missed \cup {Last(lines[f]).id} ELSE missed
    /\ UNCHANGED <<clock, used, runVars, archiveVars, tokenVars>>

\* claude --resume: the new session repeats the lines of the old one.
Resume(f, g) ==
    /\ lines[f] = <<>> /\ lines[g] # <<>> /\ Last(lines[g]).whole
    /\ lines' = [lines EXCEPT ![f] = lines[g]]
    /\ Touch(f)
    /\ missed' = IF Scanned(f) THEN missed \cup IdsOf(lines[g], "user") ELSE missed
    /\ UNCHANGED <<clock, used, runVars, archiveVars, tokenVars>>

Tick ==
    /\ clock < MaxTicks
    /\ clock' = clock + 1
    /\ UNCHANGED <<lines, mtime, used, runVars, archiveVars, tokenVars, historyVars>>

------------------------------------------------------------------------------
(* utterance_archive.ingest_all_projects. *)

Crash == crashes < MaxCrashes /\ crashes' = crashes + 1

OpenArchive ==
    /\ pc = "idle"
    /\ waiting' = {f \in Files : lines[f] # <<>>}
    /\ pc' = "stat"
    /\ UNCHANGED <<fileVars, crashes, archiveVars, tokenVars, historyVars>>

\* Not touched since: the fast path.
SkipFile(f) ==
    /\ pc = "stat" /\ f \in waiting
    /\ mtime[f] <= state[f].mtime
    /\ waiting' = waiting \ {f}
    /\ UNCHANGED <<fileVars, pc, crashes, archiveVars, tokenVars, historyVars>>

\* Mutant: the time noted is that of the ingest.
StatFileNow(f) ==
    /\ pc = "stat" /\ f \in waiting
    /\ mtime[f] > state[f].mtime
    /\ fileA' = f
    /\ mtimeA' = clock
    /\ waiting' = waiting \ {f}
    /\ pc' = "extract"
    /\ UNCHANGED <<fileVars, crashes, utterances, state, batchA, tokenVars, historyVars>>

StatFile(f) ==
    /\ pc = "stat" /\ f \in waiting
    /\ mtime[f] > state[f].mtime
    /\ fileA' = f
    /\ mtimeA' = mtime[f]
    /\ waiting' = waiting \ {f}
    /\ pc' = "extract"
    /\ UNCHANGED <<fileVars, crashes, utterances, state, batchA, tokenVars, historyVars>>

\* The file is left for the next run.
StatFails(f) ==
    /\ pc = "stat" /\ f \in waiting
    /\ Crash
    /\ waiting' = waiting \ {f}
    /\ UNCHANGED <<fileVars, pc, archiveVars, tokenVars, historyVars>>

\* The utterances of fileA behind line n; a line that is not JSON yet is none.
UserIds(n) == IdsOf(SubSeq(lines[fileA], n + 1, Len(lines[fileA])), "user")

\* extract_utterances from line_offset on.
Extract ==
    /\ pc = "extract"
    /\ batchA' = UserIds(state[fileA].offset)
    /\ pc' = "insert"
    /\ UNCHANGED <<fileVars, crashes, utterances, state, waiting, fileA, mtimeA, tokenVars,
                   historyVars>>

\* The open or a read fails: the generator ends there as if the file did.
ExtractFails ==
    /\ pc = "extract"
    /\ Crash
    /\ \E n \in state[fileA].offset .. Len(lines[fileA]) :
          /\ batchA' = IdsOf(SubSeq(lines[fileA], state[fileA].offset + 1, n), "user")
          /\ missed' = missed \cup UserIds(n)
    /\ pc' = "insert"
    /\ UNCHANGED <<fileVars, utterances, state, waiting, fileA, mtimeA, tokenVars, tied>>

\* One INSERT .. ON CONFLICT DO NOTHING each, committed on its own, in the order
\* of the file: ids go up in it.
Insert ==
    /\ pc = "insert"
    /\ \E i \in batchA :
        /\ \A k \in batchA : i <= k
        /\ utterances' = utterances \cup {i}
        /\ batchA' = batchA \ {i}
    /\ UNCHANGED <<fileVars, runVars, state, fileA, mtimeA, tokenVars, historyVars>>

NextFile ==
    /\ pc' = "stat"
    /\ fileA' = None
    /\ mtimeA' = None

\* Mutant: the cursor is saved before the utterances.
CountFirst ==
    /\ pc = "insert"
    /\ state' = [state EXCEPT ![fileA] = [mtime |-> mtimeA, offset |-> Len(lines[fileA])]]
    /\ IF batchA = {} THEN NextFile ELSE UNCHANGED <<pc, fileA, mtimeA>>
    /\ UNCHANGED <<fileVars, crashes, utterances, waiting, batchA, tokenVars, historyVars>>

\* _file_line_count reads the file again; the time is the one seen before the scan.
Count ==
    /\ pc = "insert" /\ batchA = {}
    /\ state' = [state EXCEPT ![fileA] = [mtime |-> mtimeA, offset |-> Len(lines[fileA])]]
    /\ NextFile
    /\ UNCHANGED <<fileVars, crashes, utterances, waiting, batchA, tokenVars, historyVars>>

\* A file that cannot be read has no lines: the next scan starts at the first.
CountFails ==
    /\ pc = "insert" /\ batchA = {}
    /\ Crash
    /\ state' = [state EXCEPT ![fileA] = [mtime |-> mtimeA, offset |-> 0]]
    /\ NextFile
    /\ UNCHANGED <<fileVars, utterances, waiting, batchA, tokenVars, historyVars>>

CloseArchive ==
    /\ pc = "stat" /\ waiting = {}
    /\ pc' = "tokens"
    /\ UNCHANGED <<fileVars, waiting, crashes, archiveVars, tokenVars, historyVars>>

\* Killed, or an insert raised: what is committed stays, and the runner goes on
\* if it is not the one that was killed.
ArchiveDies ==
    /\ pc \in {"stat", "extract", "insert"}
    /\ Crash
    /\ pc' \in {"idle", "tokens"}
    /\ waiting' = {} /\ fileA' = None /\ mtimeA' = None /\ batchA' = {}
    /\ UNCHANGED <<fileVars, utterances, state, tokenVars, historyVars>>

------------------------------------------------------------------------------
(* token_usage_ingest.ingest_all_projects. *)

OpenTokens ==
    /\ pc = "tokens"
    /\ waiting' = {f \in Files : lines[f] # <<>>}
    /\ pc' = "scan"
    /\ UNCHANGED <<fileVars, crashes, archiveVars, tokenVars, historyVars>>

\* The lines that parse_transcript_line makes a record of.
Records(f) == {i \in DOMAIN lines[f] : lines[f][i].kind = "assistant" /\ lines[f][i].whole}

IdAtLast(f, S) == IF S = {} THEN None ELSE lines[f][CHOOSE i \in S : \A k \in S : k <= i].id

\* _scan_jsonl: the records behind the one with the cursor's id, or all if none has it.
After(f, cursor) ==
    {lines[f][i].id : i \in {k \in Records(f) :
        (\E c \in Records(f) : lines[f][c].id = cursor) =>
            \E c \in Records(f) : c < k /\ lines[f][c].id = cursor}}

\* Mutant: the cursor is the last record of the file, read or half written.
ScanToEnd(f) ==
    /\ pc = "scan" /\ f \in waiting
    /\ recordsT' = recordsT \cup After(f, progress[f])
    /\ cursorsT' = [cursorsT EXCEPT ![f] =
                        IdAtLast(f, {i \in DOMAIN lines[f] : lines[f][i].kind = "assistant"})]
    /\ waiting' = waiting \ {f}
    /\ seenT' = seenT + 1
    /\ pc' = IF (seenT + 1) % CHUNK_SIZE = 0 \/ waiting = {f} THEN "flush" ELSE "scan"
    /\ UNCHANGED <<fileVars, crashes, archiveVars, usage, progress, historyVars>>

\* Mutant: what is left over at the end is not flushed.
ScanInChunks(f) ==
    LET chunk == (seenT + 1) % CHUNK_SIZE = 0
        over == ~chunk /\ waiting = {f}
    IN
    /\ pc = "scan" /\ f \in waiting
    /\ recordsT' = IF over THEN {} ELSE recordsT \cup After(f, progress[f])
    /\ cursorsT' = IF over THEN NoCursors
                   ELSE [cursorsT EXCEPT ![f] = IdAtLast(f, Records(f))]
    /\ waiting' = waiting \ {f}
    /\ seenT' = IF over THEN 0 ELSE seenT + 1
    /\ pc' = IF chunk THEN "flush" ELSE IF over THEN "idle" ELSE "scan"
    /\ UNCHANGED <<fileVars, crashes, archiveVars, usage, progress, historyVars>>

Scan(f) ==
    /\ pc = "scan" /\ f \in waiting
    /\ recordsT' = recordsT \cup After(f, progress[f])
    /\ cursorsT' = [cursorsT EXCEPT ![f] = IdAtLast(f, Records(f))]
    /\ waiting' = waiting \ {f}
    /\ seenT' = seenT + 1
    /\ pc' = IF (seenT + 1) % CHUNK_SIZE = 0 \/ waiting = {f} THEN "flush" ELSE "scan"
    /\ UNCHANGED <<fileVars, crashes, archiveVars, usage, progress, historyVars>>

\* Nothing of a file that cannot be read is taken, and a chunk that would end
\* with it goes on.
ScanFails(f) ==
    /\ pc = "scan" /\ f \in waiting
    /\ Crash
    /\ waiting' = waiting \ {f}
    /\ seenT' = seenT + 1
    /\ pc' = IF waiting = {f} THEN "flush" ELSE "scan"
    /\ UNCHANGED <<fileVars, archiveVars, usage, progress, recordsT, cursorsT, historyVars>>

\* Without files there is nothing to flush.
NothingToScan ==
    /\ pc = "scan" /\ waiting = {}
    /\ pc' = "idle"
    /\ UNCHANGED <<fileVars, waiting, crashes, archiveVars, tokenVars, historyVars>>

\* BEGIN .. COMMIT: records and cursors together.
Flush ==
    /\ pc = "flush"
    /\ usage' = usage \cup recordsT
    /\ progress' = [f \in Files |-> IF cursorsT[f] = None THEN progress[f] ELSE cursorsT[f]]
    /\ recordsT' = {}
    /\ cursorsT' = NoCursors
    /\ IF waiting = {} THEN pc' = "idle" /\ seenT' = 0 ELSE pc' = "scan" /\ UNCHANGED seenT
    /\ UNCHANGED <<fileVars, waiting, crashes, archiveVars, historyVars>>

\* Killed, or the transaction failed and was rolled back.
TokensDie ==
    /\ pc \in {"scan", "flush"}
    /\ Crash
    /\ pc' = "idle" /\ waiting' = {} /\ seenT' = 0 /\ recordsT' = {} /\ cursorsT' = NoCursors
    /\ UNCHANGED <<fileVars, archiveVars, usage, progress, historyVars>>

Runner ==
    \/ OpenArchive \/ Extract \/ Insert \/ Count \/ CloseArchive
    \/ OpenTokens \/ NothingToScan \/ Flush
    \/ \E f \in Files : SkipFile(f) \/ StatFile(f) \/ Scan(f)

IngestNext ==
    \/ \E f \in Files : Say(f) \/ CompleteLine(f) \/ \E g \in Files : Resume(f, g)
    \/ Tick
    \/ Runner
    \/ \E f \in Files : StatFails(f) \/ ScanFails(f)
    \/ ExtractFails \/ CountFails \/ ArchiveDies \/ TokensDie

\* launchd starts the runner again every morning.
IngestSpec == IngestInit /\ [][IngestNext]_ingestVars /\ WF_ingestVars(Runner)

------------------------------------------------------------------------------
IngestTypeOK ==
    /\ lines \in [Files -> Seq(TranscriptLine)]
    /\ mtime \in [Files -> 1 .. MaxTicks] /\ clock \in 1 .. MaxTicks
    /\ used \in 0 .. MaxLines /\ crashes \in 0 .. MaxCrashes
    /\ utterances \subseteq Ids /\ usage \subseteq Ids
    /\ state \in [Files -> [mtime : Nat, offset : Nat]]
    /\ progress \in [Files -> Ids \cup {None}]
    /\ pc \in {"idle", "stat", "extract", "insert", "tokens", "scan", "flush"}
    /\ waiting \subseteq Files
    /\ fileA \in Files \cup {None} /\ mtimeA \in Nat
    /\ batchA \subseteq Ids /\ seenT \in Nat
    /\ recordsT \subseteq Ids /\ cursorsT \in [Files -> Ids \cup {None}]
    /\ missed \subseteq Ids /\ tied \subseteq Files

(* Every utterance the archive's cursor has passed is stored, whatever run  *)
(* was cut short between its rows and its cursor.  The exceptions: lines    *)
(* that were appended or completed between the scan of a file and the count *)
(* of its lines, or completed after they were counted; and the lines behind *)
(* a read that failed, which end a scan without an error.                   *)
UtterancesKept ==
    \A f \in Files :
        IdsOf(SubSeq(lines[f], 1, state[f].offset), "user") \subseteq utterances \cup missed

(* A file with utterances that are not in the archive, the exceptions above *)
(* apart, is not taken for an old one: the next run scans it, although a    *)
(* count that fails puts the cursor back to the first line.  It is taken    *)
(* for one if it grew within one tick of the file system's clock.           *)
GrowthIsSeen ==
    \A f \in Files :
        \/ IdsOf(lines[f], "user") \subseteq utterances \cup missed
        \/ mtime[f] > state[f].mtime
        \/ f \in tied

(* All records up to the cursor of a file are in token_usage.db, wherever a *)
(* run was cut short, whatever line was not written out when it was read.   *)
UsageComplete ==
    \A f \in Files : progress[f] # None =>
        \E i \in DOMAIN lines[f] :
            /\ lines[f][i].id = progress[f]
            /\ IdsOf(SubSeq(lines[f], 1, i), "assistant") \subseteq usage

(* Every record that is written is counted in the end. *)
UsageArrives ==
    \A i \in Ids : (\E f \in Files : i \in IdsOf(lines[f], "assistant")) ~> (i \in usage)
=============================================================================
