---------------------------- MODULE SessionStore ----------------------------
(***************************************************************************)
(* The session records, after scripts/lib/session_store.py.                *)
(*                                                                         *)
(* Hooks append a line to sessions.jsonl and nothing else.  A batch moves  *)
(* the lines to the table of sessions.db and then renames the file away;   *)
(* no reader looks at a renamed file.  Readers take the union of the table *)
(* and of the live file, one after the other.  When sessions.db is mostly  *)
(* free pages the batch copies it to a fresh file and puts that in its     *)
(* place.  The hook's append and the batch share no lock.                  *)
(*                                                                         *)
(* DuckDB lets one process at a time open the file for writing, and fails  *)
(* every other connection meanwhile, readers included.  Statements commit  *)
(* one by one.  A batch that cannot connect returns without a change.      *)
(*                                                                         *)
(* A deletion writes sessions.jsonl in place: it truncates the file and    *)
(* then writes the lines it keeps, at its own offset and without a lock.   *)
(* Who reads the file meanwhile sees a part of it; who renames it takes    *)
(* along what is still to be written; what is appended is written over.    *)
(***************************************************************************)
EXTENDS Naturals, FiniteSets

CONSTANTS
    Records,     \* session records, one of each session; (session_id, timestamp)
                 \* tells records apart
    Ingesters,   \* processes that run ingest or migrate_from_jsonl
    Deleters,    \* processes that run delete_by_session_ids
    Readers,     \* processes that count or query
    Nobody,      \* no connection
    MaxBatches,  \* bound on the batches and deletions started
    MaxCrashes   \* bound on the deaths of processes

Writers == Ingesters \cup Deleters

ASSUME ProcsAssumption ==
    /\ Ingesters \cap Deleters = {}
    /\ Readers \cap Writers = {}
    /\ Nobody \notin Writers
ASSUME BoundsAssumption == MaxBatches \in Nat /\ MaxCrashes \in Nat

VARIABLES
    live,      \* the records in sessions.jsonl
    torn,      \* its last line has no end, so the next one is glued to it
    table,     \* table[r]: rows of record r in the file named sessions.db
    copied,    \* sessions.db.compact exists
    fresh,     \* its rows
    conn,      \* who has sessions.db open for writing
    detached,  \* writers whose open file is no longer the one named sessions.db
    pc,        \* what each writer and reader does next
    batch,     \* lines a writer has read and not yet handled or written
    keys,      \* the rows an ingester knows to exist
    plan,      \* what follows the batch: rotate the file, compact the database
    seen,      \* records a reader has found so far
    batches,   \* batches and deletions started
    crashes,   \* deaths so far
    appended,  \* records a hook has written (history)
    deleted,   \* records whose deletion was asked for (history)
    raced,     \* records that met a race or a torn rewrite: where it grows, a
               \* race is named (history)
    floor,     \* what the union held when a reader began (history)
    disturbed  \* readers that met a batch (history)

fileVars == <<live, torn, table, copied, fresh, conn, detached>>
writerVars == <<batch, keys, plan>>
readerVars == <<seen, floor, disturbed>>
boundVars == <<batches, crashes>>
vars == <<live, torn, table, copied, fresh, conn, detached, pc, batch, keys, plan, seen,
          batches, crashes, appended, deleted, raced, floor, disturbed>>

NoRows == [r \in Records |-> 0]
NoPlan == [rotate |-> FALSE, compact |-> FALSE]
Plans == [rotate : BOOLEAN, compact : BOOLEAN]

Rows == {r \in Records : table[r] > 0}
Union == Rows \cup live

Goto(p, label) == pc' = [pc EXCEPT ![p] = label]

\* A writer that is done, or dead, keeps nothing.
Forget(p) ==
    /\ Goto(p, "idle")
    /\ batch' = [batch EXCEPT ![p] = {}]
    /\ keys' = [keys EXCEPT ![p] = {}]
    /\ plan' = [plan EXCEPT ![p] = NoPlan]

Disconnect(p) ==
    /\ conn' = IF conn = p THEN Nobody ELSE conn
    /\ detached' = detached \ {p}

\* Readers between their two reads.
Halfway == {c \in Readers : pc[c] = "readLive"}

\* Deletions in the middle of their write, "mixed" if another one wrote meanwhile.
Writing == {p \in Deleters : pc[p] \in {"write", "mixed"}}

\* The lines they are about to have written.
BeingWritten == UNION {batch[p] : p \in Writing}

Init ==
    /\ live = {}
    /\ torn = FALSE
    /\ table = NoRows
    /\ copied = FALSE
    /\ fresh = NoRows
    /\ conn = Nobody
    /\ detached = {}
    /\ pc = [p \in Writers \cup Readers |-> "idle"]
    /\ batch = [p \in Writers |-> {}]
    /\ keys = [p \in Writers |-> {}]
    /\ plan = [p \in Writers |-> NoPlan]
    /\ seen = [c \in Readers |-> {}]
    /\ batches = 0
    /\ crashes = 0
    /\ appended = {}
    /\ deleted = {}
    /\ raced = {}
    /\ floor = [c \in Readers |-> {}]
    /\ disturbed = {}

------------------------------------------------------------------------------
(* The hooks. *)

\* Writers that have read the live file and will yet rename or rewrite it.
Committed == {p \in Writers : \/ pc[p] \in {"insert", "rotate"} /\ plan[p].rotate
                              \/ pc[p] \in {"rewrite", "write", "mixed"}}

\* One line, under the sidecar lock of append_jsonl.  Glued to a line without
\* an end it cannot be parsed.
Append(r) ==
    /\ r \notin appended
    /\ live' = IF torn THEN live ELSE live \cup {r}
    /\ torn' = FALSE
    /\ appended' = appended \cup {r}
    /\ raced' = IF torn \/ Committed # {} THEN raced \cup {r} ELSE raced
    /\ UNCHANGED <<table, copied, fresh, conn, detached, pc, writerVars, readerVars,
                   boundVars, deleted>>

------------------------------------------------------------------------------
(* ingest, and migrate_from_jsonl, which leaves the file where it is. *)

Start ==
    /\ batches < MaxBatches
    /\ batches' = batches + 1
    /\ UNCHANGED crashes

\* Mutant: the batch does not look for rows that exist.
ConnectBlind(p, rotating) ==
    /\ pc[p] = "idle"
    /\ conn = Nobody
    /\ Start
    /\ conn' = p
    /\ plan' = [plan EXCEPT ![p] = [rotate |-> rotating, compact |-> FALSE]]
    /\ Goto(p, "read")
    /\ UNCHANGED <<live, torn, table, copied, fresh, detached, batch, keys, readerVars,
                   appended, deleted, raced>>

\* One connection for the whole batch; the keys of the rows that exist.
Connect(p, rotating) ==
    /\ pc[p] = "idle"
    /\ conn = Nobody
    /\ Start
    /\ conn' = p
    /\ keys' = [keys EXCEPT ![p] = Rows]
    /\ plan' = [plan EXCEPT ![p] = [rotate |-> rotating, compact |-> FALSE]]
    /\ Goto(p, "read")
    /\ UNCHANGED <<live, torn, table, copied, fresh, detached, batch, readerVars, appended, deleted, raced>>

\* The lines there are now.  A deletion that is writing the file hides some,
\* which the rename will take away unseen.
ReadLines(p) ==
    /\ pc[p] = "read"
    /\ batch' = [batch EXCEPT ![p] = live]
    /\ raced' = IF plan[p].rotate THEN raced \cup (BeingWritten \ live) ELSE raced
    /\ Goto(p, "insert")
    /\ UNCHANGED <<fileVars, keys, plan, readerVars, boundVars, appended, deleted>>

\* A row for a line whose key is unknown; another line is passed over.
\* The row is lost with the file when that is being replaced.
InsertRow(p, r) ==
    /\ pc[p] = "insert"
    /\ r \in batch[p]
    /\ batch' = [batch EXCEPT ![p] = @ \ {r}]
    /\ IF r \in keys[p]
       THEN UNCHANGED <<table, keys, raced>>
       ELSE /\ keys' = [keys EXCEPT ![p] = @ \cup {r}]
            /\ table' = IF p \in detached THEN table
                        ELSE [table EXCEPT ![r] = @ + 1]
            /\ raced' = IF p \in detached \/ \E q \in Writers : pc[q] = "replace"
                        THEN raced \cup {r} ELSE raced
    /\ UNCHANGED <<live, torn, copied, fresh, conn, detached, pc, plan, readerVars, boundVars,
                   appended, deleted>>

\* The connection closes; _needs_compaction was asked before.
CloseDb(p, compacting) ==
    /\ pc[p] = "insert"
    /\ batch[p] = {}
    /\ compacting => plan[p].rotate
    /\ Disconnect(p)
    /\ IF plan[p].rotate
       THEN /\ plan' = [plan EXCEPT ![p].compact = compacting]
            /\ keys' = [keys EXCEPT ![p] = {}]
            /\ Goto(p, "rotate")
            /\ UNCHANGED batch
       ELSE Forget(p)
    /\ UNCHANGED <<live, torn, table, copied, fresh, readerVars, boundVars, appended, deleted, raced>>

\* Mutant: the file is renamed although the batch failed.
IngestFailsRotating(p) ==
    /\ pc[p] \in {"read", "insert"}
    /\ Disconnect(p)
    /\ batch' = [batch EXCEPT ![p] = {}]
    /\ Goto(p, "rotate")
    /\ UNCHANGED <<live, torn, table, copied, fresh, keys, plan, readerVars, boundVars,
                   appended, deleted, raced>>

\* An exception in the batch: the file is kept for the next one.
IngestFails(p) ==
    /\ pc[p] \in {"read", "insert"}
    /\ Disconnect(p)
    /\ Forget(p)
    /\ UNCHANGED <<live, torn, table, copied, fresh, readerVars, boundVars, appended, deleted, raced>>

\* _rotate_jsonl renames whatever file is live now.  A deletion that is writing
\* it writes on into the renamed one.
Rotate(p) ==
    /\ pc[p] = "rotate"
    /\ live' = {}
    /\ torn' = FALSE
    /\ disturbed' = disturbed \cup Halfway
    /\ pc' = [q \in DOMAIN pc |->
                IF q = p THEN IF plan[p].compact THEN "copy" ELSE "idle"
                ELSE IF q \in Writing THEN "adrift" ELSE pc[q]]
    /\ plan' = IF plan[p].compact THEN plan ELSE [plan EXCEPT ![p] = NoPlan]
    /\ UNCHANGED <<table, copied, fresh, conn, detached, batch, keys, seen, floor, boundVars,
                   appended, deleted, raced>>

------------------------------------------------------------------------------
(* _compact_db. *)

\* The table is copied over a connection of its own, closed before the swap.
Copy(p) ==
    /\ pc[p] = "copy"
    /\ conn = Nobody
    /\ copied' = TRUE
    /\ fresh' = table
    /\ Goto(p, "replace")
    /\ UNCHANGED <<live, torn, table, conn, detached, writerVars, readerVars, boundVars,
                   appended, deleted, raced>>

\* A copy that was there before is removed all the same.
CopyFails(p) ==
    /\ pc[p] = "copy"
    /\ copied' = FALSE
    /\ fresh' = NoRows
    /\ Forget(p)
    /\ UNCHANGED <<live, torn, table, conn, detached, readerVars, boundVars, appended, deleted, raced>>

\* os.replace, by name: a connection that is open stays on the old file, and a
\* copy that another batch has already put in place is missing.
Replace(p) ==
    /\ pc[p] = "replace"
    /\ IF copied
       THEN /\ table' = fresh
            /\ fresh' = NoRows
            /\ copied' = FALSE
            /\ detached' = IF conn = Nobody THEN detached ELSE detached \cup {conn}
            /\ conn' = Nobody
            /\ disturbed' = disturbed \cup Halfway
       ELSE UNCHANGED <<table, fresh, copied, detached, conn, disturbed>>
    /\ Forget(p)
    /\ UNCHANGED <<live, torn, seen, floor, boundVars, appended, deleted, raced>>

------------------------------------------------------------------------------
(* delete_by_session_ids. *)

\* The rows go first, unless the database cannot be opened.
DeleteRows(p, r) ==
    /\ pc[p] = "idle"
    /\ Start
    /\ \/ conn = Nobody /\ table' = [table EXCEPT ![r] = 0]
       \/ UNCHANGED table
    /\ deleted' = deleted \cup {r}
    /\ batch' = [batch EXCEPT ![p] = {r}]
    /\ Goto(p, "filter")
    /\ UNCHANGED <<live, torn, copied, fresh, conn, detached, keys, plan, readerVars, appended, raced>>

\* Mutant: the condition is inverted, the lines to delete are kept.
FilterLinesInverted(p) ==
    /\ pc[p] = "filter"
    /\ batch' = [batch EXCEPT ![p] = live \cap @]
    /\ raced' = raced \cup (BeingWritten \ live)
    /\ Goto(p, "rewrite")
    /\ UNCHANGED <<fileVars, keys, plan, readerVars, boundVars, appended, deleted>>

\* Then the lines: read here, written below, no lock in between.  Lines that
\* another deletion is writing are not there to be kept.
FilterLines(p) ==
    /\ pc[p] = "filter"
    /\ batch' = [batch EXCEPT ![p] = live \ @]
    /\ raced' = raced \cup (BeingWritten \ live)
    /\ Goto(p, "rewrite")
    /\ UNCHANGED <<fileVars, keys, plan, readerVars, boundVars, appended, deleted>>

\* write_text truncates the file and writes it in pieces, which end anywhere.
\* A deletion that is writing it as well writes into the same file.
TruncateLines(p) ==
    /\ pc[p] = "rewrite"
    /\ live' \in SUBSET batch[p]
    /\ torn' \in BOOLEAN
    /\ disturbed' = disturbed \cup Halfway
    /\ pc' = [q \in DOMAIN pc |->
                IF q = p THEN IF Writing = {} THEN "write" ELSE "mixed"
                ELSE IF q \in Writing THEN "mixed" ELSE pc[q]]
    /\ UNCHANGED <<table, copied, fresh, conn, detached, writerVars, seen, floor, boundVars,
                   appended, deleted, raced>>

\* All lines are written, over any that were appended meanwhile.
WriteLines(p) ==
    /\ pc[p] = "write"
    /\ \E rest \in SUBSET live : live' = batch[p] \cup rest
    /\ torn' = FALSE
    /\ disturbed' = disturbed \cup Halfway
    /\ Forget(p)
    /\ UNCHANGED <<table, copied, fresh, conn, detached, seen, floor, boundVars, appended, deleted, raced>>

\* Two deletions wrote at once: each over pieces of the other.
WriteMixed(p) ==
    /\ pc[p] = "mixed"
    /\ live' \in SUBSET (batch[p] \cup live)
    /\ torn' \in BOOLEAN
    /\ raced' = raced \cup ((batch[p] \cup live) \ live')
    /\ disturbed' = disturbed \cup Halfway
    /\ Forget(p)
    /\ UNCHANGED <<table, copied, fresh, conn, detached, seen, floor, boundVars, appended, deleted>>

\* The file was renamed: nobody will see what is written.
WriteAdrift(p) ==
    /\ pc[p] = "adrift"
    /\ Forget(p)
    /\ UNCHANGED <<fileVars, readerVars, boundVars, appended, deleted, raced>>

\* A death in the middle of the write: what is not in the file is lost.
RewriteTorn(p) ==
    /\ p \in Writing
    /\ crashes < MaxCrashes
    /\ crashes' = crashes + 1
    /\ raced' = raced \cup (batch[p] \ live)
    /\ Forget(p)
    /\ UNCHANGED <<fileVars, readerVars, batches, appended, deleted>>

------------------------------------------------------------------------------
(* count_unique_since, query, read_session_records. *)

\* A read-only connection, which fails while a writer is connected; the error
\* is swallowed and the rows are missing from the answer.
ReadRows(c) ==
    /\ pc[c] = "idle"
    /\ floor' = [floor EXCEPT ![c] = Union]
    /\ IF conn = Nobody
       THEN /\ seen' = [seen EXCEPT ![c] = Rows]
            /\ disturbed' = disturbed \ {c}
       ELSE /\ seen' = [seen EXCEPT ![c] = {}]
            /\ disturbed' = disturbed \cup {c}
    /\ Goto(c, "readLive")
    /\ UNCHANGED <<fileVars, writerVars, boundVars, appended, deleted, raced>>

\* Mutant: the live file is only the fallback for an empty table.
ReadLiveInstead(c) ==
    /\ pc[c] = "readLive"
    /\ seen' = [seen EXCEPT ![c] = IF @ = {} THEN live ELSE @]
    /\ Goto(c, "answer")
    /\ UNCHANGED <<fileVars, writerVars, floor, disturbed, boundVars, appended, deleted, raced>>

ReadLive(c) ==
    /\ pc[c] = "readLive"
    /\ seen' = [seen EXCEPT ![c] = @ \cup live]
    /\ Goto(c, "answer")
    /\ UNCHANGED <<fileVars, writerVars, floor, disturbed, boundVars, appended, deleted, raced>>

Answer(c) ==
    /\ pc[c] = "answer"
    /\ Goto(c, "idle")
    /\ seen' = [seen EXCEPT ![c] = {}]
    /\ floor' = [floor EXCEPT ![c] = {}]
    /\ disturbed' = disturbed \ {c}
    /\ UNCHANGED <<fileVars, writerVars, boundVars, appended, deleted, raced>>

------------------------------------------------------------------------------
\* A writer dies: its connection is gone, its committed rows and files stay.
Crash(p) ==
    /\ pc[p] # "idle"
    /\ p \notin Writing
    /\ crashes < MaxCrashes
    /\ crashes' = crashes + 1
    /\ Disconnect(p)
    /\ Forget(p)
    /\ UNCHANGED <<live, torn, table, copied, fresh, readerVars, batches, appended, deleted, raced>>

IngesterStep(p) ==
    \/ \E b \in BOOLEAN : Connect(p, b) \/ CloseDb(p, b)
    \/ ReadLines(p)
    \/ \E r \in Records : InsertRow(p, r)
    \/ IngestFails(p) \/ Rotate(p)
    \/ Copy(p) \/ CopyFails(p) \/ Replace(p)

DeleterStep(p) ==
    \/ \E r \in Records : DeleteRows(p, r)
    \/ FilterLines(p) \/ TruncateLines(p)
    \/ WriteLines(p) \/ WriteMixed(p) \/ WriteAdrift(p) \/ RewriteTorn(p)

ReaderStep(c) == ReadRows(c) \/ ReadLive(c) \/ Answer(c)

Next ==
    \/ \E r \in Records : Append(r)
    \/ \E p \in Ingesters : IngesterStep(p)
    \/ \E p \in Deleters : DeleterStep(p)
    \/ \E p \in Writers : Crash(p)
    \/ \E c \in Readers : ReaderStep(c)

Spec == Init /\ [][Next]_vars

------------------------------------------------------------------------------
WriterLabels == {"idle", "read", "insert", "rotate", "copy", "replace", "filter", "rewrite",
                 "write", "mixed", "adrift"}
ReaderLabels == {"idle", "readLive", "answer"}

TypeOK ==
    /\ live \subseteq Records
    /\ torn \in BOOLEAN
    /\ table \in [Records -> Nat]
    /\ copied \in BOOLEAN
    /\ fresh \in [Records -> Nat]
    /\ conn \in Writers \cup {Nobody}
    /\ detached \subseteq Writers
    /\ pc \in [Writers \cup Readers -> WriterLabels \cup ReaderLabels]
    /\ batch \in [Writers -> SUBSET Records]
    /\ keys \in [Writers -> SUBSET Records]
    /\ plan \in [Writers -> Plans]
    /\ seen \in [Readers -> SUBSET Records]
    /\ floor \in [Readers -> SUBSET Records]
    /\ batches \in 0 .. MaxBatches
    /\ crashes \in 0 .. MaxCrashes
    /\ appended \subseteq Records
    /\ deleted \subseteq Records
    /\ raced \subseteq Records
    /\ disturbed \subseteq Readers

(* A record a hook has written is in the table, in the live file or among   *)
(* the lines a deletion is just writing, until its own deletion is asked    *)
(* for.  The exceptions are races: it was appended while a batch or a       *)
(* deletion had read the file and was still to rename or rewrite it; its    *)
(* row was inserted into a database about to be replaced by an earlier      *)
(* copy; a batch or another deletion read the file while a deletion was     *)
(* writing it and missed the line; two deletions wrote the file at once; a  *)
(* deletion died while it wrote the file, or the line was glued to the end  *)
(* that was left.                                                           *)
KeptUnlessRaced == appended \subseteq Union \cup BeingWritten \cup deleted \cup raced

(* However batches, deaths and compactions interleave, and although a batch *)
(* that died is repeated, a record has one row at most.                     *)
OneRow == \A r \in Records : table[r] <= 1

(* An answer leaves out no record the union held when the reader began,     *)
(* unless a writer was connected at its first read or the live file was     *)
(* renamed, truncated or written, or the database replaced, between its two *)
(* reads.  While a deletion is writing the file the union lacks what is     *)
(* still to be written, and so may an answer.                               *)
AnswerComplete ==
    \A c \in Readers :
        pc[c] = "answer" /\ c \notin disturbed => floor[c] \subseteq seen[c] \cup deleted
==============================================================================
