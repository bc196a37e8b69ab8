-------------------------- MODULE CorrectionStore --------------------------
(***************************************************************************)
(* corrections.jsonl and the processes that write it.                      *)
(*                                                                         *)
(* A hook or a promotion appends one line.  reflect changes the status of  *)
(* records it picked from an unlocked read; prune drops decided records    *)
(* that have aged; an invalidation marks records.  These three read the    *)
(* whole file and replace it, so that whatever they did not read is gone.  *)
(* All four hold the sidecar lock (see FileLock) and any of them may die   *)
(* at any step.  A writer that dies or finds the disk full in the middle   *)
(* of its line leaves a torn line, which no reader can parse and which     *)
(* swallows the line appended next.                                        *)
(***************************************************************************)
EXTENDS Naturals, Sequences, FiniteSets

CONSTANTS
    Ids,           \* correction ids
    Appenders,     \* correction_detect hooks and promotions
    Editors,       \* reflect --apply, --skip, --skip-all
    Sweepers,      \* prune's cleanup_corrections
    Invalidators,  \* invalidate_subagent_contaminated_corrections and its kin
    Junk,          \* a line json.loads rejects
    MaxLines       \* bound: physical lines of the file

Rewriters == Editors \cup Sweepers \cup Invalidators
Procs == Appenders \cup Rewriters
Nobody == "nobody"

ASSUME StoreAssumption ==
    /\ Appenders \cap Rewriters = {}
    /\ Editors \cap (Sweepers \cup Invalidators) = {}
    /\ Sweepers \cap Invalidators = {}
    /\ Nobody \notin Procs
    /\ Junk \notin [id : Ids, status : {"pending", "applied", "skipped"},
                    invalid : BOOLEAN]
    /\ MaxLines \in Nat

VARIABLES
    file,     \* the lines of corrections.jsonl
    torn,     \* the last line is unfinished: it has no newline
    lock,     \* who is inside corrections_write_lock
    pc,       \* where each process stands
    buf,      \* buf[p]: the lines a rewriter has read
    target,   \* target[e]: the index and identity of each record to edit
    status,   \* status[e]: the status an editor sets
    refused,  \* refused[e]: how update_reflect_status refused, if it did
    acked,    \* ids reported "appended" on a line of their own (history)
    shifted   \* shifted[e]: prune dropped records since e's read (history)

fileVars == <<file, torn>>
editVars == <<target, status, refused>>
vars == <<file, torn, lock, pc, buf, target, status, refused, acked, shifted>>

(* The lines that parse. *)
RecordLines(lines) == {i \in DOMAIN lines : lines[i] # Junk}
RecordsIn(lines) == {lines[i] : i \in RecordLines(lines)}
IdsIn(lines) == {r.id : r \in RecordsIn(lines)}

Log == INSTANCE CorrectionLog WITH log <- RecordsIn(file)

Line == Log!Record \cup {Junk}
Target == [index : Nat, id : Ids]

(* A record's place among the lines that parse, torn lines not counted: the *)
(* index of iter_indexed_lines.                                             *)
RecordIndexOf(lines, i) == Cardinality({k \in RecordLines(lines) : k < i})

(* f lists the places of lines that are not in drop, in their order. *)
ListsRest(f, lines, drop) ==
    /\ \A i, j \in DOMAIN f : i < j => f[i] < f[j]
    /\ {f[i] : i \in DOMAIN f} = DOMAIN lines \ drop

(* The file with the lines at E given a status, or marked, and nothing else. *)
SetStatusAt(lines, E, st) ==
    [i \in DOMAIN lines |-> IF i \in E THEN Log!Decide(lines[i], st) ELSE lines[i]]

InvalidateAt(lines, E) ==
    [i \in DOMAIN lines |-> IF i \in E THEN Log!Invalidate(lines[i]) ELSE lines[i]]

(* The lines whose places f lists. *)
LinesAt(lines, f) == [i \in DOMAIN f |-> lines[f[i]]]

TypeOK ==
    /\ file \in Seq(Line)
    /\ torn \in BOOLEAN
    /\ lock \in Procs \cup {Nobody}
    /\ pc \in [Procs -> {"idle", "want", "locked", "read"}]
    /\ buf \in [Rewriters -> Seq(Line)]
    /\ target \in [Editors -> SUBSET Target]
    /\ status \in [Editors -> {"applied", "skipped"}]
    /\ refused \in [Editors -> {"no", "identity_mismatch", "not_found"}]
    /\ acked \subseteq Ids
    /\ shifted \in [Editors -> BOOLEAN]

Init ==
    /\ file = <<>>
    /\ torn = FALSE
    /\ lock = Nobody
    /\ pc = [p \in Procs |-> "idle"]
    /\ buf = [p \in Rewriters |-> <<>>]
    /\ target = [e \in Editors |-> {}]
    /\ status = [e \in Editors |-> "applied"]
    /\ refused = [e \in Editors |-> "no"]
    /\ acked = {}
    /\ shifted = [e \in Editors |-> FALSE]

-----------------------------------------------------------------------------
(* Mutant: the lock is not taken. *)
AcquireNothing(p) ==
    /\ pc[p] = IF p \in Editors THEN "want" ELSE "idle"
    /\ pc' = [pc EXCEPT ![p] = "locked"]
    /\ UNCHANGED <<fileVars, lock, buf, editVars, acked, shifted>>

(* corrections_write_lock. *)
Acquire(p) ==
    /\ pc[p] = IF p \in Editors THEN "want" ELSE "idle"
    /\ lock = Nobody
    /\ lock' = p
    /\ pc' = [pc EXCEPT ![p] = "locked"]
    /\ UNCHANGED <<fileVars, buf, editVars, acked, shifted>>

(* The end of an operation, or of the process: the lock is dropped and what *)
(* the process had read is gone.                                            *)
Quit(p) ==
    /\ lock' = IF lock = p THEN Nobody ELSE lock
    /\ pc' = [pc EXCEPT ![p] = "idle"]
    /\ buf' = [q \in Rewriters |-> IF q = p THEN <<>> ELSE buf[q]]

Die(p) ==
    /\ pc[p] # "idle"
    /\ Quit(p)
    /\ UNCHANGED <<fileVars, editVars, acked, shifted>>

-----------------------------------------------------------------------------
NewRecord(id) == [id |-> id, status |-> "pending", invalid |-> FALSE]

(* Mutant: no duplicate_check. *)
AppendUnchecked(a) ==
    /\ a \in Appenders
    /\ pc[a] = "locked"
    /\ \E id \in Ids :
          /\ Len(file) < MaxLines
          /\ file' = Append(file, NewRecord(id))
          /\ acked' = acked \cup {id}
    /\ Quit(a)
    /\ UNCHANGED <<torn, editVars, shifted>>

(* append_correction_record and append_jsonl: refuse an id that is there,   *)
(* else write one line.  A torn last line takes the new one into itself.    *)
AppendLine(a) ==
    /\ a \in Appenders
    /\ pc[a] = "locked"
    /\ \E id \in Ids :
          IF id \in IdsIn(file) THEN UNCHANGED <<fileVars, acked>>
          ELSE /\ \/ torn /\ UNCHANGED file
                  \/ /\ ~torn
                     /\ Len(file) < MaxLines
                     /\ file' = Append(file, NewRecord(id))
               /\ torn' = FALSE
               /\ acked' = IF torn THEN acked ELSE acked \cup {id}
    /\ Quit(a)
    /\ UNCHANGED <<editVars, shifted>>

(* The write stops half way: the process dies, or gets "retry_required".   *)
(* Not covered: a write that stops between the record and its newline.     *)
(* Such a line is read as a record until the next append is glued to it,   *)
(* and then it is lost with that one.                                      *)
AppendTorn(a) ==
    /\ a \in Appenders
    /\ pc[a] = "locked"
    /\ \/ torn /\ UNCHANGED file
       \/ /\ ~torn
          /\ Len(file) < MaxLines
          /\ file' = Append(file, Junk)
    /\ torn' = TRUE
    /\ Quit(a)
    /\ UNCHANGED <<editVars, acked, shifted>>

-----------------------------------------------------------------------------
(* A rewriter inside the lock reads the whole file, and replaces it with    *)
(* one in which every line is ended.                                        *)
ReadAll(p) ==
    /\ p \in Rewriters
    /\ pc[p] = "locked"
    /\ buf' = [buf EXCEPT ![p] = file]
    /\ pc' = [pc EXCEPT ![p] = "read"]
    /\ UNCHANGED <<fileVars, lock, editVars, acked, shifted>>

Replace(lines) == file' = lines /\ torn' = FALSE

(* reflect reads without the lock and picks its records: --apply one of any *)
(* status, --skip and --skip-all some that it has not seen applied.         *)
EditBegin(e) ==
    /\ e \in Editors
    /\ pc[e] = "idle"
    /\ pc' = [pc EXCEPT ![e] = "want"]
    /\ \E T \in SUBSET RecordLines(file) \ {{}}, st \in {"applied", "skipped"} :
          /\ st = "applied" => Cardinality(T) = 1
          /\ st = "skipped" => \A i \in T : file[i].status # "applied"
          /\ target' = [target EXCEPT ![e] =
                 {[index |-> RecordIndexOf(file, i), id |-> file[i].id] : i \in T}]
          /\ status' = [status EXCEPT ![e] = st]
    /\ refused' = [refused EXCEPT ![e] = "no"]
    /\ shifted' = [shifted EXCEPT ![e] = FALSE]
    /\ UNCHANGED <<fileVars, lock, buf, acked>>

(* Mutant: the physical line number is taken for the index. *)
IsAtPhysical(lines, i, t) == i - 1 = t.index

IsAt(lines, i, t) == RecordIndexOf(lines, i) = t.index

Edited(e) == {i \in RecordLines(buf[e]) : \E t \in target[e] : IsAt(buf[e], i, t)}

(* Mutant: the index alone decides. *)
MismatchedNever(e) == FALSE

(* Some index now holds another record than the one that was picked. *)
Mismatched(e) ==
    \E i \in RecordLines(buf[e]), t \in target[e] :
        IsAt(buf[e], i, t) /\ buf[e][i].id # t.id

Missing(e) ==
    \E t \in target[e] : \A i \in RecordLines(buf[e]) : ~IsAt(buf[e], i, t)

(* update_reflect_status: all of its records are edited or none is. *)
EditWrite(e) ==
    /\ e \in Editors
    /\ pc[e] = "read"
    /\ \/ /\ Mismatched(e)
          /\ refused' = [refused EXCEPT ![e] = "identity_mismatch"]
          /\ UNCHANGED fileVars
       \/ /\ ~Mismatched(e)
          /\ Missing(e)
          /\ refused' = [refused EXCEPT ![e] = "not_found"]
          /\ UNCHANGED fileVars
       \/ /\ ~Mismatched(e)
          /\ ~Missing(e)
          /\ Replace(SetStatusAt(buf[e], Edited(e), status[e]))
          /\ UNCHANGED refused
    /\ Quit(e)
    /\ UNCHANGED <<target, status, acked, shifted>>

-----------------------------------------------------------------------------
(* Mutant: prune drops by age alone. *)
DroppableByAge(line) == line # Junk

(* A line prune may drop: a decided record.  Which of them have outlived    *)
(* their decay_days is the clock's business.                                *)
Droppable(line) == line # Junk /\ Log!Decided(line)

(* cleanup_corrections. *)
SweepWrite(s) ==
    /\ s \in Sweepers
    /\ pc[s] = "read"
    /\ \E aged \in SUBSET {i \in DOMAIN buf[s] : Droppable(buf[s][i])},
          n \in 0 .. Len(buf[s]) :
          /\ \E f \in [1 .. n -> DOMAIN buf[s]] :
                /\ ListsRest(f, buf[s], aged)
                /\ Replace(LinesAt(buf[s], f))
          /\ acked' = acked \ {buf[s][i].id : i \in aged}
          /\ shifted' = [e \in Editors |-> shifted[e] \/ (aged # {} /\ pc[e] # "idle")]
    /\ Quit(s)
    /\ UNCHANGED editVars

(* invalidate_subagent_contaminated_corrections: nothing is written when    *)
(* nothing is contaminated.                                                 *)
InvalidateWrite(v) ==
    /\ v \in Invalidators
    /\ pc[v] = "read"
    /\ \E found \in SUBSET {i \in RecordLines(buf[v]) : ~buf[v][i].invalid} :
          IF found = {} THEN UNCHANGED fileVars
          ELSE Replace(InvalidateAt(buf[v], found))
    /\ Quit(v)
    /\ UNCHANGED <<editVars, acked, shifted>>

ProcStep(p) ==
    \/ Acquire(p)
    \/ Die(p)
    \/ AppendLine(p)
    \/ AppendTorn(p)
    \/ ReadAll(p)
    \/ EditBegin(p)
    \/ EditWrite(p)
    \/ SweepWrite(p)
    \/ InvalidateWrite(p)

Next == \E p \in Procs : ProcStep(p)

Spec == Init /\ [][Next]_vars

-----------------------------------------------------------------------------
(* No two lines carry the same correction_id: reflect, prune and the fold   *)
(* take an id for one record, and drop both when there are two.             *)
UniqueIds ==
    \A i, j \in RecordLines(file) : file[i].id = file[j].id => i = j

(* A record whose append was reported "appended" is readable until prune    *)
(* drops it, whatever the rewriters do at the same time.  (Not one that was *)
(* glued to a torn line: the code does not protect it.)                     *)
AckedReadable == acked \subseteq IdsIn(file)

(* update_reflect_status changes only records its caller picked, though the *)
(* indexes it was given may have shifted since.                             *)
StatusHitsTarget ==
    [][\A r \in RecordsIn(file), q \in RecordsIn(file)' :
          r.id = q.id /\ r.status # q.status =>
             \E e \in Editors : /\ pc[e] = "read" /\ pc'[e] = "idle"
                               /\ q.status = status[e]
                               /\ \E t \in target[e] : t.id = r.id]_vars

(* It refuses only if prune has dropped records since the caller's read:    *)
(* neither appends nor torn lines disturb an index (issue 588).             *)
RefusalIsJustified ==
    \A e \in Editors : refused[e] # "no" => shifted[e]

(* Read as a set of records, the file is a log on which every operation     *)
(* takes effect at once: no append and no edit is lost to a rewrite.        *)
ImplementsLog == Log!LogSpec
=============================================================================
