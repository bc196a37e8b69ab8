--------------------------- MODULE TriggerNotices ---------------------------
(***************************************************************************)
(* The trigger engine and its notices, after scripts/lib/trigger_engine,   *)
(* the hooks that call it and the drain of evolve.                         *)
(*                                                                         *)
(* evolve-state.json holds the time of the last evolve run and the history *)
(* of triggers fired.  Hooks of concurrent sessions and the drain load it, *)
(* change it and write it in place; the file is empty between the          *)
(* truncation and the write, and an empty file reads as {}.  A session end *)
(* that fires leaves a notice in pending-trigger.json, written in the same *)
(* way.  Two hooks of the next session deliver it: restore_state reads it  *)
(* under a lock, prints and then deletes; instructions_loaded reads it,    *)
(* deletes and then prints, without the lock.  The writer takes no lock.   *)
(*                                                                         *)
(* An evaluation that does not fire changes nothing and has no action.     *)
(* The model looks at one cooldown period: an entry of the history that is *)
(* seen keeps its reason from firing.                                      *)
(***************************************************************************)
EXTENDS Naturals, FiniteSets

CONSTANTS
    Writers,     \* session ends, prompts with corrections, drains
    Starters,    \* restore_state hooks
    Loaders,     \* instructions_loaded hooks
    Reasons,     \* trigger reasons
    Noticed,     \* the reasons that leave a notice: those of a session end
    Nobody,      \* the lock is free
    MaxRuns,     \* bound on the evolve runs drained
    MaxNotices,  \* bound on the notices written
    MaxFaults    \* bound on the deaths and on the reads, prints and deletions
                 \* that fail

ASSUME ReasonsAssumption == Noticed \subseteq Reasons /\ Reasons \cap Nat = {}
ASSUME ProcsAssumption ==
    /\ Nobody \notin Writers \cup Starters \cup Loaders
    /\ Writers \cap Starters = {} /\ Writers \cap Loaders = {} /\ Starters \cap Loaders = {}
ASSUME BoundsAssumption ==
    MaxRuns \in Nat /\ MaxNotices \in Nat /\ MaxFaults \in Nat

VARIABLES
    state,      \* evolve-state.json, Torn when it cannot be parsed
    pc,         \* what each process does next
    update,     \* what a writer adds to the state: the reasons fired, or the run
    copy,       \* the state it has loaded, with its change
    mixed,      \* writers that had evolve-state.json open with another one
    number,     \* the notice it will leave
    pending,    \* pending-trigger.json: Absent, Empty or the number of a notice
    cut,        \* writers whose open notice file has been removed
    crossed,    \* writers whose open notice file another writer has written
    held,       \* the notice a delivering hook has read, Empty if unreadable
    lock,       \* pending-trigger.json.lock
    runs,       \* evolve runs drained
    notices,    \* notices numbered so far
    faults,     \* faults so far
    done,       \* updates of the state that were saved (history)
    exposed,    \* those that met another load or save, or a file or a read
                \* that failed (history)
    written,    \* notices that were in the file (history)
    shown,      \* how often each notice was printed (history)
    late,       \* notices written since a hook read the file (history)
    settled,    \* notices superseded, or removed in a race (history)
    doubled     \* notices two hooks may show (history)

Procs == Writers \cup Starters \cup Loaders

stateVars == <<state, update, copy, mixed, done, exposed>>
noticeVars == <<number, pending, cut, crossed, held, lock, written, shown, late,
                settled, doubled>>
boundVars == <<runs, notices, faults>>
vars == <<state, pc, update, copy, mixed, number, pending, cut, crossed, held, lock,
          runs, notices, faults, done, exposed, written, shown, late, settled, doubled>>

\* last_run_timestamp and the reasons with an entry in trigger_history.
States == [run : 0 .. MaxRuns, fired : SUBSET Reasons]
Blank == [run |-> 0, fired |-> {}]
Torn == [torn |-> TRUE]

Facts == Reasons \cup (1 .. MaxRuns)
Reflects(s, fact) == IF fact \in Reasons THEN fact \in s.fired ELSE s.run >= fact

Absent == 0
Empty == MaxNotices + 1
Notices == 1 .. MaxNotices

Goto(p, label) == pc' = [pc EXCEPT ![p] = label]

Fault == faults < MaxFaults /\ faults' = faults + 1

\* Writers that have loaded the state and not saved it.
Loaded == {p \in Writers : pc[p] \in {"open", "save"}}

\* Those that have truncated it.
Saving == {p \in Writers : pc[p] = "save"}

Init ==
    /\ state = Blank
    /\ pc = [p \in Procs |-> "idle"]
    /\ update = [p \in Writers |-> {}]
    /\ copy = [p \in Writers |-> Blank]
    /\ mixed = {}
    /\ number = [p \in Writers |-> Absent]
    /\ pending = Absent
    /\ cut = {}
    /\ crossed = {}
    /\ held = [p \in Starters \cup Loaders |-> Absent]
    /\ lock = Nobody
    /\ runs = 0
    /\ notices = 0
    /\ faults = 0
    /\ done = {}
    /\ exposed = {}
    /\ written = {}
    /\ shown = [n \in Notices |-> 0]
    /\ late = [p \in Starters \cup Loaders |-> {}]
    /\ settled = {}
    /\ doubled = {}

------------------------------------------------------------------------------
(* evolve-state.json: load, change, write in place. *)

\* _load_state, load_evolve_state: a file that cannot be read or parsed is {},
\* and what is saved from it drops everything else.
Readings(s) ==
    \/ s = state /\ state # Torn /\ UNCHANGED <<exposed, faults>>
    \/ s = Blank /\ state = Torn /\ exposed' = done /\ UNCHANGED faults
    \/ s = Blank /\ state # Torn /\ exposed' = done /\ Fault

Load(p, u, changed) ==
    /\ pc[p] = "idle"
    /\ update' = [update EXCEPT ![p] = u]
    /\ copy' = [copy EXCEPT ![p] = changed]
    /\ Goto(p, "open")

\* evaluate_session_end: the reasons whose conditions hold and that have no
\* entry younger than the cooldown fire together, and leave a notice.
EvaluateSessionEnd(p) ==
    /\ notices < MaxNotices
    /\ notices' = notices + 1
    /\ number' = [number EXCEPT ![p] = notices + 1]
    /\ \E s \in States :
          /\ Readings(s)
          /\ \E due \in SUBSET (Noticed \ s.fired) \ {{}} :
                Load(p, due, [s EXCEPT !.fired = @ \cup due])
    /\ UNCHANGED <<state, mixed, done, pending, cut, crossed, held, lock, runs, written,
                   shown, late, settled, doubled>>

\* evaluate_corrections, evaluate_file_changed and the self-evolution triggers:
\* one reason, and the hook prints the message itself.
EvaluatePrompt(p) ==
    /\ \E s \in States :
          /\ Readings(s)
          /\ \E r \in Reasons \ (Noticed \cup s.fired) :
                Load(p, {r}, [s EXCEPT !.fired = @ \cup {r}])
    /\ UNCHANGED <<state, mixed, done, noticeVars, runs, notices>>

\* Mutant: the drain writes the key it knows and drops the others.
DrainAlone(p) ==
    /\ runs < MaxRuns
    /\ runs' = runs + 1
    /\ Load(p, {runs + 1}, [Blank EXCEPT !.run = runs + 1])
    /\ exposed' = IF state = Torn THEN done ELSE exposed
    /\ UNCHANGED <<state, mixed, done, noticeVars, notices, faults>>

\* persist_last_run_timestamp.
Drain(p) ==
    /\ runs < MaxRuns
    /\ runs' = runs + 1
    /\ \E s \in States : Readings(s) /\ Load(p, {runs + 1}, [s EXCEPT !.run = runs + 1])
    /\ UNCHANGED <<state, mixed, done, noticeVars, notices>>

\* write_text: the file is truncated first.
OpenState(p) ==
    /\ pc[p] = "open"
    /\ state' = Torn
    /\ mixed' = IF Saving = {} THEN mixed ELSE mixed \cup Saving \cup {p}
    /\ Goto(p, "save")
    /\ UNCHANGED <<update, copy, done, exposed, noticeVars, boundVars>>

\* Two writers that had the file open together leave the state of one, or its
\* text with the tail of the other's, which nobody can parse.  The last one may
\* be the one that leaves it.
SaveState(p) ==
    LET others == Loaded \ {p} IN
    /\ pc[p] = "save"
    /\ done' = done \cup update[p]
    /\ \/ /\ state' = copy[p]
          /\ exposed' = IF others # {} THEN exposed \cup update[p] ELSE exposed
       \/ /\ p \in mixed
          /\ state' = Torn
          /\ exposed' = IF Saving \ {p} = {} THEN done' ELSE exposed \cup update[p]
    /\ mixed' = mixed \ {p}
    /\ update' = [update EXCEPT ![p] = {}]
    /\ copy' = [copy EXCEPT ![p] = Blank]
    /\ Goto(p, IF number[p] = Absent THEN "idle" ELSE "openNotice")
    /\ UNCHANGED <<noticeVars, boundVars>>

------------------------------------------------------------------------------
(* pending-trigger.json: write_pending_trigger. *)

\* Writers whose open file is the one named pending-trigger.json.
Linked == {p \in Writers : pc[p] = "writeNotice"} \ cut

\* Deliverers between their read and their deletion.
Holding == {p \in Starters \cup Loaders : pc[p] \in {"print", "delete", "unlink"}}

OpenNotice(p) ==
    /\ pc[p] = "openNotice"
    /\ settled' = settled \cup ({pending} \cap Notices)
    /\ pending' = Empty
    /\ Goto(p, "writeNotice")
    /\ UNCHANGED <<stateVars, number, cut, crossed, held, lock, written, shown, late,
                   doubled, boundVars>>

\* Into a file that has been removed meanwhile; or over the notice of another
\* writer, possibly leaving a mixture that no reader can parse.
WriteNotice(p) ==
    LET n == number[p] IN
    /\ pc[p] = "writeNotice"
    /\ IF p \in cut
       THEN /\ settled' = settled \cup {n}
            /\ UNCHANGED <<pending, written, late, crossed>>
       ELSE /\ \/ /\ pending' = n
                  /\ written' = written \cup {n}
                  /\ late' = [q \in DOMAIN late |->
                                 IF q \in Holding THEN late[q] \cup {n} ELSE late[q]]
                  /\ settled' = settled \cup ({pending} \cap Notices)
               \/ /\ p \in crossed
                  /\ pending' = Empty
                  /\ settled' = settled \cup ({n, pending} \cap Notices)
                  /\ UNCHANGED <<written, late>>
            /\ crossed' = (crossed \cup Linked) \ {p}
    /\ cut' = cut \ {p}
    /\ number' = [number EXCEPT ![p] = Absent]
    /\ Goto(p, "idle")
    /\ UNCHANGED <<stateVars, held, lock, shown, doubled, boundVars>>

------------------------------------------------------------------------------
(* restore_state: read, print, then delete, under the lock. *)

Release(p) ==
    /\ lock' = Nobody
    /\ held' = [held EXCEPT ![p] = Absent]
    /\ late' = [late EXCEPT ![p] = {}]
    /\ Goto(p, "idle")

\* The file goes by its name.  What is removed is the notice that was read, one
\* that could not be read, one that a writer put there since, or the open file
\* of a writer.
Remove(p) ==
    /\ pending' = Absent
    /\ cut' = cut \cup Linked
    /\ settled' = settled \cup ({pending} \cap IF held[p] = Empty THEN Notices ELSE late[p])

\* Mutant: nothing keeps a second session start away from the notice.
PeekUnlocked(p) ==
    /\ pc[p] = "idle"
    /\ pending \in Notices
    /\ lock' = p
    /\ held' = [held EXCEPT ![p] = pending]
    /\ doubled' = IF \E q \in Loaders : pc[q] = "unlink" /\ held[q] = pending
                  THEN doubled \cup {pending} ELSE doubled
    /\ Goto(p, "print")
    /\ UNCHANGED <<stateVars, number, pending, cut, crossed, written, shown, late,
                   settled, boundVars>>

\* The sidecar lock, then the read; a file that cannot be parsed, like a
\* snoozed one, is left alone.
Peek(p) ==
    /\ pc[p] = "idle"
    /\ pending \in Notices
    /\ lock = Nobody
    /\ lock' = p
    /\ held' = [held EXCEPT ![p] = pending]
    /\ doubled' = IF \E q \in Loaders : pc[q] = "unlink" /\ held[q] = pending
                  THEN doubled \cup {pending} ELSE doubled
    /\ Goto(p, "print")
    /\ UNCHANGED <<stateVars, number, pending, cut, crossed, written, shown, late,
                   settled, boundVars>>

PrintNotice(p) ==
    /\ pc[p] = "print"
    /\ shown' = [shown EXCEPT ![held[p]] = @ + 1]
    /\ Goto(p, "delete")
    /\ UNCHANGED <<stateVars, number, pending, cut, crossed, held, lock, written, late,
                   settled, doubled, boundVars>>

\* Mutant: the commit runs although the print failed.
PrintFailsAcked(p) ==
    /\ pc[p] = "print"
    /\ Fault
    /\ Goto(p, "delete")
    /\ UNCHANGED <<stateVars, noticeVars, runs, notices>>

\* No commit: the notice waits for the next session.
PrintFails(p) ==
    /\ pc[p] = "print"
    /\ Fault
    /\ Release(p)
    /\ UNCHANGED <<stateVars, number, pending, cut, crossed, written, shown, settled,
                   doubled, runs, notices>>

Delete(p) ==
    /\ pc[p] = "delete"
    /\ Remove(p)
    /\ Release(p)
    /\ UNCHANGED <<stateVars, number, crossed, written, shown, doubled, boundVars>>

\* delete_pending_trigger swallows the error.
DeleteFails(p) ==
    /\ pc[p] = "delete"
    /\ Fault
    /\ doubled' = doubled \cup {held[p]}
    /\ Release(p)
    /\ UNCHANGED <<stateVars, number, pending, cut, crossed, written, shown, settled,
                   runs, notices>>

------------------------------------------------------------------------------
(* instructions_loaded: read, delete, then print, without the lock. *)

Read(p) ==
    /\ pc[p] = "idle"
    /\ pending # Absent
    /\ held' = [held EXCEPT ![p] = pending]
    /\ doubled' = IF \E q \in Holding : held[q] = pending
                  THEN doubled \cup {pending} ELSE doubled
    /\ Goto(p, "unlink")
    /\ UNCHANGED <<stateVars, number, pending, cut, crossed, lock, written, shown, late,
                   settled, boundVars>>

\* The error is taken for a file that cannot be parsed.
ReadFails(p) ==
    /\ pc[p] = "idle"
    /\ pending # Absent
    /\ Fault
    /\ held' = [held EXCEPT ![p] = Empty]
    /\ Goto(p, "unlink")
    /\ UNCHANGED <<stateVars, number, pending, cut, crossed, lock, written, shown, late,
                   settled, doubled, runs, notices>>

\* A file that could not be parsed is removed too, and nothing is shown.
Unlink(p) ==
    /\ pc[p] = "unlink"
    /\ Remove(p)
    /\ late' = [late EXCEPT ![p] = {}]
    /\ IF held[p] \in Notices /\ pending # Absent
       THEN Goto(p, "show") /\ UNCHANGED held
       ELSE Goto(p, "idle") /\ held' = [held EXCEPT ![p] = Absent]
    /\ UNCHANGED <<stateVars, number, crossed, lock, written, shown, doubled, boundVars>>

Show(p) ==
    /\ pc[p] = "show"
    /\ shown' = [shown EXCEPT ![held[p]] = @ + 1]
    /\ held' = [held EXCEPT ![p] = Absent]
    /\ Goto(p, "idle")
    /\ UNCHANGED <<stateVars, number, pending, cut, crossed, lock, written, late, settled,
                   doubled, boundVars>>

------------------------------------------------------------------------------
\* A hook is killed, by its timeout or otherwise, or fails.  A writer may have
\* written the beginning of its state, and leaves a file that cannot be parsed.
WriterDies(p) ==
    /\ pc[p] # "idle"
    /\ Fault
    /\ state' = state \/ (p \in Saving /\ state' = Torn)
    /\ exposed' = IF p \in Saving /\ state' = Torn /\ Saving \ {p} = {} THEN done ELSE exposed
    /\ mixed' = mixed \ {p}
    /\ Goto(p, "idle")
    /\ update' = [update EXCEPT ![p] = {}]
    /\ copy' = [copy EXCEPT ![p] = Blank]
    /\ number' = [number EXCEPT ![p] = Absent]
    /\ cut' = cut \ {p}
    /\ crossed' = crossed \ {p}
    /\ UNCHANGED <<done, pending, held, lock, written, shown, late,
                   settled, doubled, runs, notices>>

StarterDies(p) ==
    /\ pc[p] # "idle"
    /\ Fault
    /\ doubled' = IF pc[p] = "delete" THEN doubled \cup {held[p]} ELSE doubled
    /\ Release(p)
    /\ UNCHANGED <<stateVars, number, pending, cut, crossed, written, shown, settled,
                   runs, notices>>

\* After the deletion the notice goes with the hook.  Before it, this is also a
\* deletion that fails: the error is swallowed and nothing is shown.
LoaderDies(p) ==
    /\ pc[p] # "idle"
    /\ Fault
    /\ settled' = IF pc[p] = "show" THEN settled \cup {held[p]} ELSE settled
    /\ held' = [held EXCEPT ![p] = Absent]
    /\ late' = [late EXCEPT ![p] = {}]
    /\ Goto(p, "idle")
    /\ UNCHANGED <<stateVars, number, pending, cut, crossed, lock, written, shown,
                   doubled, runs, notices>>

WriterStep(p) ==
    \/ EvaluateSessionEnd(p) \/ EvaluatePrompt(p) \/ Drain(p)
    \/ OpenState(p) \/ SaveState(p)
    \/ OpenNotice(p) \/ WriteNotice(p) \/ WriterDies(p)

StarterStep(p) ==
    Peek(p) \/ PrintNotice(p) \/ PrintFails(p) \/ Delete(p) \/ DeleteFails(p) \/ StarterDies(p)

LoaderStep(p) == Read(p) \/ ReadFails(p) \/ Unlink(p) \/ Show(p) \/ LoaderDies(p)

Next ==
    \/ \E p \in Writers : WriterStep(p)
    \/ \E p \in Starters : StarterStep(p)
    \/ \E p \in Loaders : LoaderStep(p)

Spec == Init /\ [][Next]_vars

------------------------------------------------------------------------------
WriterLabels == {"idle", "open", "save", "openNotice", "writeNotice"}
DeliveryLabels == {"idle", "print", "delete", "unlink", "show"}

TypeOK ==
    /\ state \in States \cup {Torn}
    /\ pc \in [Procs -> WriterLabels \cup DeliveryLabels]
    /\ update \in [Writers -> SUBSET Facts]
    /\ copy \in [Writers -> States]
    /\ mixed \subseteq Writers
    /\ number \in [Writers -> 0 .. MaxNotices]
    /\ pending \in 0 .. Empty
    /\ cut \subseteq Writers /\ crossed \subseteq Writers
    /\ held \in [Starters \cup Loaders -> 0 .. Empty]
    /\ lock \in Starters \cup {Nobody}
    /\ runs \in 0 .. MaxRuns /\ notices \in 0 .. MaxNotices /\ faults \in 0 .. MaxFaults
    /\ done \subseteq Facts /\ exposed \subseteq Facts
    /\ shown \in [Notices -> Nat]
    /\ late \in [Starters \cup Loaders -> SUBSET Notices]
    /\ written \subseteq Notices /\ settled \subseteq Notices
    /\ doubled \subseteq Notices \cup {Empty}

(* A run that was drained and a trigger that fired are still in the state,  *)
(* so that a reason does not fire twice in its cooldown and the sessions    *)
(* are counted from the last run; while a writer has the file truncated,    *)
(* they are in what one is about to save.  The exceptions are updates saved *)
(* while another process had already loaded the state, and the updates that *)
(* were there when a process loaded a file it found truncated or could not  *)
(* read, when two writers left a mixture of their states, or when the only  *)
(* writer of a truncated file died.                                         *)
UpdatesKept ==
    \A fact \in done \ exposed :
        IF state # Torn THEN Reflects(state, fact)
        ELSE \E p \in Saving : Reflects(copy[p], fact)

(* A notice does not vanish: it waits in the file, a hook is about to print *)
(* it, or it was printed.  The exceptions: a writer truncated the file for  *)
(* a newer notice, whether or not it lived to write it; two writers of the  *)
(* file left a mixture of their notices, or the one wrote over the other;   *)
(* it was written between another hook's read and removal of the file, or   *)
(* into a file already removed; the hook that removes could not read it, or *)
(* died between the removal and the print.                                  *)
NoticeAccounted ==
    \A n \in written :
        \/ pending = n
        \/ shown[n] > 0
        \/ \E p \in Loaders : pc[p] = "show" /\ held[p] = n
        \/ n \in settled

(* A notice is printed once, however many sessions start at the same time,  *)
(* unless its deletion failed or died after the print, or a hook that does  *)
(* not take the lock held it as well.                                       *)
ShownOnce == \A n \in Notices : shown[n] <= 1 \/ n \in doubled
==============================================================================
