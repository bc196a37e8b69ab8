------------------------------ MODULE FileLock ------------------------------
(***************************************************************************)
(* The sidecar lock of scripts/lib/rl_common/file_lock.py.                 *)
(*                                                                         *)
(* A lock is a flock(2) on the inode that a path names, and the path may   *)
(* come to name another inode.  file_lock therefore looks at the path      *)
(* again once flock has returned; try_file_lock and read_only_file_lock do *)
(* not.  seqlock_read reads under the lock when the sidecar exists and     *)
(* otherwise reads without one, checking afterwards that no sidecar has    *)
(* appeared.                                                               *)
(*                                                                         *)
(* Each step below is one system call: open, flock, stat, the end of the   *)
(* critical section.  A crash closes the descriptor, which drops the lock. *)
(***************************************************************************)
EXTENDS Naturals

CONSTANTS
    Lockers,    \* processes that call file_lock (blocking)
    Triers,     \* processes that call try_file_lock (non-blocking)
    Readers,    \* processes that call seqlock_read
    MaxInodes,  \* bound: inodes ever created at the path
    MaxRetries  \* max_retries of seqlock_read

Procs == Lockers \cup Triers \cup Readers
Writers == Lockers \cup Triers
NoInode == 0
Free == "free"

ASSUME ProcsAssumption ==
    /\ Lockers \cap Triers = {}
    /\ Readers \cap (Lockers \cup Triers) = {}
    /\ Free \notin Procs

ASSUME BoundsAssumption ==
    /\ MaxInodes \in Nat \ {0}
    /\ MaxRetries \in Nat \ {0}

VARIABLES
    path,     \* the inode the sidecar path names, NoInode when absent
    created,  \* how many inodes have been created at the path
    holder,   \* holder[i]: the process whose flock holds inode i
    fd,       \* fd[p]: the inode p has open
    pc,       \* where each process stands
    tries,    \* tries[r]: the attempts of r's loop used so far
    overlap   \* overlap[r]: a writer was critical during r's read (history)

vars == <<path, created, holder, fd, pc, tries, overlap>>

Inodes == 1 .. MaxInodes

(* Nobody has removed the sidecar: one inode was created at most, and the   *)
(* path names it.                                                           *)
Intact == created <= 1 /\ path = created

Critical == {p \in Writers : pc[p] = "critical"}
Reading  == {r \in Readers : pc[r] \in {"lockedRead", "plainRead"}}

TypeOK ==
    /\ path \in 0 .. MaxInodes
    /\ created \in 0 .. MaxInodes
    /\ holder \in [Inodes -> Procs \cup {Free}]
    /\ fd \in [Procs -> 0 .. MaxInodes]
    /\ pc \in [Procs -> {"idle", "retry", "opened", "locked", "critical", "lockedRead",
                         "plainRead", "recheck", "returned", "timeout"}]
    /\ tries \in [Readers -> 0 .. MaxRetries]
    /\ overlap \in [Readers -> BOOLEAN]

Init ==
    /\ path = NoInode
    /\ created = 0
    /\ holder = [i \in Inodes |-> Free]
    /\ fd = [p \in Procs |-> NoInode]
    /\ pc = [p \in Procs |-> "idle"]
    /\ tries = [r \in Readers |-> 0]
    /\ overlap = [r \in Readers |-> FALSE]

-----------------------------------------------------------------------------
(* open(lock_path, "a"): opens what the path names, creating it if absent. *)
Open(p) ==
    /\ p \in Writers
    /\ pc[p] \in {"idle", "retry"}
    /\ \/ /\ path # NoInode
          /\ UNCHANGED <<path, created>>
       \/ /\ path = NoInode
          /\ created' = created + 1
          /\ path' = created + 1
    /\ fd' = [fd EXCEPT ![p] = path']
    /\ pc' = [pc EXCEPT ![p] = "opened"]
    /\ UNCHANGED <<holder, tries, overlap>>

(* p enters its critical section, which spoils every read in progress. *)
Enter(p) ==
    /\ pc' = [pc EXCEPT ![p] = "critical"]
    /\ overlap' = [r \in Readers |-> overlap[r] \/ r \in Reading]

(* Closing the descriptor drops whatever lock it holds. *)
Close(p) ==
    /\ holder' = [i \in Inodes |-> IF holder[i] = p THEN Free ELSE holder[i]]
    /\ fd' = [fd EXCEPT ![p] = NoInode]

(* flock(LOCK_EX) returns once nobody else holds the inode. *)
Flock(p) ==
    /\ p \in Lockers
    /\ pc[p] = "opened"
    /\ holder[fd[p]] = Free
    /\ holder' = [holder EXCEPT ![fd[p]] = p]
    /\ pc' = [pc EXCEPT ![p] = "locked"]
    /\ UNCHANGED <<path, created, fd, tries, overlap>>

(* Mutant: the lock is taken for good as soon as flock returns. *)
RecheckSkipped(p) ==
    /\ p \in Lockers
    /\ pc[p] = "locked"
    /\ Enter(p)
    /\ UNCHANGED <<path, created, holder, fd, tries>>

(* Mutant: the loop goes round with the descriptor it already has. *)
RecheckSameFile(p) ==
    /\ p \in Lockers
    /\ pc[p] = "locked"
    /\ \/ path = fd[p] /\ Enter(p) /\ UNCHANGED holder
       \/ /\ path # fd[p]
          /\ holder' = [holder EXCEPT ![fd[p]] = Free]
          /\ pc' = [pc EXCEPT ![p] = "opened"]
          /\ UNCHANGED overlap
    /\ UNCHANGED <<path, created, fd, tries>>

(* os.stat after flock: the path must still name the inode held, or the    *)
(* loop closes it and opens the path anew.                                 *)
Recheck(p) ==
    /\ p \in Lockers
    /\ pc[p] = "locked"
    /\ \/ /\ path = fd[p]
          /\ Enter(p)
          /\ UNCHANGED <<holder, fd>>
       \/ /\ path # fd[p]
          /\ Close(p)
          /\ pc' = [pc EXCEPT ![p] = "retry"]
          /\ UNCHANGED overlap
    /\ UNCHANGED <<path, created, tries>>

(* Mutant: BlockingIOError does not end the call. *)
TryFlockIgnoringBusy(p) ==
    /\ p \in Triers
    /\ pc[p] = "opened"
    /\ Enter(p)
    /\ UNCHANGED <<path, created, holder, fd, tries>>

(* try_file_lock: LOCK_NB, entered at once or given up; no second look. *)
TryFlock(p) ==
    /\ p \in Triers
    /\ pc[p] = "opened"
    /\ \/ /\ holder[fd[p]] = Free
          /\ holder' = [holder EXCEPT ![fd[p]] = p]
          /\ Enter(p)
          /\ UNCHANGED fd
       \/ /\ holder[fd[p]] # Free
          /\ Close(p)
          /\ pc' = [pc EXCEPT ![p] = "idle"]
          /\ UNCHANGED overlap
    /\ UNCHANGED <<path, created, tries>>

(* Mutant: the with-block ends without unlocking or closing. *)
LeaveLeaking(p) ==
    /\ p \in Writers
    /\ pc[p] = "critical"
    /\ pc' = [pc EXCEPT ![p] = "idle"]
    /\ UNCHANGED <<path, created, holder, fd, tries, overlap>>

(* Leaving the with-block, by its end, an exception or the process dying. *)
Leave(p) ==
    /\ p \in Writers
    /\ pc[p] = "critical"
    /\ Close(p)
    /\ pc' = [pc EXCEPT ![p] = "idle"]
    /\ UNCHANGED <<path, created, tries, overlap>>

(* A writer that dies before it is critical. *)
Die(p) ==
    /\ p \in Writers
    /\ pc[p] \in {"retry", "opened", "locked"}
    /\ Close(p)
    /\ pc' = [pc EXCEPT ![p] = "idle"]
    /\ UNCHANGED <<path, created, tries, overlap>>

-----------------------------------------------------------------------------
(* Mutant: the reader never sees the sidecar. *)
ReadOpenBlind(r) ==
    /\ r \in Readers
    /\ pc[r] = "idle"
    /\ pc' = [pc EXCEPT ![r] = "plainRead"]
    /\ overlap' = [overlap EXCEPT ![r] = Critical # {}]
    /\ UNCHANGED <<path, created, holder, fd, tries>>

(* read_only_file_lock: open(lock_path, "r") never creates the file.  When *)
(* it is absent the read starts without a lock.                            *)
ReadOpen(r) ==
    /\ r \in Readers
    /\ pc[r] = "idle"
    /\ \/ /\ path # NoInode
          /\ fd' = [fd EXCEPT ![r] = path]
          /\ pc' = [pc EXCEPT ![r] = "opened"]
          /\ UNCHANGED overlap
       \/ /\ path = NoInode
          /\ pc' = [pc EXCEPT ![r] = "plainRead"]
          /\ overlap' = [overlap EXCEPT ![r] = Critical # {}]
          /\ UNCHANGED fd
    /\ UNCHANGED <<path, created, holder, tries>>

ReadFlock(r) ==
    /\ r \in Readers
    /\ pc[r] = "opened"
    /\ holder[fd[r]] = Free
    /\ holder' = [holder EXCEPT ![fd[r]] = r]
    /\ pc' = [pc EXCEPT ![r] = "lockedRead"]
    /\ overlap' = [overlap EXCEPT ![r] = Critical # {}]
    /\ UNCHANGED <<path, created, fd, tries>>

(* The locked branch returns its value; the other goes on to look for the  *)
(* sidecar.                                                                *)
ReadDone(r) ==
    /\ r \in Readers
    /\ \/ /\ pc[r] = "lockedRead"
          /\ Close(r)
          /\ pc' = [pc EXCEPT ![r] = "returned"]
       \/ /\ pc[r] = "plainRead"
          /\ pc' = [pc EXCEPT ![r] = "recheck"]
          /\ UNCHANGED <<holder, fd>>
    /\ UNCHANGED <<path, created, tries, overlap>>

(* Mutant: the unlocked value is returned without looking again. *)
ReadRecheckSkipped(r) ==
    /\ r \in Readers
    /\ pc[r] = "recheck"
    /\ pc' = [pc EXCEPT ![r] = "returned"]
    /\ UNCHANGED <<path, created, holder, fd, tries, overlap>>

(* lock_path.exists() after the unlocked read: return, retry or give up. *)
ReadRecheck(r) ==
    /\ r \in Readers
    /\ pc[r] = "recheck"
    /\ \/ /\ path = NoInode
          /\ pc' = [pc EXCEPT ![r] = "returned"]
          /\ UNCHANGED tries
       \/ /\ path # NoInode
          /\ tries' = [tries EXCEPT ![r] = @ + 1]
          /\ pc' = [pc EXCEPT ![r] = IF tries[r] + 1 < MaxRetries
                                     THEN "idle" ELSE "timeout"]
    /\ UNCHANGED <<path, created, holder, fd, overlap>>

(* The caller starts another seqlock_read. *)
ReadAgain(r) ==
    /\ r \in Readers
    /\ pc[r] \in {"returned", "timeout"}
    /\ pc' = [pc EXCEPT ![r] = "idle"]
    /\ tries' = [tries EXCEPT ![r] = 0]
    /\ overlap' = [overlap EXCEPT ![r] = FALSE]
    /\ UNCHANGED <<path, created, holder, fd>>

-----------------------------------------------------------------------------
(* A tmp cleaner or a hand unlinks the sidecar while nobody is critical:   *)
(* the case the second look is there for.  Unlinking it under a holder is  *)
(* what the code declares out of scope.  The bound leaves an inode for the *)
(* callers that come after.                                                *)
Remove ==
    /\ created < MaxInodes
    /\ path # NoInode
    /\ Critical = {}
    /\ path' = NoInode
    /\ UNCHANGED <<created, holder, fd, pc, tries, overlap>>

WriterStep(p) ==
    \/ Open(p)
    \/ Flock(p)
    \/ Recheck(p)
    \/ TryFlock(p)
    \/ Leave(p)
    \/ Die(p)

ReaderStep(r) ==
    \/ ReadOpen(r)
    \/ ReadFlock(r)
    \/ ReadDone(r)
    \/ ReadRecheck(r)
    \/ ReadAgain(r)

Next ==
    \/ \E p \in Writers : WriterStep(p)
    \/ \E r \in Readers : ReaderStep(r)
    \/ Remove

Spec == Init /\ [][Next]_vars

(* flock wakes waiters in some order: every waiter that is woken again and *)
(* again gets the lock, and a critical section ends.  Starting a call, the *)
(* removal and dying are nobody's duty.                                    *)
Fairness ==
    /\ \A p \in Lockers : /\ SF_vars(Flock(p))
                          /\ WF_vars(Recheck(p))
                          /\ WF_vars(pc[p] = "retry" /\ Open(p))
    /\ \A p \in Writers : WF_vars(Leave(p))
    /\ \A r \in Readers : /\ SF_vars(ReadFlock(r))
                          /\ WF_vars(ReadDone(r))
                          /\ WF_vars(ReadRecheck(r))
                          /\ WF_vars(pc[r] = "idle" /\ tries[r] > 0 /\ ReadOpen(r))

FairSpec == Spec /\ Fairness

-----------------------------------------------------------------------------
(* At most one process is inside a with-block of the lock.  This is what   *)
(* every read-modify-write store of the plugin relies on; among blocking   *)
(* callers it has to hold even when the sidecar is unlinked while they     *)
(* wait in flock, and try_file_lock needs the sidecar left alone.          *)
MutualExclusion ==
    \A p, q \in Writers :
        /\ pc[p] = "critical" /\ pc[q] = "critical"
        /\ {p, q} \subseteq Lockers \/ Intact
        => p = q

(* What seqlock_read hands back was read while no writer was in its        *)
(* critical section, whether the read held the lock or ran before a        *)
(* sidecar existed; the sidecar must not have been removed.                *)
SnapshotIsStable ==
    Intact => \A r \in Readers : pc[r] = "returned" => ~overlap[r]

(* seqlock_read gives up only if the sidecar vanished again during its     *)
(* loop: while it is never removed, the second attempt takes the lock.     *)
NoSpuriousTimeout ==
    Intact => \A r \in Readers : pc[r] = "timeout" => MaxRetries = 1

(* A seqlock_read that has begun ends, with a value or with TimeoutError.  *)
ReadEnds ==
    \A r \in Readers : pc[r] \in {"opened", "lockedRead", "plainRead", "recheck"}
                           ~> pc[r] \in {"returned", "timeout"}

(* A caller of file_lock that has opened the sidecar gets its critical     *)
(* section unless it dies: the loop neither blocks on an inode nobody will *)
(* release nor retries for ever.                                           *)
LockerServed ==
    \A p \in Lockers : pc[p] = "opened" ~> pc[p] \in {"critical", "idle"}
=============================================================================
