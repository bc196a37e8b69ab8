--------------------------- MODULE FileLockProofs ---------------------------
(***************************************************************************)
(* Proofs about FileLock, for any number of callers and any bounds: mutual *)
(* exclusion, the stability of what seqlock_read returns, and its timeout. *)
(*                                                                         *)
(* The argument.  A process past flock holds the inode it has open, so two *)
(* critical processes can only coexist on two inodes.  A blocking caller   *)
(* became critical on the inode the path named, and the path cannot change *)
(* under it (Remove needs an empty critical section), so all of them hold  *)
(* the same inode.  A non-blocking caller does not look again, and is only *)
(* safe while nobody removes the sidecar: then every descriptor is open on *)
(* the one inode there ever was.                                           *)
(***************************************************************************)
EXTENDS FileLock, TLAPS

Holding == {"locked", "critical", "lockedRead"}

HolderOK ==
    /\ \A i \in Inodes : \A p \in Procs :
           holder[i] = p => fd[p] = i /\ pc[p] \in Holding
    /\ \A p \in Procs : pc[p] \in Holding => fd[p] \in Inodes /\ holder[fd[p]] = p
    /\ \A p \in Procs : pc[p] = "opened" => fd[p] \in Inodes

PathOK ==
    /\ path <= created
    /\ path = NoInode => created < MaxInodes
    /\ \A p \in Procs : pc[p] = "critical" /\ (p \in Lockers \/ Intact) => fd[p] = path
    /\ Intact => \A p \in Procs : fd[p] \in {NoInode, path}
    /\ \A p \in Lockers : pc[p] # "lockedRead"
    /\ \A r \in Readers : pc[r] \notin {"locked", "critical"}
    /\ \A r \in Readers : pc[r] \notin {"returned", "timeout"} => tries[r] < MaxRetries

IInv == TypeOK /\ HolderOK /\ PathOK

USE DEF NoInode, Inodes, Intact

LEMMA ProcsFacts ==
    /\ Lockers \subseteq Writers
    /\ Triers \subseteq Writers
    /\ Writers \subseteq Procs
    /\ Readers \subseteq Procs
    /\ \A p \in Writers : p \notin Readers
    /\ \A p \in Lockers : p \notin Triers
    /\ Free \notin Procs
BY ProcsAssumption DEF Procs, Writers

LEMMA InitIInv == Init => IInv
BY ProcsFacts, BoundsAssumption DEF Init, IInv, TypeOK, HolderOK, PathOK, Holding

(* The history variable is a Boolean function: kept apart, the rest of the *)
(* type invariant is arithmetic and sets.                                  *)
LEMMA OverlapTyped ==
    ASSUME TypeOK, [Next]_vars
    PROVE  overlap' \in [Readers -> BOOLEAN]
<1>1. ASSUME NEW p \in Writers, Enter(p) PROVE overlap' \in [Readers -> BOOLEAN]
  BY <1>1 DEF Enter
<1>2. ASSUME NEW r \in Readers, NEW b \in BOOLEAN, overlap' = [overlap EXCEPT ![r] = b]
      PROVE  overlap' \in [Readers -> BOOLEAN]
  BY <1>2 DEF TypeOK
<1>3. CASE overlap' = overlap
  BY <1>3 DEF TypeOK
<1>4. ASSUME NEW p \in Writers, WriterStep(p) PROVE overlap' \in [Readers -> BOOLEAN]
  BY <1>1, <1>3, <1>4
     DEF WriterStep, Open, Flock, Recheck, TryFlock, Leave, Die
<1>5. ASSUME NEW r \in Readers, ReaderStep(r) PROVE overlap' \in [Readers -> BOOLEAN]
  <2>1. (Critical # {}) \in BOOLEAN /\ FALSE \in BOOLEAN
    OBVIOUS
  <2>2. CASE ReadOpen(r)
    BY <1>2, <1>3, <2>1, <2>2, Zenon DEF ReadOpen
  <2>3. CASE ReadFlock(r)
    BY <1>2, <2>1, <2>3, Zenon DEF ReadFlock
  <2>4. CASE ReadDone(r) \/ ReadRecheck(r)
    BY <1>3, <2>4 DEF ReadDone, ReadRecheck
  <2>5. CASE ReadAgain(r)
    BY <1>2, <2>1, <2>5, Zenon DEF ReadAgain
  <2> QED
    BY <1>5, <2>2, <2>3, <2>4, <2>5 DEF ReaderStep
<1> QED
  BY <1>3, <1>4, <1>5 DEF Next, Remove, vars

(* A sidecar that has been removed stays so: what is created at the path   *)
(* later is another inode.                                                 *)
LEMMA IntactBefore ==
    ASSUME TypeOK, PathOK, [Next]_vars, Intact'
    PROVE  Intact
<1>1. ASSUME NEW p \in Writers, WriterStep(p) PROVE Intact
  BY <1>1, BoundsAssumption
     DEF TypeOK, WriterStep, Open, Flock, Recheck, TryFlock, Leave, Die
<1>2. ASSUME NEW r \in Readers, ReaderStep(r) PROVE Intact
  BY <1>2 DEF ReaderStep, ReadOpen, ReadFlock, ReadDone, ReadRecheck, ReadAgain
<1>3. CASE Remove
  <2>1. path' = 0 /\ created' = created /\ path # 0
    BY <1>3 DEF Remove
  <2>2. path \in Nat /\ created \in Nat /\ path <= created
    BY BoundsAssumption DEF TypeOK, PathOK
  <2>3. created = 0
    BY <2>1 DEF Intact
  <2> QED
    BY <2>1, <2>2, <2>3
<1> QED
  BY <1>1, <1>2, <1>3 DEF Next, vars

(* Closing p's descriptor takes p's locks away and nobody else's. *)
LEMMA CloseFacts ==
    ASSUME TypeOK, NEW p \in Procs, Close(p)
    PROVE  /\ holder' \in [Inodes -> Procs \cup {Free}]
           /\ fd' \in [Procs -> 0 .. MaxInodes]
           /\ fd'[p] = NoInode
           /\ \A q \in Procs \ {p} : fd'[q] = fd[q]
           /\ \A i \in Inodes : holder'[i] # p
           /\ \A i \in Inodes : holder[i] # p => holder'[i] = holder[i]
           /\ \A i \in Inodes : holder[i] = p => holder'[i] = Free
BY ProcsFacts, BoundsAssumption DEF TypeOK, Close

(* So a caller may leave from anywhere without upsetting the others. *)
LEMMA CloseHolderOK ==
    ASSUME TypeOK, HolderOK, NEW p \in Procs, Close(p),
           NEW s \in {"idle", "retry", "returned"}, pc' = [pc EXCEPT ![p] = s]
    PROVE  HolderOK'
<1> USE DEF Holding
<1>0. \A q \in Procs : pc'[q] = IF q = p THEN s ELSE pc[q]
  BY DEF TypeOK
<1>1. ASSUME NEW i \in Inodes, NEW q \in Procs, holder'[i] = q
      PROVE  fd'[q] = i /\ pc'[q] \in Holding
  <2>1. q # p /\ holder[i] = q
    BY <1>1, CloseFacts, ProcsFacts
  <2> QED
    BY <2>1, <1>0, CloseFacts DEF HolderOK
<1>2. ASSUME NEW q \in Procs, pc'[q] \in Holding
      PROVE  fd'[q] \in Inodes /\ holder'[fd'[q]] = q
  <2>1. q # p /\ pc[q] \in Holding
    BY <1>0, <1>2
  <2> QED
    BY <2>1, CloseFacts DEF HolderOK
<1>3. ASSUME NEW q \in Procs, pc'[q] = "opened"
      PROVE  fd'[q] \in Inodes
  <2>1. q # p /\ pc[q] = "opened"
    BY <1>0, <1>3
  <2> QED
    BY <2>1, CloseFacts DEF HolderOK
<1> QED
  BY <1>1, <1>2, <1>3 DEF HolderOK

LEMMA ClosePathOK ==
    ASSUME TypeOK, PathOK, NEW p \in Procs, Close(p), UNCHANGED <<path, created, tries>>,
           NEW s \in {"idle", "retry", "returned"}, pc' = [pc EXCEPT ![p] = s],
           s = "returned" \/ p \notin Readers
    PROVE  PathOK'
<1>0. \A q \in Procs : pc'[q] = IF q = p THEN s ELSE pc[q]
  BY DEF TypeOK
<1>1. \A q \in Procs : fd'[q] = IF q = p THEN NoInode ELSE fd[q]
  BY CloseFacts
<1>2. \A q \in Procs : pc'[q] = "critical" => q # p /\ pc[q] = "critical"
  BY <1>0
<1> QED
  BY <1>0, <1>1, <1>2, ProcsFacts DEF PathOK

LEMMA StepIInv == IInv /\ [Next]_vars => IInv'
<1> SUFFICES ASSUME IInv, [Next]_vars PROVE IInv'
  OBVIOUS
<1> USE ProcsFacts, BoundsAssumption DEF IInv, Holding
<1>0. overlap' \in [Readers -> BOOLEAN]
  BY OverlapTyped
<1>1. ASSUME NEW p \in Writers, Open(p) PROVE IInv'
  <2>1. TypeOK'
    BY <1>0, <1>1 DEF Open, TypeOK, HolderOK, PathOK
  <2>2. HolderOK'
    BY <1>1 DEF Open, TypeOK, HolderOK, PathOK
  <2>3. PathOK'
    BY <1>1 DEF Open, TypeOK, HolderOK, PathOK
  <2> QED
    BY <2>1, <2>2, <2>3
<1>2. ASSUME NEW p \in Writers, Flock(p) PROVE IInv'
  <2>1. TypeOK'
    BY <1>0, <1>2 DEF Flock, TypeOK, HolderOK, PathOK
  <2>2. HolderOK'
    BY <1>2 DEF Flock, TypeOK, HolderOK, PathOK
  <2>3. PathOK'
    BY <1>2 DEF Flock, TypeOK, HolderOK, PathOK
  <2> QED
    BY <2>1, <2>2, <2>3
<1>3. ASSUME NEW p \in Writers, Recheck(p) PROVE IInv'
  <2>1. CASE path = fd[p]
    <3>1. pc' = [pc EXCEPT ![p] = "critical"] /\ UNCHANGED <<path, created, holder, fd, tries>>
      BY <1>3, <2>1 DEF Recheck, Enter
    <3>2. p \in Lockers /\ pc[p] = "locked"
      BY <1>3 DEF Recheck
    <3>t. TypeOK'
      BY <1>0, <2>1, <3>1, <3>2 DEF TypeOK, HolderOK, PathOK
    <3>h. HolderOK'
      BY <2>1, <3>1, <3>2 DEF TypeOK, HolderOK
    <3>p. PathOK'
      BY <2>1, <3>1, <3>2 DEF TypeOK, HolderOK, PathOK
    <3> QED
      BY <3>t, <3>h, <3>p
  <2>2. CASE path # fd[p]
    <3>1. pc' = [pc EXCEPT ![p] = "retry"] /\ Close(p) /\ UNCHANGED <<path, created, tries>>
      BY <1>3, <2>2 DEF Recheck
    <3>t. TypeOK'
      BY <1>0, <3>1, CloseFacts DEF TypeOK, HolderOK, PathOK
    <3>h. HolderOK'
      BY <3>1, CloseHolderOK
    <3>p. PathOK'
      BY <3>1, CloseFacts DEF TypeOK, HolderOK, PathOK
    <3> QED
      BY <3>t, <3>h, <3>p
  <2> QED
    BY <2>1, <2>2
<1>4. ASSUME NEW p \in Writers, TryFlock(p) PROVE IInv'
  <2>0. p \in Triers /\ pc[p] = "opened" /\ UNCHANGED <<path, created, tries>>
    BY <1>4 DEF TryFlock
  <2>1. CASE holder[fd[p]] = Free
    <3>1. pc' = [pc EXCEPT ![p] = "critical"] /\ UNCHANGED fd
      BY <1>4, <2>1 DEF TryFlock, Enter
    <3>2. holder' = [holder EXCEPT ![fd[p]] = p]
      BY <1>4, <2>1 DEF TryFlock
    <3>3. TypeOK'
      BY <1>0, <2>0, <3>1, <3>2 DEF TypeOK, HolderOK
    <3>4. HolderOK'
      BY <2>0, <2>1, <3>1, <3>2 DEF TypeOK, HolderOK
    <3>5. PathOK'
      BY <2>0, <3>1 DEF TypeOK, HolderOK, PathOK
    <3> QED
      BY <3>3, <3>4, <3>5
  <2>2. CASE holder[fd[p]] # Free
    <3>1. pc' = [pc EXCEPT ![p] = "idle"] /\ Close(p)
      BY <1>4, <2>2 DEF TryFlock
    <3>t. TypeOK'
      BY <1>0, <2>0, <3>1, CloseFacts DEF TypeOK, HolderOK, PathOK
    <3>h. HolderOK'
      BY <2>0, <3>1, CloseHolderOK
    <3>p. PathOK'
      BY <2>0, <3>1, ClosePathOK
    <3> QED
      BY <3>t, <3>h, <3>p
  <2> QED
    BY <2>1, <2>2
<1>5. ASSUME NEW p \in Writers, Leave(p) \/ Die(p) PROVE IInv'
  <2>1. pc' = [pc EXCEPT ![p] = "idle"] /\ Close(p) /\ UNCHANGED <<path, created, tries>>
    BY <1>5 DEF Leave, Die
  <2>t. TypeOK'
    BY <1>0, <2>1, CloseFacts DEF TypeOK, HolderOK, PathOK
  <2>h. HolderOK'
    BY <2>1, CloseHolderOK
  <2>p. PathOK'
    BY <2>1, CloseFacts DEF TypeOK, HolderOK, PathOK
  <2> QED
    BY <2>t, <2>h, <2>p
<1>6. ASSUME NEW r \in Readers, ReadOpen(r) PROVE IInv'
  <2>1. pc[r] = "idle" /\ UNCHANGED <<path, created, holder, tries>>
    BY <1>6 DEF ReadOpen
  <2>2. CASE path # NoInode /\ fd' = [fd EXCEPT ![r] = path] /\ pc' = [pc EXCEPT ![r] = "opened"]
    <3>t. TypeOK'
      BY <1>0, <2>1, <2>2 DEF TypeOK, HolderOK, PathOK
    <3>h. HolderOK'
      BY <2>1, <2>2 DEF TypeOK, HolderOK
    <3>p. PathOK'
      BY <2>1, <2>2 DEF TypeOK, HolderOK, PathOK
    <3> QED
      BY <3>t, <3>h, <3>p
  <2>3. CASE pc' = [pc EXCEPT ![r] = "plainRead"] /\ UNCHANGED fd
    <3>t. TypeOK'
      BY <1>0, <2>1, <2>3 DEF TypeOK, HolderOK, PathOK
    <3>h. HolderOK'
      BY <2>1, <2>3 DEF TypeOK, HolderOK
    <3>p. PathOK'
      BY <2>1, <2>3 DEF TypeOK, HolderOK, PathOK
    <3> QED
      BY <3>t, <3>h, <3>p
  <2> QED
    BY <1>6, <2>2, <2>3, Zenon DEF ReadOpen
<1>7. ASSUME NEW r \in Readers, ReadFlock(r) PROVE IInv'
  <2>1. /\ pc[r] = "opened"
        /\ holder[fd[r]] = Free
        /\ UNCHANGED <<path, created, fd, tries>>
    BY <1>7 DEF ReadFlock
  <2>2. /\ holder' = [holder EXCEPT ![fd[r]] = r]
        /\ pc' = [pc EXCEPT ![r] = "lockedRead"]
    BY <1>7, Zenon DEF ReadFlock
  <2>t. TypeOK'
    BY <1>0, <2>1, <2>2 DEF TypeOK, HolderOK, PathOK
  <2>h. HolderOK'
    BY <2>1, <2>2 DEF TypeOK, HolderOK
  <2>p. PathOK'
    BY <2>1, <2>2 DEF TypeOK, HolderOK, PathOK
  <2> QED
    BY <2>t, <2>h, <2>p
<1>8. ASSUME NEW r \in Readers, ReadDone(r) PROVE IInv'
  <2>0. UNCHANGED <<path, created, tries>>
    BY <1>8 DEF ReadDone
  <2>1. CASE Close(r) /\ pc' = [pc EXCEPT ![r] = "returned"]
    <3>t. TypeOK'
      BY <1>0, <2>0, <2>1, CloseFacts DEF TypeOK, HolderOK, PathOK
    <3>h. HolderOK'
      BY <2>0, <2>1, CloseHolderOK
    <3>p. PathOK'
      BY <2>0, <2>1, CloseFacts DEF TypeOK, HolderOK, PathOK
    <3> QED
      BY <3>t, <3>h, <3>p
  <2>2. CASE /\ pc[r] = "plainRead"
             /\ pc' = [pc EXCEPT ![r] = "recheck"]
             /\ UNCHANGED <<holder, fd>>
    BY <1>0, <2>0, <2>2 DEF TypeOK, HolderOK, PathOK
  <2> QED
    BY <1>8, <2>1, <2>2 DEF ReadDone
<1>9. ASSUME NEW r \in Readers, ReadRecheck(r) \/ ReadAgain(r) PROVE IInv'
  <2>1. /\ pc[r] \in {"recheck", "returned", "timeout"}
        /\ UNCHANGED <<path, created, holder, fd>>
    BY <1>9 DEF ReadRecheck, ReadAgain
  <2>2. \/ pc' = [pc EXCEPT ![r] = "returned"]
        \/ pc' = [pc EXCEPT ![r] = "timeout"]
        \/ pc' = [pc EXCEPT ![r] = "idle"] /\ tries'[r] < MaxRetries
    <3>1. CASE ReadRecheck(r)
      BY <2>1, <3>1 DEF ReadRecheck, TypeOK, PathOK
    <3>2. CASE ReadAgain(r)
      BY <3>2 DEF ReadAgain, TypeOK
    <3> QED
      BY <1>9, <3>1, <3>2
  <2>3. tries' \in [Readers -> 0 .. MaxRetries]
    <3>1. CASE tries' = tries
      BY <3>1 DEF TypeOK
    <3>2. CASE tries' = [tries EXCEPT ![r] = 0]
      BY <3>2 DEF TypeOK
    <3>3. CASE tries' = [tries EXCEPT ![r] = @ + 1] /\ pc[r] = "recheck"
      <4>1. tries[r] < MaxRetries
        BY <3>3 DEF PathOK
      <4>2. tries[r] + 1 \in 0 .. MaxRetries
        BY <4>1 DEF TypeOK
      <4> QED
        BY <3>3, <4>2 DEF TypeOK
    <3> QED
      BY <1>9, <3>1, <3>2, <3>3, Zenon DEF ReadRecheck, ReadAgain
  <2>4. \A q \in Readers \ {r} : tries'[q] = tries[q]
    BY <1>9 DEF ReadRecheck, ReadAgain, TypeOK
  <2>t. TypeOK'
    <3>1. pc' \in [Procs -> {"idle", "retry", "opened", "locked", "critical",
                             "lockedRead", "plainRead", "recheck", "returned",
                             "timeout"}]
      BY <2>2 DEF TypeOK
    <3> QED
      BY <1>0, <2>1, <2>3, <3>1 DEF TypeOK
  <2>h. HolderOK'
    <3>1. \A q \in Procs \ {r} : pc'[q] = pc[q]
      BY <2>2 DEF TypeOK
    <3>2. pc'[r] \in {"returned", "timeout", "idle"}
      BY <2>2 DEF TypeOK
    <3>3. pc[r] \in {"recheck", "returned", "timeout"}
      BY <1>9 DEF ReadRecheck, ReadAgain
    <3> QED
      BY <2>1, <3>1, <3>2, <3>3 DEF HolderOK
  <2>p. PathOK'
    <3>1. \A q \in Procs \ {r} : pc'[q] = pc[q]
      BY <2>2 DEF TypeOK
    <3>2. /\ pc'[r] \in {"returned", "timeout", "idle"}
          /\ pc'[r] = "idle" => tries'[r] < MaxRetries
      BY <2>2 DEF TypeOK
    <3> QED
      BY <2>1, <2>4, <3>1, <3>2 DEF PathOK
  <2> QED
    BY <2>t, <2>h, <2>p
<1>10. CASE Remove
  BY <1>10, BoundsAssumption DEF Remove, Critical, TypeOK, HolderOK, PathOK
<1>11. CASE UNCHANGED vars
  BY <1>11 DEF vars, TypeOK, HolderOK, PathOK
<1> QED
  BY <1>1, <1>2, <1>3, <1>4, <1>5, <1>6, <1>7, <1>8, <1>9, <1>10, <1>11
     DEF Next, WriterStep, ReaderStep

(***************************************************************************)
(* Every caller's program counter, descriptor and lock stay consistent.    *)
(***************************************************************************)
THEOREM TypeCorrect == Spec => []TypeOK
<1>1. Init => IInv
  BY InitIInv
<1>2. IInv /\ [Next]_vars => IInv'
  BY StepIInv
<1>3. IInv => TypeOK
  BY DEF IInv
<1> QED
  BY <1>1, <1>2, <1>3, PTL DEF Spec

LEMMA InvariantMutex == IInv => MutualExclusion
<1> SUFFICES ASSUME IInv, NEW p \in Writers, NEW q \in Writers,
                    pc[p] = "critical", pc[q] = "critical",
                    {p, q} \subseteq Lockers \/ Intact
             PROVE  p = q
  BY DEF MutualExclusion
<1>1. fd[p] = path /\ fd[q] = path
  BY ProcsFacts DEF IInv, PathOK
<1> QED
  BY <1>1, ProcsFacts DEF IInv, HolderOK, Holding

(***************************************************************************)
(* file_lock excludes, even when the sidecar is unlinked between uses;     *)
(* try_file_lock does as long as the sidecar has not been removed.         *)
(***************************************************************************)
THEOREM Exclusion == Spec => []MutualExclusion
<1>1. Init => IInv
  BY InitIInv
<1>2. IInv /\ [Next]_vars => IInv'
  BY StepIInv
<1>3. IInv => MutualExclusion
  BY InvariantMutex
<1> QED
  BY <1>1, <1>2, <1>3, PTL DEF Spec

(***************************************************************************)
(* seqlock_read.  While the sidecar is left alone, a read in progress    *)
(* that could still be returned has met no writer: it either holds the     *)
(* lock itself, or there is no sidecar and so nobody can be critical.      *)
(***************************************************************************)
ReadClean ==
    \A r \in Readers :
        \/ pc[r] \in {"lockedRead", "returned"}
        \/ pc[r] \in {"plainRead", "recheck"} /\ path = NoInode
        => ~overlap[r]

SnapInv == Intact => ReadClean

(* A critical writer excludes readers that hold the lock and proves that   *)
(* the sidecar exists.                                                     *)
LEMMA CriticalExcludesReads ==
    ASSUME IInv, Intact, NEW p \in Writers, pc[p] \in {"locked", "critical"}
    PROVE  path # NoInode /\ \A r \in Readers : pc[r] # "lockedRead"
<1>1. fd[p] = path /\ path # NoInode /\ holder[path] = p
  BY ProcsFacts DEF IInv, HolderOK, PathOK, Holding
<1>2. ASSUME NEW r \in Readers, pc[r] = "lockedRead" PROVE FALSE
  <2>1. fd[r] = path /\ holder[path] = r
    BY <1>1, <1>2, ProcsFacts DEF IInv, HolderOK, PathOK, Holding
  <2> QED
    BY <1>1, <2>1, ProcsFacts
<1> QED
  BY <1>1, <1>2

LEMMA EnterKeepsReadClean ==
    ASSUME IInv, Intact, ReadClean, NEW p \in Writers,
           path # NoInode, \A r \in Readers : pc[r] # "lockedRead",
           Enter(p), UNCHANGED path
    PROVE  ReadClean'
<1> SUFFICES ASSUME NEW r \in Readers,
                    \/ pc'[r] \in {"lockedRead", "returned"}
                    \/ pc'[r] \in {"plainRead", "recheck"} /\ path' = NoInode
             PROVE  ~overlap'[r]
  BY DEF ReadClean
<1>1. pc'[r] = pc[r]
  BY ProcsFacts DEF Enter, IInv, TypeOK
<1>2. pc[r] = "returned"
  BY <1>1
<1>3. r \notin Reading
  BY <1>2 DEF Reading
<1>4. overlap'[r] = (overlap[r] \/ r \in Reading)
  BY DEF Enter
<1> QED
  BY <1>2, <1>3, <1>4 DEF ReadClean

LEMMA StepSnapInv == IInv /\ SnapInv /\ [Next]_vars => SnapInv'
<1> SUFFICES ASSUME IInv, SnapInv, [Next]_vars, Intact' PROVE ReadClean'
  BY DEF SnapInv
<1>0. Intact /\ ReadClean
  BY IntactBefore DEF SnapInv, IInv
<1>1. ASSUME NEW p \in Writers, Recheck(p) \/ TryFlock(p) PROVE ReadClean'
  <2>1. CASE Enter(p) /\ UNCHANGED path
    <3>1. pc[p] = "locked" \/ (pc[p] = "opened" /\ p \in Triers)
      BY <1>1 DEF Recheck, TryFlock
    <3>2. CASE pc[p] = "locked"
      BY <1>0, <2>1, <3>2, CriticalExcludesReads, EnterKeepsReadClean
    <3>3. CASE pc[p] = "opened" /\ p \in Triers
      <4>1. fd[p] = path /\ path # NoInode
        BY <1>0, <3>3, ProcsFacts DEF IInv, HolderOK, PathOK
      <4>2. holder[path] = Free
        BY <1>1, <2>1, <3>3, <4>1, ProcsFacts DEF TryFlock, Recheck, Enter, IInv, TypeOK
      <4>3. ASSUME NEW r \in Readers, pc[r] = "lockedRead" PROVE FALSE
        BY <1>0, <4>1, <4>2, <4>3, ProcsFacts DEF IInv, HolderOK, PathOK, Holding
      <4> QED
        BY <1>0, <2>1, <4>1, <4>3, EnterKeepsReadClean
    <3> QED
      BY <3>1, <3>2, <3>3
  <2>2. CASE UNCHANGED <<path, overlap>> /\ pc' \in {[pc EXCEPT ![p] = "retry"], [pc EXCEPT ![p] = "idle"]}
    BY <1>0, <2>2, ProcsFacts DEF ReadClean, IInv, TypeOK
  <2> QED
    BY <1>1, <2>1, <2>2 DEF Recheck, TryFlock
<1>2. ASSUME NEW p \in Writers, Flock(p) \/ Leave(p) \/ Die(p) PROVE ReadClean'
  <2>1. UNCHANGED <<path, overlap>> /\ \A r \in Readers : pc'[r] = pc[r]
    BY <1>2, ProcsFacts DEF Flock, Leave, Die, IInv, TypeOK
  <2> QED
    BY <1>0, <2>1 DEF ReadClean
<1>3. ASSUME NEW p \in Writers, Open(p) PROVE ReadClean'
  <2>1. UNCHANGED overlap /\ \A r \in Readers : pc'[r] = pc[r]
    BY <1>3, ProcsFacts DEF Open, IInv, TypeOK
  <2>2. path' = NoInode => path = NoInode
    BY <1>3, BoundsAssumption DEF Open, IInv, TypeOK
  <2> QED
    BY <1>0, <2>1, <2>2 DEF ReadClean
<1>4. ASSUME NEW r \in Readers, ReadFlock(r) \/ ReadOpen(r) PROVE ReadClean'
  <2>1. UNCHANGED path /\ \A q \in Readers \ {r} : pc'[q] = pc[q]
    BY <1>4, ProcsFacts DEF ReadFlock, ReadOpen, IInv, TypeOK
  <2>2. \A q \in Readers \ {r} : overlap'[q] = overlap[q]
    BY <1>4 DEF ReadFlock, ReadOpen, IInv, TypeOK
  <2>3. CASE pc'[r] = "opened"
    BY <1>0, <2>1, <2>2, <2>3 DEF ReadClean
  <2>4. CASE overlap'[r] = FALSE
    BY <1>0, <2>1, <2>2, <2>4 DEF ReadClean
  <2>5. CASE pc'[r] # "opened" /\ overlap' = [overlap EXCEPT ![r] = Critical # {}]
    <3>1. \A p \in Writers : pc[p] # "critical"
      <4>1. CASE ReadOpen(r)
        <5>1. path = NoInode
          BY <2>5, <4>1, ProcsFacts DEF ReadOpen, IInv, TypeOK
        <5> QED
          BY <1>0, <5>1, CriticalExcludesReads
      <4>2. CASE ReadFlock(r)
        <5>1. fd[r] = path /\ path # NoInode /\ holder[path] = Free
          BY <1>0, <4>2, ProcsFacts DEF ReadFlock, IInv, HolderOK, PathOK
        <5> QED
          BY <1>0, <5>1, ProcsFacts DEF IInv, HolderOK, PathOK, Holding
      <4> QED
        BY <1>4, <4>1, <4>2
    <3>2. Critical = {}
      BY <3>1 DEF Critical
    <3>3. overlap'[r] = FALSE
      BY <2>5, <3>2 DEF IInv, TypeOK
    <3> QED
      BY <2>4, <3>3
  <2> QED
    BY <1>4, <2>3, <2>5, ProcsFacts DEF ReadOpen, ReadFlock, IInv, TypeOK
<1>5. ASSUME NEW r \in Readers, ReadDone(r) \/ ReadRecheck(r) PROVE ReadClean'
  <2>1. UNCHANGED <<path, overlap>> /\ \A q \in Readers \ {r} : pc'[q] = pc[q]
    BY <1>5, ProcsFacts DEF ReadDone, ReadRecheck, IInv, TypeOK
  <2>2. \/ pc[r] = "lockedRead" /\ pc'[r] = "returned"
        \/ pc[r] = "plainRead" /\ pc'[r] = "recheck"
        \/ pc[r] = "recheck" /\ path = NoInode /\ pc'[r] = "returned"
        \/ pc'[r] \in {"idle", "timeout"}
    BY <1>5, ProcsFacts DEF ReadDone, ReadRecheck, IInv, TypeOK
  <2> QED
    BY <1>0, <2>1, <2>2 DEF ReadClean
<1>6. ASSUME NEW r \in Readers, ReadAgain(r) PROVE ReadClean'
  <2>1. UNCHANGED path /\ pc'[r] = "idle" /\ \A q \in Readers \ {r} : pc'[q] = pc[q]
    BY <1>6, ProcsFacts DEF ReadAgain, IInv, TypeOK
  <2>2. \A q \in Readers \ {r} : overlap'[q] = overlap[q]
    BY <1>6 DEF ReadAgain, IInv, TypeOK
  <2> QED
    BY <1>0, <2>1, <2>2 DEF ReadClean
<1>7. CASE Remove
  BY <1>0, <1>7, BoundsAssumption DEF Remove, IInv, TypeOK, PathOK
<1>8. CASE UNCHANGED vars
  BY <1>0, <1>8 DEF vars, ReadClean
<1> QED
  BY <1>1, <1>2, <1>3, <1>4, <1>5, <1>6, <1>7, <1>8
     DEF Next, WriterStep, ReaderStep

(***************************************************************************)
(* What seqlock_read returns was read with no writer in its critical       *)
(* section, provided the sidecar, once created, is left alone.            *)
(***************************************************************************)
THEOREM StableSnapshots == Spec => []SnapshotIsStable
<1>1. Init => IInv /\ SnapInv
  BY InitIInv, ProcsFacts DEF Init, SnapInv, ReadClean
<1>2. IInv /\ SnapInv /\ [Next]_vars => (IInv /\ SnapInv)'
  BY StepIInv, StepSnapInv
<1>3. IInv /\ SnapInv => SnapshotIsStable
  BY DEF SnapInv, ReadClean, SnapshotIsStable
<1> QED
  BY <1>1, <1>2, <1>3, PTL DEF Spec

(***************************************************************************)
(* The retry of seqlock_read.  A reader that goes round has seen the       *)
(* sidecar, and while it is left alone the next attempt opens it.          *)
(***************************************************************************)
Retries ==
    \A r \in Readers :
        /\ tries[r] > 0 => path # NoInode
        /\ pc[r] \in {"plainRead", "recheck"} => tries[r] = 0
        /\ pc[r] = "timeout" => MaxRetries = 1

RetryInv == Intact => Retries

LEMMA PathStays ==
    ASSUME IInv, [Next]_vars, Intact', path # NoInode
    PROVE  path' # NoInode
<1>1. ASSUME NEW p \in Writers, WriterStep(p) PROVE path' # NoInode
  BY <1>1, BoundsAssumption
     DEF IInv, TypeOK, WriterStep, Open, Flock, Recheck, TryFlock, Leave, Die
<1>2. ASSUME NEW r \in Readers, ReaderStep(r) PROVE path' # NoInode
  BY <1>2 DEF ReaderStep, ReadOpen, ReadFlock, ReadDone, ReadRecheck, ReadAgain
<1>3. CASE Remove
  <2>1. path' = 0 /\ created' = created /\ path # 0
    BY <1>3 DEF Remove
  <2>2. path \in Nat /\ created \in Nat /\ path <= created
    BY BoundsAssumption DEF IInv, TypeOK, PathOK
  <2>3. created = 0
    BY <2>1 DEF Intact
  <2> QED
    BY <2>1, <2>2, <2>3
<1> QED
  BY <1>1, <1>2, <1>3 DEF Next, vars

LEMMA StepRetryInv == IInv /\ RetryInv /\ [Next]_vars => RetryInv'
<1> SUFFICES ASSUME IInv, RetryInv, [Next]_vars, Intact' PROVE Retries'
  BY DEF RetryInv
<1>0. Retries /\ (path # NoInode => path' # NoInode)
  BY IntactBefore, PathStays DEF RetryInv, IInv
<1>1. CASE UNCHANGED tries /\ \A r \in Readers : pc'[r] = pc[r]
  BY <1>0, <1>1 DEF Retries
<1>2. ASSUME NEW p \in Writers, WriterStep(p) PROVE Retries'
  BY <1>1, <1>2, ProcsFacts
     DEF WriterStep, Open, Flock, Recheck, Enter, TryFlock, Leave, Die, IInv, TypeOK
<1>3. ASSUME NEW r \in Readers, ReaderStep(r) PROVE Retries'
  <2>1. /\ \A q \in Readers \ {r} : pc'[q] = pc[q] /\ tries'[q] = tries[q]
        /\ r \in Procs /\ tries[r] \in Nat
    BY <1>3, ProcsFacts, BoundsAssumption
       DEF ReaderStep, ReadOpen, ReadFlock, ReadDone, ReadRecheck, ReadAgain, IInv, TypeOK
  <2>2. /\ tries'[r] > 0 => path' # NoInode
        /\ pc'[r] \in {"plainRead", "recheck"} => tries'[r] = 0
        /\ pc'[r] = "timeout" => MaxRetries = 1
    <3>1. CASE ReadOpen(r)
      <4>1. tries' = tries /\ pc'[r] \in {"opened", "plainRead"}
            /\ (pc'[r] = "plainRead" => path = NoInode)
        BY <2>1, <3>1 DEF ReadOpen, IInv, TypeOK
      <4> QED
        BY <1>0, <2>1, <4>1 DEF Retries
    <3>2. CASE ReadFlock(r) \/ ReadDone(r)
      <4>1. tries' = tries /\ pc'[r] \in {"lockedRead", "returned", "recheck"}
            /\ (pc'[r] = "recheck" => pc[r] = "plainRead")
        BY <2>1, <3>2 DEF ReadFlock, ReadDone, IInv, TypeOK
      <4> QED
        BY <1>0, <4>1 DEF Retries
    <3>3. CASE ReadRecheck(r)
      <4>1. tries[r] = 0
        BY <1>0, <3>3 DEF ReadRecheck, Retries
      <4>2. CASE path = NoInode
        BY <2>1, <3>3, <4>1, <4>2 DEF ReadRecheck, IInv, TypeOK
      <4>3. CASE path # NoInode
        BY <1>0, <2>1, <3>3, <4>1, <4>3, BoundsAssumption DEF ReadRecheck, IInv, TypeOK
      <4> QED
        BY <4>2, <4>3
    <3>4. CASE ReadAgain(r)
      BY <2>1, <3>4 DEF ReadAgain, IInv, TypeOK
    <3> QED
      BY <1>3, <3>1, <3>2, <3>3, <3>4 DEF ReaderStep
  <2>3. ASSUME NEW q \in Readers
        PROVE  /\ tries'[q] > 0 => path' # NoInode
               /\ pc'[q] \in {"plainRead", "recheck"} => tries'[q] = 0
               /\ pc'[q] = "timeout" => MaxRetries = 1
    BY <1>0, <2>1, <2>2 DEF Retries
  <2> QED
    BY <2>3 DEF Retries
<1>4. CASE Remove
  BY <1>1, <1>4 DEF Remove
<1>5. CASE UNCHANGED vars
  BY <1>1, <1>5 DEF vars
<1> QED
  BY <1>2, <1>3, <1>4, <1>5 DEF Next

(***************************************************************************)
(* seqlock_read raises TimeoutError only when it may try once, or when the *)
(* sidecar has been removed.                                               *)
(***************************************************************************)
THEOREM TimeoutsAreEarned == Spec => []NoSpuriousTimeout
<1>1. Init => IInv /\ RetryInv
  BY InitIInv, ProcsFacts DEF Init, RetryInv, Retries
<1>2. IInv /\ RetryInv /\ [Next]_vars => (IInv /\ RetryInv)'
  BY StepIInv, StepRetryInv
<1>3. IInv /\ RetryInv => NoSpuriousTimeout
  BY DEF RetryInv, Retries, NoSpuriousTimeout
<1> QED
  BY <1>1, <1>2, <1>3, PTL DEF Spec
=============================================================================
