--------------------------- MODULE ReflectProofs ---------------------------
(***************************************************************************)
(* reflect keeps every correction in its lifecycle, for any number of      *)
(* corrections, processes, ids and times.                                  *)
(*                                                                         *)
(* The argument: every application in the events confirms an attempt of    *)
(* its own and every revert names an application stamped before it, so the *)
(* fold reads all of them; and each correction that was applied has a      *)
(* latest application, which alone decides whether it is active.           *)
(*                                                                         *)
(* At the end: the fold reads any events as the loop it stands for.        *)
(***************************************************************************)
EXTENDS MCReflect, FiniteSetTheorems, WellFoundedInduction, TLAPS

-----------------------------------------------------------------------------
(* What the fold makes of one more event. *)

(* Every application confirms an attempt of its own. *)
Sound(ev) ==
    \A a \in Applications(ev) :
        /\ \E t \in Attempts(ev) : t.id = a.attempt /\ t.target = a.target
        /\ \A b \in Applications(ev) : b.attempt = a.attempt => b = a

(* Every revert names an application stamped before it. *)
Ordered(ev) ==
    \A v \in Reverts(ev) : \E a \in Applications(ev) : v.ref = a.id /\ Usable(v, a)

UniqueEventIds(ev) == \A e, f \in ev : e.id = f.id => e = f

Latest(ev, a) ==
    /\ a \in Applications(ev)
    /\ \A b \in Applications(ev) : b.target = a.target /\ b # a => Later(a, b)

(* A correction that was applied has a latest application. *)
Settled(ev) ==
    \A a \in Applications(ev) : \E m \in Applications(ev) :
        m.target = a.target /\ Latest(ev, m)

Typed(ev) ==
    /\ \A a \in Applications(ev) : a.id \in Int /\ a.at \in Int
    /\ \A v \in Reverts(ev) : v.id \in Int /\ v.at \in Int

LEMMA SoundConfirmed ==
    ASSUME NEW ev, Sound(ev)
    PROVE  Confirmed(ev) = Applications(ev)
BY DEF Sound, Confirmed

LEMMA NotAmbiguous ==
    ASSUME NEW ev, NEW c, Sound(ev), Ordered(ev), UniqueEventIds(ev)
    PROVE  ~Ambiguous(ev, c)
BY SoundConfirmed DEF Ordered, UniqueEventIds, Ambiguous, ConfirmedOf, RevertsOf,
   Applications, Reverts

(* Only the latest application may be active. *)
LEMMA ActiveIsLatest ==
    ASSUME NEW ev, Sound(ev), NEW a
    PROVE  IsActive(ev, a) <=>
             Latest(ev, a) /\ \A v \in RevertsOf(ev, a) : ~Usable(v, a)
BY SoundConfirmed DEF IsActive, Latest, ConfirmedOf

(* What shows of a correction depends on its own applications and on their  *)
(* reverts.                                                                 *)
LEMMA SameShown ==
    ASSUME NEW ev, NEW fv, NEW c,
           ConfirmedOf(fv, c) = ConfirmedOf(ev, c),
           \A a \in ConfirmedOf(ev, c) : RevertsOf(fv, a) = RevertsOf(ev, a)
    PROVE  /\ HasActive(fv, c) <=> HasActive(ev, c)
           /\ WasReverted(fv, c) <=> WasReverted(ev, c)
<1>1. \A a \in ConfirmedOf(ev, c) :
          a.target = c /\ a \in Confirmed(ev) /\ a \in Confirmed(fv)
  BY DEF ConfirmedOf
<1>2. \A a \in ConfirmedOf(ev, c) : IsActive(fv, a) <=> IsActive(ev, a)
  BY <1>1, Zenon DEF IsActive
<1>3. HasActive(fv, c) <=> HasActive(ev, c)
  BY <1>2, Zenon DEF HasActive
<1>4. WasReverted(fv, c) <=> WasReverted(ev, c)
  BY Zenon DEF WasReverted
<1> QED
  BY <1>3, <1>4

(* Attempts, and events the fold does not read, change nothing. *)
LEMMA SameFold ==
    ASSUME NEW ev, NEW fv, Sound(ev), Sound(fv),
           Applications(fv) = Applications(ev), Reverts(fv) = Reverts(ev), NEW c
    PROVE  /\ HasActive(fv, c) <=> HasActive(ev, c)
           /\ WasReverted(fv, c) <=> WasReverted(ev, c)
<1>1. ConfirmedOf(fv, c) = ConfirmedOf(ev, c)
  BY SoundConfirmed DEF ConfirmedOf
<1>2. \A a : RevertsOf(fv, a) = RevertsOf(ev, a)
  BY DEF RevertsOf
<1> QED
  BY <1>1, <1>2, SameShown

(* A correction with a latest application is active or was reverted. *)
LEMMA LatestDecides ==
    ASSUME NEW ev, Sound(ev), Typed(ev), NEW a, Latest(ev, a), NEW c, a.target = c
    PROVE  /\ HasActive(ev, c) <=> \A v \in RevertsOf(ev, a) : ~Usable(v, a)
           /\ ~HasActive(ev, c) => WasReverted(ev, c)
<1>1. a \in ConfirmedOf(ev, c)
  BY SoundConfirmed DEF ConfirmedOf, Latest
<1>2. ASSUME NEW b \in ConfirmedOf(ev, c), IsActive(ev, b)
      PROVE  b = a
  <2>1. Latest(ev, b) /\ b.target = a.target
    BY <1>2, ActiveIsLatest DEF ConfirmedOf
  <2>2. b # a => Later(a, b) /\ Later(b, a)
    BY <2>1 DEF Latest
  <2> QED
    BY <2>1, <2>2 DEF Later, Latest, Typed
<1>3. HasActive(ev, c) <=> IsActive(ev, a)
  BY <1>1, <1>2 DEF HasActive
<1>4. HasActive(ev, c) <=> \A v \in RevertsOf(ev, a) : ~Usable(v, a)
  BY <1>3, ActiveIsLatest
<1>5. \A b \in ConfirmedOf(ev, c) : ~Later(b, a)
  <2> SUFFICES ASSUME NEW b \in ConfirmedOf(ev, c), Later(b, a) PROVE FALSE
    OBVIOUS
  <2>1. b \in Applications(ev) /\ b.target = a.target
    BY SoundConfirmed DEF ConfirmedOf
  <2> QED
    BY <2>1 DEF Later, Latest, Typed
<1>6. ~HasActive(ev, c) => WasReverted(ev, c)
  BY <1>1, <1>4, <1>5 DEF WasReverted
<1> QED
  BY <1>4, <1>6

(* A correction that was never applied is neither. *)
LEMMA NeverApplied ==
    ASSUME NEW ev, NEW c, \A a \in Applications(ev) : a.target # c
    PROVE  ~HasActive(ev, c) /\ ~WasReverted(ev, c)
BY DEF HasActive, WasReverted, ConfirmedOf, Confirmed

-----------------------------------------------------------------------------
(* One more application. *)
LEMMA ApplicationAdded ==
    ASSUME NEW ev, NEW e, NEW fv, fv = ev \cup {e}, e.type = "applied",
           Sound(ev), Sound(fv), Typed(fv), Settled(ev), UniqueEventIds(fv), e \notin ev,
           \A v \in Reverts(ev) : v.ref # e.id
    PROVE  /\ Settled(fv)
           /\ \/ HasActive(fv, e.target)
              \/ /\ ~HasActive(ev, e.target) /\ ~HasActive(fv, e.target)
                 /\ WasReverted(ev, e.target) /\ WasReverted(fv, e.target)
           /\ \A c : c # e.target =>
                 /\ HasActive(fv, c) <=> HasActive(ev, c)
                 /\ WasReverted(fv, c) <=> WasReverted(ev, c)
<1>1. /\ Applications(fv) = Applications(ev) \cup {e}
      /\ Reverts(fv) = Reverts(ev)
      /\ Typed(ev)
  BY DEF Applications, Reverts, Typed
<1>2. RevertsOf(fv, e) = {} /\ \A a : RevertsOf(fv, a) = RevertsOf(ev, a)
  BY <1>1 DEF RevertsOf
<1>3. ASSUME NEW c, c # e.target
      PROVE  /\ HasActive(fv, c) <=> HasActive(ev, c)
             /\ WasReverted(fv, c) <=> WasReverted(ev, c)
  <2>1. ConfirmedOf(fv, c) = ConfirmedOf(ev, c)
    BY <1>1, <1>3, SoundConfirmed DEF ConfirmedOf
  <2> QED
    BY <2>1, <1>2, SameShown
<1>4. ASSUME NEW a \in Applications(ev), NEW m, Latest(ev, m), m.target = a.target
      PROVE  \/ m.target = e.target /\ Latest(fv, e)
             \/ Latest(fv, m)
  <2>1. m \in Applications(ev) /\ m # e /\ m.id # e.id
    BY <1>4, <1>1 DEF Latest, Applications, UniqueEventIds
  <2>2. e \in Applications(fv) /\ m \in Applications(fv)
    BY <1>1, <2>1
  <2>3. m.id \in Int /\ m.at \in Int /\ e.id \in Int /\ e.at \in Int
    BY <2>2 DEF Typed
  <2>4. CASE m.target # e.target
    BY <2>4, <2>2, <1>1, <1>4 DEF Latest
  <2>5. CASE m.target = e.target /\ Later(m, e)
    BY <2>5, <2>2, <1>1, <1>4 DEF Latest
  <2>6. CASE m.target = e.target /\ ~Later(m, e)
    <3>1. Later(e, m)
      BY <2>6, <2>1, <2>3 DEF Later
    <3>2. ASSUME NEW b \in Applications(ev), b.target = e.target PROVE Later(e, b)
      <4>1. b = m \/ Later(m, b)
        BY <3>2, <2>6, <1>4 DEF Latest
      <4>2. b.id \in Int /\ b.at \in Int
        BY <1>1 DEF Typed
      <4> QED
        BY <4>1, <4>2, <3>1, <2>3 DEF Later
    <3> QED
      BY <3>2, <2>6, <2>2, <1>1 DEF Latest
  <2> QED
    BY <2>4, <2>5, <2>6
<1>5. ASSUME \A a \in Applications(ev) : a.target # e.target
      PROVE  Latest(fv, e)
  BY <1>5, <1>1 DEF Latest
<1>6. Latest(fv, e) => HasActive(fv, e.target)
  BY <1>2, LatestDecides
<1>7. ASSUME NEW a \in Applications(ev)
      PROVE  \E m \in Applications(fv) : m.target = a.target /\ Latest(fv, m)
  <2>1. PICK m \in Applications(ev) : m.target = a.target /\ Latest(ev, m)
    BY DEF Settled
  <2>2. (m.target = e.target /\ Latest(fv, e)) \/ Latest(fv, m)
    BY <2>1, <1>4
  <2> QED
    BY <2>1, <2>2, <1>1
<1>8. Settled(fv)
  <2>1. \E m \in Applications(fv) : m.target = e.target /\ Latest(fv, m)
    BY <1>1, <1>5, <1>7
  <2> QED
    BY <2>1, <1>1, <1>7 DEF Settled
<1>9. CASE \A a \in Applications(ev) : a.target # e.target
  BY <1>9, <1>3, <1>5, <1>6, <1>8
<1>10. CASE \E a \in Applications(ev) : a.target = e.target
  <2>1. PICK m \in Applications(ev) : m.target = e.target /\ Latest(ev, m)
    BY <1>10 DEF Settled
  <2>2. ASSUME Latest(fv, m)
        PROVE  \/ HasActive(fv, e.target)
               \/ /\ ~HasActive(ev, e.target) /\ ~HasActive(fv, e.target)
                  /\ WasReverted(ev, e.target) /\ WasReverted(fv, e.target)
    <3>1. /\ HasActive(fv, e.target) <=> \A v \in RevertsOf(fv, m) : ~Usable(v, m)
          /\ ~HasActive(fv, e.target) => WasReverted(fv, e.target)
      BY <2>1, <2>2, LatestDecides
    <3>2. /\ HasActive(ev, e.target) <=> \A v \in RevertsOf(ev, m) : ~Usable(v, m)
          /\ ~HasActive(ev, e.target) => WasReverted(ev, e.target)
      BY <2>1, <1>1, LatestDecides
    <3>3. RevertsOf(fv, m) = RevertsOf(ev, m)
      BY <1>2
    <3> QED
      BY <3>1, <3>2, <3>3, Zenon
  <2> QED
    BY <2>1, <2>2, <1>3, <1>4, <1>6, <1>8
<1> QED
  BY <1>9, <1>10

(* One more revert, of an application that is active. *)
LEMMA RevertAdded ==
    ASSUME NEW ev, NEW e, NEW fv, fv = ev \cup {e}, e.type = "reverted",
           Sound(ev), Sound(fv), Typed(fv), UniqueEventIds(ev),
           NEW a, IsActive(ev, a), e.ref = a.id, Usable(e, a)
    PROVE  /\ HasActive(ev, a.target) /\ ~HasActive(fv, a.target)
           /\ WasReverted(fv, a.target)
           /\ \A c : c # a.target =>
                 /\ HasActive(fv, c) <=> HasActive(ev, c)
                 /\ WasReverted(fv, c) <=> WasReverted(ev, c)
<1>1. /\ Applications(fv) = Applications(ev)
      /\ Reverts(fv) = Reverts(ev) \cup {e}
  BY DEF Applications, Reverts
<1>2. Latest(ev, a) /\ a \in Applications(ev)
  BY ActiveIsLatest DEF Latest
<1>3. Latest(fv, a)
  BY <1>1, <1>2 DEF Latest
<1>4. e \in RevertsOf(fv, a)
  BY <1>1 DEF RevertsOf
<1>5. ~HasActive(fv, a.target) /\ WasReverted(fv, a.target)
  BY <1>3, <1>4, LatestDecides
<1>6. HasActive(ev, a.target)
  BY <1>2, SoundConfirmed DEF HasActive, ConfirmedOf
<1>7. ASSUME NEW c, c # a.target
      PROVE  /\ HasActive(fv, c) <=> HasActive(ev, c)
             /\ WasReverted(fv, c) <=> WasReverted(ev, c)
  <2>1. ConfirmedOf(fv, c) = ConfirmedOf(ev, c)
    BY <1>1, SoundConfirmed DEF ConfirmedOf
  <2>2. ASSUME NEW b \in ConfirmedOf(ev, c) PROVE RevertsOf(fv, b) = RevertsOf(ev, b)
    <3>1. b \in Applications(ev) /\ b.target = c
      BY SoundConfirmed DEF ConfirmedOf
    <3>2. b.id # e.ref
      BY <3>1, <1>2, <1>7 DEF UniqueEventIds, Applications
    <3> QED
      BY <3>2, <1>1 DEF RevertsOf
  <2> QED
    BY <2>1, <2>2, SameShown
<1> QED
  BY <1>5, <1>6, <1>7

-----------------------------------------------------------------------------
(* What every event keeps of the events. *)
EventsOK(ev) == UniqueEventIds(ev) /\ Sound(ev) /\ Ordered(ev) /\ Settled(ev)

New(ev, e) == \A f \in ev : f.id # e.id

LEMMA NewUnique ==
    ASSUME NEW ev, NEW e, UniqueEventIds(ev), New(ev, e)
    PROVE  UniqueEventIds(ev \cup {e}) /\ e \notin ev
BY DEF UniqueEventIds, New

(* An attempt, or an event the fold does not read. *)
LEMMA AttemptKeeps ==
    ASSUME NEW ev, NEW e, NEW fv, fv = ev \cup {e}, EventsOK(ev), New(ev, e),
           e.type # "applied", e.type # "reverted"
    PROVE  /\ EventsOK(fv)
           /\ Applications(fv) = Applications(ev)
           /\ Reverts(fv) = Reverts(ev)
           /\ Attempts(ev) \subseteq Attempts(fv)
<1>1. /\ Applications(fv) = Applications(ev)
      /\ Reverts(fv) = Reverts(ev)
      /\ Attempts(ev) \subseteq Attempts(fv)
  BY DEF Applications, Reverts, Attempts
<1>2. UniqueEventIds(fv)
  BY NewUnique DEF EventsOK
<1>3. Sound(fv)
  BY <1>1 DEF EventsOK, Sound
<1>4. Ordered(fv)
  BY <1>1 DEF EventsOK, Ordered
<1>5. \A m : Latest(fv, m) <=> Latest(ev, m)
  BY <1>1 DEF Latest
<1>6. Settled(fv)
  BY <1>1, <1>5 DEF EventsOK, Settled
<1> QED
  BY <1>1, <1>2, <1>3, <1>4, <1>6 DEF EventsOK

LEMMA ApplicationKeeps ==
    ASSUME NEW ev, NEW e, NEW fv, fv = ev \cup {e}, EventsOK(ev), New(ev, e), Typed(fv),
           e.type = "applied",
           \E t \in Attempts(ev) : t.id = e.attempt /\ t.target = e.target,
           \A a \in Applications(ev) : a.attempt # e.attempt
    PROVE  /\ EventsOK(fv)
           /\ Applications(fv) = Applications(ev) \cup {e}
           /\ Attempts(fv) = Attempts(ev)
           /\ \A v \in Reverts(ev) : v.ref # e.id
<1>1. /\ Applications(fv) = Applications(ev) \cup {e}
      /\ Reverts(fv) = Reverts(ev)
      /\ Attempts(fv) = Attempts(ev)
  BY DEF Applications, Reverts, Attempts
<1>2. UniqueEventIds(fv) /\ e \notin ev
  BY NewUnique DEF EventsOK
<1>3. Sound(fv)
  BY <1>1 DEF EventsOK, Sound
<1>4. \A v \in Reverts(ev) : v.ref # e.id
  BY DEF EventsOK, Ordered, New, Applications
<1>5. Ordered(fv)
  BY <1>1 DEF EventsOK, Ordered
<1>6. Settled(fv)
  BY <1>2, <1>3, <1>4, ApplicationAdded DEF EventsOK
<1> QED
  BY <1>1, <1>2, <1>3, <1>4, <1>5, <1>6 DEF EventsOK

LEMMA RevertKeeps ==
    ASSUME NEW ev, NEW e, NEW fv, fv = ev \cup {e}, EventsOK(ev), New(ev, e),
           e.type = "reverted",
           NEW a \in Applications(ev), e.ref = a.id, Usable(e, a)
    PROVE  /\ EventsOK(fv)
           /\ Applications(fv) = Applications(ev)
           /\ Attempts(fv) = Attempts(ev)
<1>1. /\ Applications(fv) = Applications(ev)
      /\ Reverts(fv) = Reverts(ev) \cup {e}
      /\ Attempts(fv) = Attempts(ev)
  BY DEF Applications, Reverts, Attempts
<1>2. UniqueEventIds(fv)
  BY NewUnique DEF EventsOK
<1>3. Sound(fv)
  BY <1>1 DEF EventsOK, Sound
<1>4. Ordered(fv)
  BY <1>1 DEF EventsOK, Ordered
<1>5. \A m : Latest(fv, m) <=> Latest(ev, m)
  BY <1>1 DEF Latest
<1>6. Settled(fv)
  BY <1>1, <1>5 DEF EventsOK, Settled
<1> QED
  BY <1>1, <1>2, <1>3, <1>4, <1>6 DEF EventsOK

-----------------------------------------------------------------------------
(* The inductive invariant. *)

Applying(p) == pc[p] \in {"status", "confirm"}

(* A process past phase 1 has logged an attempt nobody has confirmed. *)
AttemptPending ==
    \A p \in Procs : Applying(p) =>
        /\ \E t \in Attempts(events) : t.id = attempt[p] /\ picked[p] = {t.target}
        /\ \A a \in Applications(events) : a.attempt # attempt[p]

(* No two of them share it. *)
AttemptOwned ==
    \A p, q \in Procs :
        Applying(p) /\ Applying(q) /\ attempt[p] = attempt[q] => p = q

AppliedAttempted ==
    \A c \in Corrections : status[c] = "applied" =>
        \E t \in Attempts(events) : t.target = c

IInv ==
    /\ TypeOK
    /\ EventsOK(events)
    /\ AttemptPending
    /\ AttemptOwned
    /\ AppliedAttempted

LEMMA TypedEvents ==
    ASSUME NEW ev, ev \subseteq Attempted \cup Skipped \cup Applied \cup Reverted
    PROVE  /\ Typed(ev)
           /\ Applications(ev) \subseteq Applied
           /\ Reverts(ev) \subseteq Reverted
           /\ Attempts(ev) \subseteq Attempted
BY ReflectAssumption DEF Typed, Applications, Reverts, Attempts, Attempted,
   Skipped, Applied, Reverted, Ids, Times

LEMMA InitIInv == Init => IInv
<1> SUFFICES ASSUME Init PROVE IInv
  OBVIOUS
<1>1. TypeOK
  BY DEF Init, TypeOK, Status
<1>2. Applications(events) = {} /\ Reverts(events) = {}
  BY DEF Init, Applications, Reverts
<1>3. EventsOK(events)
  BY <1>2 DEF Init, EventsOK, UniqueEventIds, Sound, Ordered, Settled
<1>4. AttemptPending /\ AttemptOwned /\ AppliedAttempted
  BY DEF Init, AttemptPending, AttemptOwned, AppliedAttempted, Applying
<1> QED
  BY <1>1, <1>3, <1>4 DEF IInv

LEMMA TypePreserved ==
    ASSUME IInv, [Next]_vars
    PROVE  TypeOK'
<1>0. TypeOK /\ AttemptPending
  BY DEF IInv
<1> USE <1>0 DEF TypeOK
<1>1. CASE UNCHANGED vars
  BY <1>1 DEF vars
<1>2. CASE Revoke
  <2>1. PICK a \in Applications(events), id \in Ids, at \in Times :
           events' = events \cup {[type |-> "reverted", id |-> id, ref |-> a.id, at |-> at]}
    BY <1>2 DEF Revoke, Log
  <2>2. a.id \in Ids
    BY TypedEvents DEF Applied
  <2>3. events' \subseteq Attempted \cup Skipped \cup Applied \cup Reverted
    BY <2>1, <2>2 DEF Reverted
  <2> QED
    BY <1>2, <2>3 DEF Revoke
<1>3. ASSUME NEW p \in Procs, ProcStep(p) PROVE TypeOK'
  <2>1. CASE Stop(p)
    BY <2>1 DEF Stop, Exit, Become
  <2>2. CASE ApplyBegin(p)
    BY <2>2 DEF ApplyBegin, Become
  <2>3. CASE LogAttempt(p)
    BY <2>3 DEF LogAttempt, Log, Become, Attempted
  <2>4. CASE SetApplied(p)
    BY <2>4 DEF SetApplied, Become, Status
  <2>5. CASE LogConfirm(p)
    <3>1. PICK c \in picked[p], id \in Ids, at \in Times :
             events' = events \cup {[type |-> "applied", id |-> id,
                                     attempt |-> attempt[p], target |-> c, at |-> at]}
      BY <2>5 DEF LogConfirm, Log
    <3>2. attempt[p] \in Ids
      BY <2>5, TypedEvents DEF LogConfirm, AttemptPending, Applying, Attempted
    <3>3. events' \subseteq Attempted \cup Skipped \cup Applied \cup Reverted
      BY <3>1, <3>2 DEF Applied
    <3> QED
      BY <2>5, <3>3 DEF LogConfirm, Exit, Become
  <2>6. CASE SkipBegin(p)
    BY <2>6 DEF SkipBegin, Become
  <2>7. CASE SkipAllBegin(p)
    BY <2>7 DEF SkipAllBegin, Become
  <2>8. CASE SetSkipped(p)
    BY <2>8 DEF SetSkipped, Exit, Become, Status
  <2>9. CASE LogSkipped(p)
    BY <2>9 DEF LogSkipped, Exit, Log, Become, Skipped
  <2> QED
    BY <1>3, <2>1, <2>2, <2>3, <2>4, <2>5, <2>6, <2>7, <2>8, <2>9 DEF ProcStep
<1> QED
  BY <1>1, <1>2, <1>3 DEF Next

LEMMA AttemptLogged ==
    ASSUME IInv, TypeOK', NEW p \in Procs, LogAttempt(p)
    PROVE  IInv'
<1> USE DEF IInv, TypeOK
<1>1. PICK c \in picked[p], id \in Ids :
          /\ Log([type |-> "attempted", id |-> id, target |-> c])
          /\ Become(p, "status", {c}, id)
  BY DEF LogAttempt
<1> DEFINE e == [type |-> "attempted", id |-> id, target |-> c]
<1>2. New(events, e) /\ events' = events \cup {e}
  BY <1>1 DEF Log, Fresh, New
<1>e. e.type = "attempted" /\ e.id = id /\ e.target = c
  OBVIOUS
<1> HIDE DEF e
<1>3. /\ EventsOK(events')
      /\ Applications(events') = Applications(events)
      /\ Attempts(events) \subseteq Attempts(events')
  BY <1>2, <1>e, AttemptKeeps
<1>4. e \in Attempts(events')
  BY <1>2, <1>e DEF Attempts
<1>5. \A a \in Applications(events) : a.attempt # id
  BY <1>2, <1>e DEF EventsOK, Sound, New, Attempts
<1>6. AttemptPending'
  BY <1>1, <1>e, <1>3, <1>4, <1>5 DEF AttemptPending, Applying, Become
<1>7. \A q \in Procs : Applying(q) => attempt[q] # id
  BY <1>2, <1>e DEF AttemptPending, New, Attempts
<1>8. AttemptOwned'
  BY <1>1, <1>7 DEF AttemptOwned, Applying, Become
<1>9. AppliedAttempted'
  BY <1>3 DEF AppliedAttempted, LogAttempt
<1> QED
  BY <1>3, <1>6, <1>8, <1>9

LEMMA ConfirmLogged ==
    ASSUME IInv, TypeOK', NEW p \in Procs, LogConfirm(p)
    PROVE  IInv'
<1> USE DEF IInv, TypeOK
<1>1. PICK c \in picked[p], id \in Ids, at \in Times :
          Log([type |-> "applied", id |-> id, attempt |-> attempt[p],
               target |-> c, at |-> at])
  BY DEF LogConfirm
<1> DEFINE e == [type |-> "applied", id |-> id, attempt |-> attempt[p],
                 target |-> c, at |-> at]
<1>2. New(events, e) /\ events' = events \cup {e}
  BY <1>1 DEF Log, Fresh, New
<1>e. e.type = "applied" /\ e.attempt = attempt[p] /\ e.target = c
  OBVIOUS
<1> HIDE DEF e
<1>3. Applying(p)
  BY DEF LogConfirm, Applying
<1>4. Typed(events')
  BY TypedEvents
<1>5. \E t \in Attempts(events) : t.id = e.attempt /\ t.target = e.target
  BY <1>3, <1>e DEF AttemptPending
<1>6. \A a \in Applications(events) : a.attempt # e.attempt
  BY <1>3, <1>e DEF AttemptPending
<1>o. EventsOK(events)
  OBVIOUS
<1> HIDE DEF IInv, TypeOK
<1>7. /\ EventsOK(events')
      /\ Applications(events') = Applications(events) \cup {e}
      /\ Attempts(events') = Attempts(events)
  BY <1>2, <1>e, <1>4, <1>5, <1>6, <1>o, ApplicationKeeps
<1> USE DEF IInv, TypeOK
<1>8. /\ \A q \in Procs : Applying(q)' => Applying(q) /\ q # p
      /\ \A q \in Procs \ {p} : attempt'[q] = attempt[q] /\ picked'[q] = picked[q]
  BY DEF LogConfirm, Exit, Become, Applying
<1>9. AttemptPending'
  BY <1>3, <1>e, <1>7, <1>8 DEF AttemptPending, AttemptOwned
<1>10. AttemptOwned'
  BY <1>8 DEF AttemptOwned
<1>11. AppliedAttempted'
  BY <1>7 DEF AppliedAttempted, LogConfirm
<1> QED
  BY <1>7, <1>9, <1>10, <1>11

(* A step that leaves events and statuses alone, and applies nothing. *)
LEMMA Quiet ==
    ASSUME IInv, TypeOK', UNCHANGED events,
           \A c \in Corrections : status'[c] = "applied" => status[c] = "applied",
           \A q \in Procs : Applying(q)' => Applying(q)
                              /\ attempt'[q] = attempt[q] /\ picked'[q] = picked[q]
    PROVE  IInv'
<1> USE DEF IInv
<1>1. EventsOK(events')
  OBVIOUS
<1>2. AttemptPending'
  BY DEF AttemptPending
<1>3. AttemptOwned'
  BY DEF AttemptOwned
<1>4. AppliedAttempted'
  BY DEF AppliedAttempted
<1> QED
  BY <1>1, <1>2, <1>3, <1>4

LEMMA Revoked ==
    ASSUME IInv, TypeOK', Revoke
    PROVE  IInv'
<1> USE DEF IInv
<1>1. PICK a \in Applications(events), id \in Ids, at \in Times :
          /\ at > a.at
          /\ Log([type |-> "reverted", id |-> id, ref |-> a.id, at |-> at])
  BY DEF Revoke, Revocable
<1> DEFINE e == [type |-> "reverted", id |-> id, ref |-> a.id, at |-> at]
<1>2. New(events, e) /\ events' = events \cup {e}
  BY <1>1 DEF Log, Fresh, New
<1>3. Usable(e, a)
  BY <1>1 DEF Usable
<1>4. /\ EventsOK(events')
      /\ Applications(events') = Applications(events)
      /\ Attempts(events') = Attempts(events)
  BY <1>2, <1>3, RevertKeeps
<1>5. AttemptPending' /\ AttemptOwned' /\ AppliedAttempted'
  BY <1>4 DEF Revoke, AttemptPending, AttemptOwned, AppliedAttempted, Applying
<1> QED
  BY <1>4, <1>5

LEMMA SkipLogged ==
    ASSUME IInv, TypeOK', NEW p \in Procs, LogSkipped(p)
    PROVE  IInv'
<1> USE DEF IInv, TypeOK
<1>1. PICK c \in picked[p], id \in Ids :
          Log([type |-> "skipped", id |-> id, target |-> c])
  BY DEF LogSkipped
<1> DEFINE e == [type |-> "skipped", id |-> id, target |-> c]
<1>2. New(events, e) /\ events' = events \cup {e}
  BY <1>1 DEF Log, Fresh, New
<1>e. e.type = "skipped" /\ e.id = id /\ e.target = c
  OBVIOUS
<1> HIDE DEF e
<1>3. /\ EventsOK(events')
      /\ Applications(events') = Applications(events)
      /\ Attempts(events) \subseteq Attempts(events')
  BY <1>2, <1>e, AttemptKeeps
<1>4. \A q \in Procs : Applying(q)' => Applying(q)
                           /\ attempt'[q] = attempt[q] /\ picked'[q] = picked[q]
  BY DEF LogSkipped, Exit, Become, Applying
<1>5. AttemptPending' /\ AttemptOwned' /\ AppliedAttempted'
  BY <1>3, <1>4 DEF LogSkipped, AttemptPending, AttemptOwned, AppliedAttempted
<1> QED
  BY <1>3, <1>5

LEMMA StatusSet ==
    ASSUME IInv, TypeOK', NEW p \in Procs, SetApplied(p)
    PROVE  IInv'
<1> USE DEF IInv, TypeOK
<1>1. PICK c \in picked[p] : /\ status' = [status EXCEPT ![c] = "applied"]
                             /\ Become(p, "confirm", {c}, attempt[p])
  BY DEF SetApplied
<1>2. Applying(p) /\ UNCHANGED events
  BY DEF SetApplied, Applying
<1>3. \E t \in Attempts(events) : t.id = attempt[p] /\ t.target = c /\ picked[p] = {c}
  BY <1>2 DEF AttemptPending
<1>4. /\ \A q \in Procs : Applying(q)' => Applying(q)
      /\ UNCHANGED <<attempt, picked>>
  BY <1>1, <1>2, <1>3 DEF Become, Applying
<1>5. AttemptPending' /\ AttemptOwned'
  BY <1>2, <1>4 DEF AttemptPending, AttemptOwned
<1>6. AppliedAttempted'
  BY <1>1, <1>2, <1>3 DEF AppliedAttempted
<1>7. EventsOK(events')
  BY <1>2
<1> QED
  BY <1>5, <1>6, <1>7

LEMMA NextIInv == IInv /\ [Next]_vars => IInv'
<1> SUFFICES ASSUME IInv, [Next]_vars PROVE IInv'
  OBVIOUS
<1>0. TypeOK /\ TypeOK'
  BY TypePreserved DEF IInv
<1> USE <1>0 DEF TypeOK
<1>1. CASE UNCHANGED vars
  BY <1>1, Quiet DEF vars, Applying
<1>2. CASE Revoke
  BY <1>2, Revoked
<1>3. ASSUME NEW p \in Procs, ProcStep(p) PROVE IInv'
  <2>1. CASE Stop(p)
    BY <2>1, Quiet DEF Stop, Exit, Become, Applying
  <2>2. CASE ApplyBegin(p)
    BY <2>2, Quiet DEF ApplyBegin, Become, Applying
  <2>3. CASE LogAttempt(p)
    BY <2>3, AttemptLogged
  <2>4. CASE SetApplied(p)
    BY <2>4, StatusSet
  <2>5. CASE LogConfirm(p)
    BY <2>5, ConfirmLogged
  <2>6. CASE SkipBegin(p)
    BY <2>6, Quiet DEF SkipBegin, Become, Applying
  <2>7. CASE SkipAllBegin(p)
    BY <2>7, Quiet DEF SkipAllBegin, Become, Applying
  <2>8. CASE SetSkipped(p)
    BY <2>8, Quiet DEF SetSkipped, Exit, Become, Applying
  <2>9. CASE LogSkipped(p)
    BY <2>9, SkipLogged
  <2> QED
    BY <1>3, <2>1, <2>2, <2>3, <2>4, <2>5, <2>6, <2>7, <2>8, <2>9 DEF ProcStep
<1> QED
  BY <1>1, <1>2, <1>3 DEF Next

LEMMA Invariance == Spec => []IInv
BY InitIInv, NextIInv, PTL DEF Spec

-----------------------------------------------------------------------------
(* Every variable stays in its range: no confirmation is logged without the *)
(* id of an attempt.                                                        *)
THEOREM TypeCorrect == Spec => []TypeOK
<1>1. IInv => TypeOK
  BY DEF IInv
<1> QED
  BY <1>1, Invariance, PTL

(* However many processes apply and revoke, and however their clocks run,   *)
(* no correction becomes ambiguous.                                         *)
THEOREM NeverAmbiguous == Spec => []NoAmbiguity
<1>1. IInv => NoAmbiguity
  BY NotAmbiguous DEF IInv, EventsOK, NoAmbiguity
<1> QED
  BY <1>1, Invariance, PTL

(* A correction marked applied always has an attempt, so the fold reports   *)
(* it even if the process died before the confirmation.                     *)
THEOREM AppliedIsReported == Spec => []AppliedIsAccounted
<1>1. IInv => AppliedIsAccounted
  BY Zenon DEF IInv, AppliedAttempted, AppliedIsAccounted, View, Reconciled
<1> QED
  BY <1>1, Invariance, PTL

(* What shows of a correction, in a state of the invariant. *)
Shown(ev, c, st) ==
    IF HasActive(ev, c) THEN "active"
    ELSE IF WasReverted(ev, c) THEN "reverted"
    ELSE IF st = "applied" THEN "reconciled"
    ELSE "open"

LEMMA ViewIsShown ==
    IInv => \A c \in Corrections : View(events, c, status[c]) = Shown(events, c, status[c])
<1> SUFFICES ASSUME IInv, NEW c \in Corrections
             PROVE  View(events, c, status[c]) = Shown(events, c, status[c])
  OBVIOUS
<1>1. ~Ambiguous(events, c)
  BY NotAmbiguous DEF IInv, EventsOK
<1>2. Reconciled(events, c, status[c]) <=> status[c] = "applied"
  BY DEF IInv, AppliedAttempted, Reconciled
<1> QED
  BY <1>1, <1>2, Zenon DEF View, Shown

(* What a step may do to what shows. *)
LEMMA StepShows ==
    ASSUME IInv, IInv', [Next]_vars
    PROVE  \/ \E c \in Corrections :
                /\ \A d \in Corrections \ {c} :
                      Shown(events, d, status[d])' = Shown(events, d, status[d])
                /\ \/ /\ Shown(events, c, status[c]) = "open"
                      /\ Shown(events, c, status[c])' = "reconciled"
                   \/ Shown(events, c, status[c])' = "active"
                   \/ /\ Shown(events, c, status[c]) = "active"
                      /\ Shown(events, c, status[c])' = "reverted"
           \/ \A c \in Corrections :
                \/ Shown(events, c, status[c])' = Shown(events, c, status[c])
                \/ /\ Shown(events, c, status[c]) = "reconciled"
                   /\ Shown(events, c, status[c])' = "open"
<1> DEFINE Was(c) == Shown(events, c, status[c])
           Is(c) == Shown(events', c, status'[c])
<1>0. TypeOK /\ TypeOK' /\ EventsOK(events) /\ EventsOK(events') /\ Sound(events)
      /\ Sound(events') /\ Typed(events')
  BY TypedEvents DEF IInv, EventsOK, TypeOK
<1>1. ASSUME UNCHANGED <<events, status>> PROVE \A c \in Corrections : Is(c) = Was(c)
  BY <1>1
<1>2. ASSUME Applications(events') = Applications(events), Reverts(events') = Reverts(events),
             UNCHANGED status
      PROVE  \A c \in Corrections : Is(c) = Was(c)
  BY <1>0, <1>2, SameFold, Zenon DEF Shown
<1>3. ASSUME UNCHANGED vars PROVE \A c \in Corrections : Is(c) = Was(c)
  BY <1>1, <1>3 DEF vars
<1>4. ASSUME Revoke
      PROVE  \E c \in Corrections :
                /\ \A d \in Corrections \ {c} : Is(d) = Was(d)
                /\ Was(c) = "active" /\ Is(c) = "reverted"
  <2>1. PICK a \in Applications(events), id \in Ids, at \in Times :
            /\ Revocable(events, a, at)
            /\ Log([type |-> "reverted", id |-> id, ref |-> a.id, at |-> at])
    BY <1>4 DEF Revoke
  <2> DEFINE e == [type |-> "reverted", id |-> id, ref |-> a.id, at |-> at]
  <2>2. events' = events \cup {e} /\ IsActive(events, a)
    BY <2>1 DEF Log, Revocable
  <2>3. e.type = "reverted" /\ e.ref = a.id /\ Usable(e, a)
    BY <2>1 DEF Revocable, Usable
  <2>4. a.target \in Corrections
    BY <1>0, TypedEvents DEF TypeOK, Applied
  <2> HIDE DEF e
  <2>5. /\ HasActive(events, a.target) /\ ~HasActive(events', a.target)
        /\ WasReverted(events', a.target)
        /\ \A c : c # a.target =>
              /\ HasActive(events', c) <=> HasActive(events, c)
              /\ WasReverted(events', c) <=> WasReverted(events, c)
    BY <1>0, <2>2, <2>3, RevertAdded DEF EventsOK
  <2>6. Was(a.target) = "active" /\ Is(a.target) = "reverted"
    BY <2>5 DEF Shown
  <2>7. \A c \in Corrections \ {a.target} : Is(c) = Was(c)
    BY <2>5, <1>4, Zenon DEF Shown, Revoke
  <2> QED
    BY <2>4, <2>6, <2>7
<1>5. ASSUME NEW p \in Procs, LogConfirm(p)
      PROVE  \E c \in Corrections :
                /\ \A d \in Corrections \ {c} : Is(d) = Was(d)
                /\ Is(c) = "active" \/ Is(c) = Was(c)
  <2>1. PICK c \in picked[p], id \in Ids, at \in Times :
            Log([type |-> "applied", id |-> id, attempt |-> attempt[p],
                 target |-> c, at |-> at])
    BY <1>5 DEF LogConfirm
  <2> DEFINE e == [type |-> "applied", id |-> id, attempt |-> attempt[p],
                   target |-> c, at |-> at]
  <2>2. New(events, e) /\ events' = events \cup {e}
    BY <2>1 DEF Log, Fresh, New
  <2>3. e.type = "applied" /\ e.target = c
    OBVIOUS
  <2> HIDE DEF e
  <2>4. \A v \in Reverts(events) : v.ref # e.id
    BY <1>0, <2>2 DEF EventsOK, Ordered, New, Applications
  <2>5. e \notin events
    BY <2>2 DEF New
  <2>6. /\ \/ HasActive(events', e.target)
           \/ /\ ~HasActive(events, e.target) /\ ~HasActive(events', e.target)
              /\ WasReverted(events, e.target) /\ WasReverted(events', e.target)
        /\ \A d : d # e.target =>
              /\ HasActive(events', d) <=> HasActive(events, d)
              /\ WasReverted(events', d) <=> WasReverted(events, d)
    BY <1>0, <2>2, <2>3, <2>4, <2>5, ApplicationAdded DEF EventsOK
  <2>7. Is(c) = "active" \/ Is(c) = Was(c)
    BY <2>3, <2>6 DEF Shown
  <2>8. \A d \in Corrections \ {c} : Is(d) = Was(d)
    BY <2>3, <2>6, <1>5, Zenon DEF Shown, LogConfirm
  <2>9. c \in Corrections
    BY <1>0 DEF TypeOK
  <2> QED
    BY <2>7, <2>8, <2>9
<1>6. ASSUME NEW p \in Procs, SetApplied(p)
      PROVE  \E c \in Corrections :
                /\ \A d \in Corrections \ {c} : Is(d) = Was(d)
                /\ Is(c) = Was(c) \/ (Was(c) = "open" /\ Is(c) = "reconciled")
  <2>1. PICK c \in picked[p] : status' = [status EXCEPT ![c] = "applied"]
    BY <1>6 DEF SetApplied
  <2>2. c \in Corrections /\ events' = events
    BY <1>0, <1>6 DEF TypeOK, SetApplied
  <2>3. Is(c) = Was(c) \/ (Was(c) = "open" /\ Is(c) = "reconciled")
    BY <1>0, <2>1, <2>2 DEF Shown, TypeOK
  <2>4. \A d \in Corrections \ {c} : Is(d) = Was(d)
    BY <1>0, <2>1, <2>2 DEF TypeOK
  <2> QED
    BY <2>2, <2>3, <2>4
<1>7. ASSUME NEW p \in Procs, SetSkipped(p)
      PROVE  \A c \in Corrections :
                Is(c) = Was(c) \/ (Was(c) = "reconciled" /\ Is(c) = "open")
  <2>1. events' = events
        /\ \A c \in Corrections : status'[c] = status[c] \/ status'[c] = "skipped"
    BY <1>7 DEF SetSkipped
  <2> QED
    BY <2>1 DEF Shown
<1>8. ASSUME NEW p \in Procs, LogAttempt(p) \/ LogSkipped(p)
      PROVE  \A c \in Corrections : Is(c) = Was(c)
  <2>1. UNCHANGED status
    BY <1>8 DEF LogAttempt, LogSkipped
  <2>2. /\ Applications(events') = Applications(events)
        /\ Reverts(events') = Reverts(events)
    <3>1. CASE LogAttempt(p)
      BY <3>1 DEF LogAttempt, Log, Applications, Reverts
    <3>2. CASE LogSkipped(p)
      BY <3>2 DEF LogSkipped, Log, Applications, Reverts
    <3> QED
      BY <1>8, <3>1, <3>2
  <2> QED
    BY <2>1, <2>2, <1>2
<1>9. ASSUME NEW p \in Procs,
             Stop(p) \/ ApplyBegin(p) \/ SkipBegin(p) \/ SkipAllBegin(p)
      PROVE  \A c \in Corrections : Is(c) = Was(c)
  BY <1>1, <1>9 DEF Stop, ApplyBegin, SkipBegin, SkipAllBegin
<1> DEFINE Steps ==
       \/ \E c \in Corrections :
            /\ \A d \in Corrections \ {c} : Is(d) = Was(d)
            /\ \/ Was(c) = "open" /\ Is(c) = "reconciled"
               \/ Is(c) = "active"
               \/ Was(c) = "active" /\ Is(c) = "reverted"
       \/ \A c \in Corrections :
            \/ Is(c) = Was(c)
            \/ Was(c) = "reconciled" /\ Is(c) = "open"
<1> HIDE DEF Was, Is
<1>10. Steps
  <2>1. CASE UNCHANGED vars
    BY <2>1, <1>3
  <2>2. CASE Revoke
    BY <2>2, <1>4
  <2>3. ASSUME NEW p \in Procs, ProcStep(p) PROVE Steps
    BY <2>3, <1>5, <1>6, <1>7, <1>8, <1>9 DEF ProcStep
  <2> QED
    BY <2>1, <2>2, <2>3 DEF Next
<1> QED
  BY <1>10 DEF Was, Is

(* Under every interleaving each correction goes through the lifecycle: it  *)
(* becomes active by a confirmation, leaves that state only by a revoke,    *)
(* and comes back only by another confirmation.                             *)
THEOREM Refinement == Spec => ImplementsLifecycle
<1> DEFINE V == [c \in Corrections |-> View(events, c, status[c])]
<1>1. ASSUME Init PROVE Lifecycle!LifecycleInit
  <2>1. IInv /\ events = {} /\ \A c \in Corrections : status[c] = "pending"
    BY <1>1, InitIInv DEF Init
  <2>2. \A c : ~HasActive(events, c) /\ ~WasReverted(events, c)
    BY <2>1, NeverApplied DEF Applications
  <2>3. \A c \in Corrections : View(events, c, status[c]) = "open"
    BY <2>1, <2>2, ViewIsShown DEF Shown
  <2> QED
    BY <2>3 DEF Lifecycle!LifecycleInit
<1>2. IInv' => (\A c \in Corrections : View(events, c, status[c]) = Shown(events, c, status[c]))'
  BY ViewIsShown, PTL
<1>3. ASSUME IInv, IInv', [Next]_vars PROVE [Lifecycle!LifecycleNext]_V
  <2> DEFINE W == V'
  <2>1. \A c \in Corrections : V[c] = Shown(events, c, status[c])
    BY <1>3, ViewIsShown
  <2>2. \A c \in Corrections : W[c] = Shown(events, c, status[c])'
    BY <1>3, <1>2
  <2>3. \A c \in Corrections : V[c] \in {"active", "reverted", "reconciled", "open"}
    BY <2>1 DEF Shown
  <2>4. /\ V = [c \in Corrections |-> V[c]]
        /\ W = [c \in Corrections |-> W[c]]
    OBVIOUS
  <2> HIDE DEF V, W
  <2>5. CASE \E c \in Corrections :
               /\ \A d \in Corrections \ {c} : W[d] = V[d]
               /\ \/ V[c] = "open" /\ W[c] = "reconciled"
                  \/ W[c] = "active"
                  \/ V[c] = "active" /\ W[c] = "reverted"
    <3>1. PICK c \in Corrections : /\ \A d \in Corrections \ {c} : W[d] = V[d]
                                   /\ \/ V[c] = "open" /\ W[c] = "reconciled"
                                      \/ W[c] = "active"
                                      \/ V[c] = "active" /\ W[c] = "reverted"
      BY <2>5
    <3>2. W = [V EXCEPT ![c] = W[c]]
      BY <3>1, <2>4
    <3>3. W = V \/ (/\ \/ V[c] = "open" /\ W[c] = "reconciled"
                       \/ V[c] \in {"open", "reconciled", "reverted"} /\ W[c] = "active"
                       \/ V[c] = "active" /\ W[c] = "reverted")
      <4>1. CASE W[c] = "active" /\ V[c] = "active"
        BY <4>1, <3>1, <2>4
      <4> QED
        BY <4>1, <3>1, <2>3
    <3> QED
      BY <3>2, <3>3 DEF V, W, Lifecycle!LifecycleNext, Lifecycle!Mark,
         Lifecycle!Confirm, Lifecycle!Withdraw
  <2>6. CASE \A c \in Corrections : W[c] = V[c] \/ (V[c] = "reconciled" /\ W[c] = "open")
    <3> DEFINE S == {c \in Corrections : W[c] # V[c]}
    <3>1. \A c \in S : V[c] = "reconciled"
      BY <2>6
    <3>2. W = [c \in Corrections |-> IF c \in S THEN "open" ELSE V[c]]
      BY <2>4, <2>6
    <3>3. S \in SUBSET Corrections
      OBVIOUS
    <3> HIDE DEF S
    <3> QED
      BY <3>1, <3>2, <3>3 DEF V, W, Lifecycle!LifecycleNext, Lifecycle!Unmark
  <2> QED
    BY <1>3, <2>1, <2>2, <2>5, <2>6, StepShows
<1> QED
  BY <1>1, <1>3, Invariance, PTL DEF Spec, ImplementsLifecycle, Lifecycle!LifecycleSpec

(* A revoke takes back its correction, and no other: no older application   *)
(* of it becomes active.                                                    *)
THEOREM RevokesWithdraw == Spec => RevokeWithdraws
<1> DEFINE Withdrawn(v, a) ==
        /\ HasActive(events, a.target)
        /\ ~HasActive(events', a.target)
        /\ \A c \in Corrections \ {a.target} :
              HasActive(events', c) <=> HasActive(events, c)
<1>1. ASSUME IInv, IInv', [Next]_vars,
             NEW v \in Reverts(events') \ Reverts(events),
             NEW a \in Applications(events), v.ref = a.id
      PROVE  Withdrawn(v, a)
  <2>0. Sound(events) /\ Sound(events') /\ UniqueEventIds(events) /\ Typed(events')
    BY <1>1, TypedEvents DEF IInv, EventsOK, TypeOK
  <2>1. CASE Revoke
    <3>1. PICK b \in Applications(events), id \in Ids, at \in Times :
              /\ Revocable(events, b, at)
              /\ Log([type |-> "reverted", id |-> id, ref |-> b.id, at |-> at])
      BY <2>1 DEF Revoke
    <3> DEFINE e == [type |-> "reverted", id |-> id, ref |-> b.id, at |-> at]
    <3>2. events' = events \cup {e} /\ IsActive(events, b)
      BY <3>1 DEF Log, Revocable
    <3>3. e.type = "reverted" /\ e.ref = b.id /\ Usable(e, b)
      BY <3>1 DEF Revocable, Usable
    <3> HIDE DEF e
    <3>4. v = e
      BY <3>2, <1>1 DEF Reverts
    <3>5. a = b
      BY <3>3, <3>4, <1>1, <2>0 DEF UniqueEventIds, Applications
    <3> QED
      BY <3>2, <3>3, <3>5, <2>0, RevertAdded
  <2>2. ASSUME NEW p \in Procs, ProcStep(p) PROVE FALSE
    <3>a. v \in events' /\ v \notin events /\ v.type = "reverted"
      BY <1>1 DEF Reverts
    <3>1. CASE LogAttempt(p) \/ LogConfirm(p) \/ LogSkipped(p)
      <4>1. ASSUME LogAttempt(p) PROVE FALSE
        <5>1. PICK c \in picked[p], id \in Ids :
                 events' = events \cup {[type |-> "attempted", id |-> id, target |-> c]}
          BY <4>1 DEF LogAttempt, Log
        <5>2. v = [type |-> "attempted", id |-> id, target |-> c]
          BY <5>1, <3>a
        <5> QED
          BY <5>2, <3>a
      <4>2. ~LogConfirm(p)
        BY <3>a DEF LogConfirm, Log
      <4>3. ~LogSkipped(p)
        BY <3>a DEF LogSkipped, Log
      <4> QED
        BY <3>1, <4>1, <4>2, <4>3
    <3>2. CASE UNCHANGED events
      BY <3>2, <1>1
    <3> QED
      BY <2>2, <3>1, <3>2 DEF ProcStep, Stop, ApplyBegin, SetApplied, SkipBegin,
         SkipAllBegin, SetSkipped
  <2>3. CASE UNCHANGED vars
    BY <2>3, <1>1 DEF vars
  <2> QED
    BY <1>1, <2>1, <2>2, <2>3 DEF Next
<1>2. IInv /\ IInv' /\ [Next]_vars =>
        [\A v \in Reverts(events') \ Reverts(events), a \in Applications(events) :
           v.ref = a.id => Withdrawn(v, a)]_vars
  BY <1>1
<1> QED
  BY <1>2, Invariance, PTL DEF Spec, RevokeWithdraws

-----------------------------------------------------------------------------
(* The fold and the loop it stands for. *)

LEMMA SmallestOf ==
    ASSUME NEW T, T \subseteq Nat, T # {}
    PROVE  \E m \in T : \A k \in T : ~(k < m)
<1>1. \E m \in T : \A k \in T : ~(<<k, m>> \in OpToRel(<, Nat))
  BY NatLessThanWellFounded, WFMin
<1> QED
  BY <1>1 DEF OpToRel

(* Events that have a place in time. *)
Stamped(S) ==
    /\ \A e \in S : e.id \in Int /\ e.at \in Int
    /\ UniqueEventIds(S)

LEMMA LaterIsAnOrder ==
    ASSUME NEW S, Stamped(S)
    PROVE  /\ \A e \in S : ~Later(e, e)
           /\ \A e, f \in S : e = f \/ Later(e, f) \/ Later(f, e)
           /\ \A e, f \in S : Later(e, f) => ~Later(f, e)
           /\ \A e, f, g \in S : Later(e, f) /\ Later(f, g) => Later(e, g)
BY DEF Stamped, UniqueEventIds, Later

(* sorted() puts every event in its place, none twice. *)
LEMMA SortedSorts ==
    ASSUME NEW S, IsFiniteSet(S), Stamped(S)
    PROVE  /\ Len(Sorted(S)) \in Nat
           /\ \A i \in 1 .. Len(Sorted(S)) : Sorted(S)[i] \in S
           /\ \A i, j \in 1 .. Len(Sorted(S)) : i < j => Later(Sorted(S)[j], Sorted(S)[i])
           /\ \A e \in S : \E i \in 1 .. Len(Sorted(S)) : Sorted(S)[i] = e
<1> DEFINE n == Cardinality(S)
           Below(e) == {f \in S : Later(e, f)}
           place == [e \in S |-> Cardinality(Below(e)) + 1]
           ts == Sorted(S)
<1>1. n \in Nat
  BY FS_CardinalityType
<1>2. \A e \in S : IsFiniteSet(Below(e)) /\ Cardinality(Below(e)) \in Nat
  <2>1. \A e \in S : Below(e) \in SUBSET S
    OBVIOUS
  <2> QED
    BY <2>1, FS_Subset, FS_CardinalityType
<1>3. \A e \in S : Cardinality(Below(e)) < n
  <2> SUFFICES ASSUME NEW e \in S PROVE Cardinality(Below(e)) < n
    OBVIOUS
  <2>1. Below(e) \in SUBSET S /\ e \notin Below(e)
    BY LaterIsAnOrder
  <2>2. Below(e) # S
    BY <2>1
  <2> HIDE DEF Below
  <2>3. Cardinality(Below(e)) <= n /\ Cardinality(Below(e)) # n
    BY <2>1, <2>2, FS_Subset
  <2> QED
    BY <2>3, <1>1, <1>2
<1>4. \A e, f \in S : Later(e, f) => Cardinality(Below(f)) < Cardinality(Below(e))
  <2> SUFFICES ASSUME NEW e \in S, NEW f \in S, Later(e, f)
               PROVE  Cardinality(Below(f)) < Cardinality(Below(e))
    OBVIOUS
  <2>1. Below(f) \in SUBSET Below(e) /\ f \in Below(e) /\ f \notin Below(f)
    BY LaterIsAnOrder
  <2>2. Below(f) # Below(e)
    BY <2>1
  <2> HIDE DEF Below
  <2>3. /\ Cardinality(Below(f)) <= Cardinality(Below(e))
        /\ Cardinality(Below(f)) # Cardinality(Below(e))
    BY <2>1, <2>2, <1>2, FS_Subset
  <2> QED
    BY <2>3, <1>2
<1> HIDE DEF Below
<1>5. \A e, f \in S : Cardinality(Below(e)) = Cardinality(Below(f)) => e = f
  BY <1>2, <1>4, LaterIsAnOrder
<1>6. \A i \in 1 .. n : \E e \in S : Cardinality(Below(e)) = i - 1
  <2>1. place \in [S -> 1 .. n]
    BY <1>1, <1>2, <1>3
  <2>2. \A e, f \in S : place[e] = place[f] => e = f
    BY <1>2, <1>5
  <2>3. place \in Injection(S, 1 .. n)
    BY <2>1, <2>2 DEF Injection, IsInjective
  <2>4. IsFiniteSet(1 .. n) /\ Cardinality(1 .. n) = n
    BY <1>1, FS_Interval
  <2>5. place \in Surjection(S, 1 .. n)
    BY <2>3, <2>4, FS_Injection
  <2>6. \A i \in 1 .. n : \E e \in S : place[e] = i
    BY <2>5 DEF Surjection
  <2> QED
    BY <2>6, <1>1, <1>2
<1>7. ts = [i \in 1 .. n |-> CHOOSE e \in S : Cardinality(Below(e)) = i - 1]
  BY DEF Sorted, Below
<1>8. \A i \in 1 .. n : ts[i] \in S /\ Cardinality(Below(ts[i])) = i - 1
  BY <1>6, <1>7
<1>9. Len(ts) = n
  BY <1>1, <1>7
<1>10. \A i, j \in 1 .. n : i < j => Later(ts[j], ts[i])
  <2> SUFFICES ASSUME NEW i \in 1 .. n, NEW j \in 1 .. n, i < j
               PROVE  Later(ts[j], ts[i])
    OBVIOUS
  <2> HIDE DEF ts
  <2>1. ts[i] \in S /\ ts[j] \in S
    BY <1>8
  <2>2. Cardinality(Below(ts[i])) < Cardinality(Below(ts[j]))
    BY <1>8, <1>1
  <2>3. ts[i] # ts[j] /\ ~Later(ts[i], ts[j])
    BY <2>1, <2>2, <1>2, <1>4
  <2> QED
    BY <2>1, <2>3, LaterIsAnOrder
<1>11. \A e \in S : \E i \in 1 .. n : ts[i] = e
  <2> SUFFICES ASSUME NEW e \in S PROVE \E i \in 1 .. n : ts[i] = e
    OBVIOUS
  <2> DEFINE i == Cardinality(Below(e)) + 1
  <2>1. i \in 1 .. n /\ i - 1 = Cardinality(Below(e))
    BY <1>1, <1>2, <1>3
  <2> HIDE DEF ts, i
  <2>2. ts[i] \in S /\ Cardinality(Below(ts[i])) = Cardinality(Below(e))
    BY <2>1, <1>8
  <2> QED
    BY <2>1, <2>2, <1>5
<1> HIDE DEF ts
<1>12. /\ Len(ts) \in Nat
       /\ \A i \in 1 .. Len(ts) : ts[i] \in S
       /\ \A i, j \in 1 .. Len(ts) : i < j => Later(ts[j], ts[i])
       /\ \A e \in S : \E i \in 1 .. Len(ts) : ts[i] = e
  BY <1>1, <1>8, <1>9, <1>10, <1>11
<1> QED
  BY <1>12 DEF ts

-----------------------------------------------------------------------------
(* The loop. *)
AtFirst == [current |-> None, undone |-> FALSE]

IsLoop(f, ts, n) ==
    f = [i \in 0 .. n |-> IF i = 0 THEN AtFirst ELSE Move(f[i - 1], ts[i])]

LEMMA LoopExists ==
    ASSUME NEW ts, NEW k \in Nat
    PROVE  \E f : IsLoop(f, ts, k)
<1> DEFINE Bad == {n \in Nat : ~\E f : IsLoop(f, ts, n)}
<1>1. Bad = {}
  <2> SUFFICES ASSUME Bad # {} PROVE FALSE
    OBVIOUS
  <2>1. PICK n \in Bad : \A m \in Bad : ~(m < n)
    <3>1. Bad \subseteq Nat
      OBVIOUS
    <3> HIDE DEF Bad
    <3> QED
      BY <3>1, SmallestOf
  <2>2. n \in Nat /\ ~\E f : IsLoop(f, ts, n)
    OBVIOUS
  <2>3. CASE n = 0
    <3> DEFINE f == [i \in 0 .. 0 |-> AtFirst]
    <3>1. f = [i \in 0 .. 0 |-> IF i = 0 THEN AtFirst ELSE Move(f[i - 1], ts[i])]
      OBVIOUS
    <3>2. IsLoop(f, ts, 0)
      BY <3>1, Zenon DEF IsLoop
    <3> QED
      BY <2>2, <2>3, <3>2, Zenon
  <2>4. CASE n # 0
    <3>1. n - 1 \in Nat /\ n - 1 < n
      BY <2>2, <2>4
    <3>2. n - 1 \notin Bad
      BY <2>1, <3>1
    <3>3. PICK f : IsLoop(f, ts, n - 1)
      BY <3>1, <3>2
    <3> DEFINE g == [i \in 0 .. n |-> IF i = 0 THEN AtFirst ELSE Move(f[i - 1], ts[i])]
    <3>4. ASSUME NEW i \in 0 .. n, i # 0 PROVE f[i - 1] = g[i - 1]
      <4>1. i - 1 \in 0 .. n - 1 /\ i - 1 \in 0 .. n
        BY <3>4, <2>2
      <4>2. f[i - 1] = IF i - 1 = 0 THEN AtFirst ELSE Move(f[i - 1 - 1], ts[i - 1])
        BY <3>3, <4>1 DEF IsLoop
      <4> QED
        BY <4>1, <4>2
    <3>5. g = [i \in 0 .. n |-> IF i = 0 THEN AtFirst ELSE Move(g[i - 1], ts[i])]
      BY <3>4
    <3>6. IsLoop(g, ts, n)
      BY <3>5, Zenon DEF IsLoop
    <3> QED
      BY <2>2, <3>6, Zenon
  <2> QED
    BY <2>3, <2>4
<1> QED
  BY <1>1

LEMMA LoopRuns ==
    ASSUME NEW ts, Len(ts) \in Nat
    PROVE  /\ Loop(ts)[0] = AtFirst
           /\ \A i \in 1 .. Len(ts) : Loop(ts)[i] = Move(Loop(ts)[i - 1], ts[i])
<1> DEFINE f == CHOOSE g : IsLoop(g, ts, Len(ts))
<1>1. Loop(ts) = f
  BY DEF Loop, IsLoop, AtFirst
<1>2. IsLoop(f, ts, Len(ts))
  BY LoopExists
<1> HIDE DEF f
<1>3. \A i \in 0 .. Len(ts) : f[i] = IF i = 0 THEN AtFirst ELSE Move(f[i - 1], ts[i])
  BY <1>2 DEF IsLoop
<1> QED
  BY <1>1, <1>3

-----------------------------------------------------------------------------
(* What the loop knows.  A are applications, V reverts that name one of     *)
(* them and are stamped after it, and P are the ones read so far.           *)
Timeline(A, V) ==
    /\ \A a \in A : a.type = "applied" /\ a.id # 0
    /\ \A v \in V : v.type = "reverted" /\ \E a \in A : v.ref = a.id /\ Usable(v, a)
    /\ Stamped(A \cup V)

LastOf(A, P, a) == a \in A \cap P /\ \A b \in A \cap P : b # a => Later(a, b)

Undone(V, P, a) == \E v \in V \cap P : v.ref = a.id

(* A revert that came while its application was the current one. *)
Undoing(A, V, P) ==
    \E a \in A \cap P, v \in V \cap P :
        /\ v.ref = a.id
        /\ \A b \in A \cap P : ~(Later(b, a) /\ Later(v, b))

Knows(s, A, V, P) ==
    /\ s \in [current : A \cup {None}, undone : BOOLEAN]
    /\ s.current # None => LastOf(A, P, s.current) /\ ~Undone(V, P, s.current)
    /\ s.current = None => \A a \in A : LastOf(A, P, a) => Undone(V, P, a)
    /\ s.undone <=> Undoing(A, V, P)

LEMMA MoveKnows ==
    ASSUME NEW A, NEW V, Timeline(A, V), NEW P, P \subseteq A \cup V,
           NEW s, Knows(s, A, V, P), NEW e \in A \cup V, e \notin P,
           \A f \in P : Later(e, f),
           \A f \in A \cup V : Later(e, f) => f \in P
    PROVE  Knows(Move(s, e), A, V, P \cup {e})
<1> DEFINE Q == P \cup {e}
<1>1. /\ \A f, g \in A \cup V : f = g \/ Later(f, g) \/ Later(g, f)
      /\ \A f, g \in A \cup V : Later(f, g) => ~Later(g, f)
      /\ \A f, g, h \in A \cup V : Later(f, g) /\ Later(g, h) => Later(f, h)
      /\ \A f \in A \cup V : ~Later(f, f)
  <2>1. Stamped(A \cup V)
    BY DEF Timeline
  <2> QED
    BY <2>1, LaterIsAnOrder
<1>2. \A v \in V, a \in A : v.ref = a.id => Later(v, a) /\ v # a
  <2> SUFFICES ASSUME NEW v \in V, NEW a \in A, v.ref = a.id
               PROVE  Later(v, a) /\ v # a
    OBVIOUS
  <2>1. PICK b \in A : v.ref = b.id /\ Usable(v, b)
    BY DEF Timeline
  <2>2. b = a
    BY <2>1 DEF Timeline, Stamped, UniqueEventIds
  <2>3. Later(v, a)
    BY <2>1, <2>2 DEF Usable, Later
  <2> QED
    BY <2>3, <1>1
<1>3. \A a, b \in A : a.id = b.id => a = b
  BY DEF Timeline, Stamped, UniqueEventIds
<1>4. A \cap V = {}
  BY DEF Timeline
<1>5. /\ s \in [current : A \cup {None}, undone : BOOLEAN]
      /\ s.current # None => LastOf(A, P, s.current) /\ ~Undone(V, P, s.current)
      /\ s.current = None => \A a \in A : LastOf(A, P, a) => Undone(V, P, a)
      /\ s.undone <=> Undoing(A, V, P)
  BY DEF Knows
<1>6. CASE e \in A
  <2>1. e.type = "applied" /\ e \notin V
    BY <1>6, <1>4 DEF Timeline
  <2>2. Move(s, e) = [current |-> e, undone |-> s.undone]
    BY <2>1, <1>5 DEF Move
  <2>3. V \cap Q = V \cap P /\ A \cap Q = (A \cap P) \cup {e}
    BY <2>1, <1>6
  <2>4. \A v \in V \cap P : v.ref # e.id
    BY <1>1, <1>2, <1>6
  <2>5. LastOf(A, Q, e) /\ ~Undone(V, Q, e)
    BY <2>3, <2>4 DEF LastOf, Undone
  <2>6. Undoing(A, V, Q) <=> Undoing(A, V, P)
    <3>1. \A v \in V \cap P : ~Later(v, e)
      BY <1>1
    <3> QED
      BY <2>3, <2>4, <3>1 DEF Undoing
  <2>7. e # None
    BY <2>1 DEF None
  <2> QED
    BY <2>2, <2>5, <2>6, <2>7, <1>5, <1>6 DEF Knows
<1>7. CASE e \in V
  <2>1. e.type = "reverted" /\ e \notin A
    BY <1>7, <1>4 DEF Timeline
  <2>2. A \cap Q = A \cap P /\ V \cap Q = (V \cap P) \cup {e}
    BY <2>1, <1>7
  <2>3. \A a : LastOf(A, Q, a) <=> LastOf(A, P, a)
    BY <2>2 DEF LastOf
  <2>4. PICK r \in A \cap P : e.ref = r.id /\ \A a \in A : e.ref = a.id => a = r
    <3>1. PICK a \in A : e.ref = a.id
      BY <1>7 DEF Timeline
    <3>2. a \in P
      BY <3>1, <1>2, <1>7
    <3> QED
      BY <3>1, <3>2, <1>3
  <2>5. \A a \in A : Undone(V, Q, a) <=> Undone(V, P, a) \/ a = r
    BY <2>2, <2>4 DEF Undone
  <2>6. Undoing(A, V, Q) <=> Undoing(A, V, P) \/ LastOf(A, P, r)
    <3>1. (\A b \in A \cap P : ~(Later(b, r) /\ Later(e, b))) <=> LastOf(A, P, r)
      BY <1>1, <2>4 DEF LastOf
    <3> QED
      BY <2>2, <2>4, <3>1 DEF Undoing
  <2>7. CASE s.current # None /\ s.current.id = e.ref
    <3>1. Move(s, e) = [current |-> None, undone |-> TRUE]
      BY <2>1, <2>7 DEF Move
    <3>2. LastOf(A, P, s.current) /\ s.current = r
      BY <2>4, <2>7, <1>5
    <3>3. \A a \in A : LastOf(A, P, a) => a = r
      BY <3>2, <1>1 DEF LastOf
    <3> QED
      BY <3>1, <3>2, <3>3, <2>3, <2>5, <2>6 DEF Knows
  <2>8. CASE s.current # None /\ s.current.id # e.ref
    <3>1. Move(s, e) = s
      BY <2>1, <2>8 DEF Move
    <3>2. LastOf(A, P, s.current) /\ s.current # r /\ s.current \in A
      BY <2>4, <2>8, <1>5
    <3>3. ~LastOf(A, P, r)
      BY <3>2, <1>1, <2>4 DEF LastOf
    <3> QED
      BY <3>1, <3>2, <3>3, <2>3, <2>5, <2>6, <2>8, <1>5 DEF Knows
  <2>9. CASE s.current = None
    <3>1. s.current.id # e.ref
      BY <2>9, <2>4 DEF None, Timeline
    <3>2. Move(s, e) = s
      BY <2>1, <3>1 DEF Move
    <3>3. LastOf(A, P, r) => Undoing(A, V, P)
      <4> SUFFICES ASSUME LastOf(A, P, r) PROVE Undoing(A, V, P)
        OBVIOUS
      <4>1. PICK v \in V \cap P : v.ref = r.id
        BY <2>9, <1>5 DEF Undone
      <4>2. \A b \in A \cap P : ~Later(b, r)
        BY <1>1 DEF LastOf
      <4> QED
        BY <4>1, <4>2, <2>4 DEF Undoing
    <3> QED
      BY <3>2, <3>3, <2>3, <2>5, <2>6, <2>9, <1>5 DEF Knows
  <2> QED
    BY <2>7, <2>8, <2>9
<1> QED
  BY <1>6, <1>7

(* The whole replay knows all of the transitions. *)
LEMMA ReplayKnows ==
    ASSUME NEW A, NEW V, Timeline(A, V), IsFiniteSet(A \cup V)
    PROVE  Knows(Replay(Sorted(A \cup V)), A, V, A \cup V)
<1> DEFINE ts == Sorted(A \cup V)
           Read(i) == {ts[j] : j \in 1 .. i}
           Bad == {i \in 0 .. Len(ts) : ~Knows(Loop(ts)[i], A, V, Read(i))}
<1>1. /\ Len(ts) \in Nat
      /\ \A i \in 1 .. Len(ts) : ts[i] \in A \cup V
      /\ \A i, j \in 1 .. Len(ts) : i < j => Later(ts[j], ts[i])
      /\ \A e \in A \cup V : \E i \in 1 .. Len(ts) : ts[i] = e
  <2>1. Stamped(A \cup V)
    BY DEF Timeline
  <2> QED
    BY <2>1, SortedSorts
<1>2. /\ Loop(ts)[0] = AtFirst
      /\ \A i \in 1 .. Len(ts) : Loop(ts)[i] = Move(Loop(ts)[i - 1], ts[i])
  BY <1>1, LoopRuns
<1> HIDE DEF ts
<1>3. Bad = {}
  <2> SUFFICES ASSUME Bad # {} PROVE FALSE
    OBVIOUS
  <2>1. PICK n \in Bad : \A m \in Bad : ~(m < n)
    <3>1. Bad \subseteq Nat
      BY <1>1
    <3> HIDE DEF Bad
    <3> QED
      BY <3>1, SmallestOf
  <2>2. n \in 0 .. Len(ts) /\ ~Knows(Loop(ts)[n], A, V, Read(n))
    OBVIOUS
  <2>3. CASE n = 0
    <3>1. Read(0) = {}
      OBVIOUS
    <3> HIDE DEF Read
    <3>2. Knows(AtFirst, A, V, {})
      BY DEF AtFirst, Knows, LastOf, Undoing
    <3> QED
      BY <2>2, <2>3, <3>1, <3>2, <1>2
  <2>4. CASE n # 0
    <3>1. n \in 1 .. Len(ts) /\ n - 1 \in 0 .. Len(ts) /\ n - 1 < n
      BY <2>2, <2>4, <1>1
    <3>2. Knows(Loop(ts)[n - 1], A, V, Read(n - 1))
      BY <2>1, <3>1
    <3>3. Read(n) = Read(n - 1) \cup {ts[n]}
      <4>1. 1 .. n = (1 .. n - 1) \cup {n}
        BY <3>1
      <4> QED
        BY <4>1
    <3>4. Read(n - 1) \subseteq A \cup V /\ ts[n] \in A \cup V
      BY <3>1, <1>1
    <3>5. \A f \in Read(n - 1) : Later(ts[n], f)
      BY <3>1, <1>1
    <3>6. \A f, g \in A \cup V : Later(f, g) => ~Later(g, f) /\ f # g
      BY LaterIsAnOrder DEF Timeline
    <3>7. ts[n] \notin Read(n - 1)
      BY <3>4, <3>5, <3>6
    <3>8. ASSUME NEW f \in A \cup V, Later(ts[n], f) PROVE f \in Read(n - 1)
      <4>1. PICK i \in 1 .. Len(ts) : ts[i] = f
        BY <1>1
      <4>2. ~(n < i) /\ n # i
        BY <4>1, <3>1, <3>4, <3>6, <3>8, <1>1
      <4>3. i \in 1 .. n - 1
        BY <4>2, <3>1, <1>1
      <4> QED
        BY <4>1, <4>3
    <3> HIDE DEF Read
    <3>9. Knows(Move(Loop(ts)[n - 1], ts[n]), A, V, Read(n - 1) \cup {ts[n]})
      BY <3>2, <3>4, <3>5, <3>7, <3>8, MoveKnows
    <3> QED
      BY <3>9, <3>3, <3>1, <2>2, <1>2
  <2> QED
    BY <2>3, <2>4
<1>4. Knows(Loop(ts)[Len(ts)], A, V, Read(Len(ts)))
  <2>1. Len(ts) \in 0 .. Len(ts)
    BY <1>1
  <2>2. Len(ts) \notin Bad
    BY <1>3
  <2> HIDE DEF Read
  <2> QED
    BY <2>1, <2>2
<1>5. Read(Len(ts)) = A \cup V
  BY <1>1
<1>6. Knows(Replay(ts), A, V, A \cup V)
  BY <1>4, <1>5 DEF Replay
<1> QED
  BY <1>6 DEF ts

(* Events a fold can read: their ids differ, and those of applications and  *)
(* the stamps are there.                                                    *)
Readable(ev) ==
    /\ IsFiniteSet(ev)
    /\ UniqueEventIds(ev)
    /\ Typed(ev)
    /\ \A a \in Applications(ev) : a.id # 0

LEMMA ReadAlike ==
    ASSUME NEW ev, Readable(ev), NEW c, NEW st
    PROVE  Agree(ev, c, st)
<1> DEFINE A == ConfirmedOf(ev, c)
           V == UsableReverts(ev, c)
           P == A \cup V
           r == Replay(Transitions(ev, c))
<1>1. /\ A \subseteq Applications(ev) /\ V \subseteq Reverts(ev)
      /\ Applications(ev) \subseteq ev /\ Reverts(ev) \subseteq ev
  BY DEF ConfirmedOf, Confirmed, UsableReverts, Applications, Reverts
<1>2. \A e, f \in ev : e.id = f.id => e = f
  BY DEF Readable, UniqueEventIds
<1>3. Timeline(A, V)
  <2>1. \A e \in A \cup V : e.id \in Int /\ e.at \in Int
    BY <1>1 DEF Readable, Typed
  <2>2. Stamped(A \cup V)
    BY <1>1, <1>2, <2>1 DEF Stamped, UniqueEventIds
  <2>3. \A a \in A : a.type = "applied" /\ a.id # 0
    BY <1>1 DEF Readable, Applications
  <2>4. \A v \in V : v.type = "reverted" /\ \E a \in A : v.ref = a.id /\ Usable(v, a)
    BY DEF UsableReverts, Reverts, Usable
  <2> QED
    BY <2>2, <2>3, <2>4 DEF Timeline
<1>4. Knows(r, A, V, P)
  <2>1. P \in SUBSET ev
    BY <1>1
  <2>2. IsFiniteSet(P)
    BY <2>1, FS_Subset DEF Readable
  <2> HIDE DEF A, V
  <2>3. Knows(Replay(Sorted(A \cup V)), A, V, A \cup V)
    BY <1>3, <2>2, ReplayKnows
  <2> QED
    BY <2>3 DEF Transitions, A, V
<1>5. \A a \in A : Undone(V, P, a) <=> \E v \in RevertsOf(ev, a) : Usable(v, a)
  <2> SUFFICES ASSUME NEW a \in A
               PROVE  Undone(V, P, a) <=> \E v \in RevertsOf(ev, a) : Usable(v, a)
    OBVIOUS
  <2>1. ASSUME NEW v \in V, v.ref = a.id
        PROVE  v \in RevertsOf(ev, a) /\ Usable(v, a)
    <3>1. PICK b \in A : v.ref = b.id /\ Usable(v, b)
      BY <1>3 DEF Timeline
    <3>2. b = a
      BY <3>1, <2>1, <1>1, <1>2
    <3> QED
      BY <3>1, <3>2, <2>1, <1>1 DEF RevertsOf
  <2>2. ASSUME NEW v \in RevertsOf(ev, a), Usable(v, a)
        PROVE  v \in V /\ v.ref = a.id
    BY <2>2 DEF RevertsOf, UsableReverts, Usable
  <2> HIDE DEF A, V
  <2> QED
    BY <2>1, <2>2 DEF Undone
<1>6. HasActive(ev, c) <=> r.current # None
  <2>1. \A a \in A : IsActive(ev, a) <=> LastOf(A, P, a) /\ ~Undone(V, P, a)
    <3>1. \A a \in A : a \in Confirmed(ev) /\ a.target = c
      BY DEF ConfirmedOf
    <3> QED
      BY <3>1, <1>5 DEF IsActive, LastOf
  <2>2. HasActive(ev, c) <=> \E a \in A : LastOf(A, P, a) /\ ~Undone(V, P, a)
    BY <2>1 DEF HasActive
  <2> HIDE DEF A, V, P, r
  <2>3. r.current # None => r.current \in A
    BY <1>4 DEF Knows
  <2> QED
    BY <2>2, <2>3, <1>4 DEF Knows
<1>7. WasReverted(ev, c) <=> r.undone
  <2>1. WasReverted(ev, c) <=> Undoing(A, V, P)
    <3>1. ASSUME NEW a \in A, NEW v \in RevertsOf(ev, a), Usable(v, a)
          PROVE  v \in V /\ v.ref = a.id
      BY <3>1 DEF RevertsOf, UsableReverts, Usable
    <3>2. ASSUME NEW a \in A, NEW v \in V, v.ref = a.id
          PROVE  v \in RevertsOf(ev, a) /\ Usable(v, a)
      <4>1. PICK b \in A : v.ref = b.id /\ Usable(v, b)
        BY <1>3 DEF Timeline
      <4>2. b = a
        BY <4>1, <3>2, <1>1, <1>2
      <4> QED
        BY <4>1, <4>2, <3>2, <1>1 DEF RevertsOf
    <3>3. WasReverted(ev, c) <=>
            \E a \in A : \E v \in RevertsOf(ev, a) :
                Usable(v, a) /\ \A b \in A : ~(Later(b, a) /\ Later(v, b))
      BY DEF WasReverted
    <3> HIDE DEF A, V
    <3> QED
      BY <3>1, <3>2, <3>3 DEF Undoing
  <2> HIDE DEF A, V, P, r
  <2> QED
    BY <2>1, <1>4 DEF Knows
<1>8. Ambiguous(ev, c) <=> Unresolved(ev, c) # {}
  <2>1. \A e \in Reverts(ev) \cup A : e.at \in Int
    BY <1>1 DEF Readable, Typed
  <2>2. \A a, b \in A : b # a <=> b.id # a.id
    BY <1>1, <1>2
  <2>3. Ambiguous(ev, c) <=>
          \E v \in Reverts(ev), a \in A :
              /\ v.ref = a.id
              /\ ~Usable(v, a)
              /\ \A b \in A : b # a => b.at <= v.at
    BY DEF Ambiguous, RevertsOf
  <2>4. Unresolved(ev, c) # {} <=>
          \E v \in Reverts(ev), a \in A :
              /\ v.ref = a.id
              /\ v.at <= a.at
              /\ ~\E b \in A : b.id # v.ref /\ b.at > v.at
    BY DEF Unresolved
  <2> HIDE DEF A
  <2>5. ASSUME NEW v \in Reverts(ev), NEW a \in A, v.ref = a.id
        PROVE  /\ ~Usable(v, a) <=> v.at <= a.at
               /\ (\A b \in A : b # a => b.at <= v.at)
                    <=> ~\E b \in A : b.id # v.ref /\ b.at > v.at
    BY <2>1, <2>2, <2>5 DEF Usable
  <2> QED
    BY <2>3, <2>4, <2>5
<1>9. r.undone \in BOOLEAN
  BY <1>4 DEF Knows
<1> HIDE DEF A, V, P, r
<1>10. ReplayedView(ev, c, st) =
         CASE Unresolved(ev, c) # {} -> "ambiguous"
           [] Unresolved(ev, c) = {} /\ r.current # None -> "active"
           [] Unresolved(ev, c) = {} /\ r.current = None /\ r.undone -> "reverted"
           [] OTHER -> IF st = "applied" /\ (\E t \in Attempts(ev) : t.target = c)
                       THEN "reconciled" ELSE "open"
  BY DEF ReplayedView, r
<1> QED
  BY <1>6, <1>7, <1>8, <1>9, <1>10 DEF Agree, View, Reconciled

(* The closed form of the fold says of a correction what the loop of        *)
(* fold_corrections says, whatever the events: any number of attempts,      *)
(* confirmations and reverts, however late, foreign or stale.               *)
THEOREM EveryFoldIsReplay ==
    /\ FoldIsReplay
    /\ \A ev, c, s : Readable(ev) => Agree(ev, c, s)
<1>1. \A ev, c, s : Readable(ev) => Agree(ev, c, s)
  BY ReadAlike
<1>2. ASSUME NEW a \in NewAttempt(2), NEW e \in NewEvent(3), NEW f \in NewEvent(4),
             NEW g \in NewEvent(5), NEW h \in NewEvent(6)
      PROVE  Readable({[type |-> "attempted", id |-> 1, target |-> "c"], a, e, f, g, h})
  <2> DEFINE t == [type |-> "attempted", id |-> 1, target |-> "c"]
             ev == {t, a, e, f, g, h}
  <2>1. t.id = 1 /\ a.id = 2 /\ e.id = 3 /\ f.id = 4 /\ g.id = 5 /\ h.id = 6
    BY DEF NewAttempt, NewEvent
  <2>2. t.type = "attempted" /\ a.type = "attempted"
    BY DEF NewAttempt
  <2>3. e.at \in Int /\ f.at \in Int /\ g.at \in Int /\ h.at \in Int
    BY DEF NewEvent, EventTimes
  <2> HIDE DEF t
  <2>4. UniqueEventIds(ev)
    BY <2>1 DEF UniqueEventIds
  <2>5. Typed(ev) /\ \A x \in Applications(ev) : x.id # 0
    BY <2>1, <2>2, <2>3 DEF Typed, Applications, Reverts
  <2>6. IsFiniteSet(ev)
    <3>1. ev = ((((({} \cup {t}) \cup {a}) \cup {e}) \cup {f}) \cup {g}) \cup {h}
      OBVIOUS
    <3> HIDE DEF ev
    <3>2. IsFiniteSet({} \cup {t})
      BY FS_EmptySet, FS_AddElement
    <3>3. IsFiniteSet(({} \cup {t}) \cup {a})
      BY <3>2, FS_AddElement
    <3>4. IsFiniteSet((({} \cup {t}) \cup {a}) \cup {e})
      BY <3>3, FS_AddElement
    <3>5. IsFiniteSet(((({} \cup {t}) \cup {a}) \cup {e}) \cup {f})
      BY <3>4, FS_AddElement
    <3>6. IsFiniteSet((((({} \cup {t}) \cup {a}) \cup {e}) \cup {f}) \cup {g})
      BY <3>5, FS_AddElement
    <3> QED
      BY <3>1, <3>6, FS_AddElement
  <2>7. Readable(ev)
    BY <2>4, <2>5, <2>6 DEF Readable
  <2> QED
    BY <2>7 DEF t
<1>3. AllAgree
  BY <1>1, <1>2 DEF AllAgree
<1> QED
  BY <1>1, <1>3 DEF FoldIsReplay

(* So it is with what reflect writes: in every state, each correction shows *)
(* what replaying the events of that state shows.                           *)
THEOREM EveryStateIsReplayed ==
    Spec => [](\A c \in Corrections : Agree(events, c, status[c]))
<1>1. ASSUME IInv PROVE Readable(events)
  <2>1. Typed(events) /\ UniqueEventIds(events)
    BY <1>1, TypedEvents DEF IInv, EventsOK, TypeOK
  <2>2. \A e \in events : e.id \in Ids
    BY <1>1 DEF IInv, TypeOK, Attempted, Skipped, Applied, Reverted
  <2>3. [e \in events |-> e.id] \in Injection(events, Ids)
    BY <2>1, <2>2 DEF Injection, IsInjective, UniqueEventIds
  <2>4. IsFiniteSet(Ids)
    BY ReflectAssumption, FS_Interval DEF Ids
  <2>5. IsFiniteSet(events)
    BY <2>3, <2>4, FS_Injection
  <2>6. \A a \in Applications(events) : a.id # 0
    BY <2>2, ReflectAssumption DEF Applications, Ids
  <2> QED
    BY <2>1, <2>5, <2>6 DEF Readable
<1>2. IInv => \A c \in Corrections : Agree(events, c, status[c])
  BY <1>1, ReadAlike
<1> QED
  BY <1>2, Invariance, PTL
=============================================================================
