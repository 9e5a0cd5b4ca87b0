----------------------------- MODULE LeaseProofs ------------------------------
(***************************************************************************)
(* What TLAPS proves of module LeaseExecutor, for any keys, sessions,      *)
(* profiles and windows, any terms and sequences, and any number of calls  *)
(* that fail.                                                              *)
(*                                                                         *)
(* An operation of the executor is a chain of operators on one record.     *)
(* Each of them keeps the record Sound: what is down and not astray is     *)
(* known to the Guardian and to the executor; it is the latter that makes  *)
(* a commit safe, which replaces what the Guardian knows.  A gate is left  *)
(* open only on a record that is Gated.  What a whole operation does to    *)
(* the sequences is Declined or Accepted, from which the rest is proved    *)
(* once for all operations.                                                *)
(***************************************************************************)
EXTENDS LeaseExecutor, TLAPS

Executors ==
    [lease : Leases, guardian : Monitors, pressed : SUBSET Keys,
     forgotten : SUBSET Keys, faults : Nat]

\* What an operation may find or leave between two of its calls.
Sound(x) ==
    /\ x \in Executors
    /\ x.pressed \subseteq ReleaseHolds(x.guardian) \cup x.forgotten
    /\ x.pressed \subseteq x.lease.held \cup x.forgotten

\* What an operation leaves behind when the gate is open.
Gated(x) ==
    x.lease.open =>
        /\ x.lease.guarded \subseteq ReleaseHolds(x.guardian) \cup x.forgotten
        /\ x.lease.held \subseteq ReleaseHolds(x.guardian) \cup x.lease.guarded
        /\ x.lease.guardianSequence < MaxGuardian

(***************************************************************************)
(* The operators on the record                                             *)
(***************************************************************************)
\* The executor of a state that satisfies the invariant.
LEMMA HereSound ==
    ASSUME TypeOK, HoldsGuarded, HoldsKnown
    PROVE  Sound(Here)
  BY DEF TypeOK, HoldsGuarded, HoldsKnown, Sound, Executors, Here

\* Failing calls are counted.
LEMMA FaultySound ==
    ASSUME NEW x, Sound(x) PROVE Sound([x EXCEPT !.faults = @ + 1])
  BY DEF Sound, Executors

\* The monitor after an intent, a commit and a release.
LEMMA MonitorFacts ==
    ASSUME NEW m \in Monitors, NEW n \in Nat, NEW holds \in SUBSET Keys
    PROVE  /\ RegisterIntent(m, n, holds) \in Monitors
           /\ CommitHolds(m, n) \in Monitors
           /\ LetGo(m) \in Monitors
           /\ ReleaseHolds(LetGo(m)) = {}
           /\ ReleaseHolds(CommitHolds(m, n)) = m.pending.holds
           /\ CommitHolds(m, n).pending = NoIntent
           /\ ReleaseHolds(RegisterIntent(m, n, holds)) = m.committed \cup holds
           /\ RegisterIntent(m, n, holds).pending.holds = holds
           /\ ReleaseHolds(m) \in SUBSET Keys
  BY DEF Monitors, Intents, NoIntent, RegisterIntent, CommitHolds, LetGo, Released,
         ReleaseHolds, Reasons

\* A release that forgets its holds leaves down only what is astray.
LEMMA ReleaseSound ==
    ASSUME NEW x, Sound(x), NEW r
    PROVE  /\ Sound(ReleaseAll(x, r))
           /\ ReleaseAll(x, r).lease.expires = Unset /\ ~ReleaseAll(x, r).lease.open
           /\ ReleaseAll(x, r).lease.session = x.lease.session
           /\ ReleaseAll(x, r).lease.sequence = x.lease.sequence
           /\ ReleaseAll(x, r).lease.guardianSequence = x.lease.guardianSequence
<1> DEFINE y == ReleaseAll(x, r)
           quiet == [x.lease EXCEPT !.open = FALSE, !.expires = Unset]
<1>1. x.lease \in Leases /\ x.guardian \in Monitors
  BY DEF Sound, Executors
<1>2. /\ LetGo(x.guardian) \in Monitors
      /\ ReleaseHolds(LetGo(x.guardian)) = {}
  BY <1>1, MonitorFacts
<1>3. /\ quiet \in Leases /\ [quiet EXCEPT !.held = {}, !.guarded = {}] \in Leases
      /\ y.lease \in {quiet, [quiet EXCEPT !.held = {}, !.guarded = {}]}
  <2>1. Unset \in Unset .. MaxLease
    BY LeaseAssumption DEF Unset
  <2>2. quiet \in Leases
    BY <1>1, <2>1 DEF Leases
  <2>3. [quiet EXCEPT !.held = {}, !.guarded = {}] \in Leases
    BY <2>2 DEF Leases
  <2> QED
    BY <2>2, <2>3 DEF ReleaseAll
<1>4. /\ y.lease.expires = Unset /\ ~y.lease.open /\ y.lease.session = x.lease.session
      /\ y.lease.sequence = x.lease.sequence
      /\ y.lease.guardianSequence = x.lease.guardianSequence
  BY <1>1, <1>3 DEF Leases
<1>5. /\ y.pressed \subseteq x.pressed /\ y.forgotten = x.forgotten
      /\ y.guardian \in Monitors /\ y.faults \in Nat
  BY <1>1, <1>2 DEF ReleaseAll, Sound, Executors
<1>6. y.pressed \subseteq ReleaseHolds(y.guardian) \cup y.forgotten
  BY <1>2 DEF ReleaseAll, Sound
<1>8. y.pressed \subseteq y.lease.held \cup y.forgotten
  <2>1. CASE r = Clean
    <3>1. y.pressed \subseteq x.pressed \ ReleaseHolds(x.guardian)
      BY <2>1 DEF ReleaseAll, Clean
    <3> QED
      BY <1>5, <3>1 DEF Sound
  <2>2. CASE r # Clean
    <3>1. y.lease.held = x.lease.held
      BY <1>1, <2>2 DEF ReleaseAll, Leases
    <3> QED
      BY <1>5, <3>1 DEF Sound
  <2> QED
    BY <2>1, <2>2
<1>7. y \in Executors
  BY <1>3, <1>5 DEF ReleaseAll, Sound, Executors
<1> QED
  BY <1>4, <1>6, <1>7, <1>8 DEF Sound

\* The order and the terms of the leases are as they were.
SameTerms(x, y) ==
    /\ y.lease.session = x.lease.session /\ y.lease.sequence = x.lease.sequence
    /\ y.lease.guardianSequence = x.lease.guardianSequence
    /\ y.lease.expires = x.lease.expires

\* An intent is only registered when none is pending.
LEMMA IntendedSound ==
    ASSUME NEW x, Sound(x), IntentAccepted(x), NEW holds \in SUBSET Keys
    PROVE  /\ Sound(Intended(x, holds)) /\ SameTerms(x, Intended(x, holds))
           /\ Intended(x, holds).guardian.pending.holds = holds
           /\ Intended(x, holds).lease = x.lease
           /\ Intended(x, holds).pressed = x.pressed
           /\ Intended(x, holds).forgotten = x.forgotten
           /\ Intended(x, holds).faults = x.faults
<1> DEFINE n == NextGuardianSequence(x)
           m == RegisterIntent(x.guardian, n, holds)
<1>1. x \in Executors /\ x.guardian \in Monitors /\ n \in Nat
  BY DEF Sound, Executors, Leases, NextGuardianSequence
<1>2. m \in Monitors /\ m.pending.holds = holds
      /\ ReleaseHolds(m) = x.guardian.committed \cup holds
  BY <1>1, MonitorFacts
<1>3. ReleaseHolds(x.guardian) = x.guardian.committed
  BY DEF IntentAccepted, AcceptsIntent, NoIntent, ReleaseHolds
<1>4. Intended(x, holds) = [x EXCEPT !.guardian = m]
  BY DEF Intended
<1> HIDE DEF m, n
<1> QED
  BY <1>1, <1>2, <1>3, <1>4 DEF Sound, Executors, SameTerms

\* A commit is safe when whatever is down is among the holds of the intent or astray.
LEMMA CommittedSound ==
    ASSUME NEW x, Sound(x), x.pressed \subseteq x.guardian.pending.holds \cup x.forgotten
    PROVE  /\ Sound(Committed(x)) /\ SameTerms(x, Committed(x))
           /\ Committed(x).lease = x.lease /\ Committed(x).forgotten = x.forgotten
           /\ Committed(x).pressed = x.pressed
           /\ ReleaseHolds(Committed(x).guardian) = x.guardian.pending.holds
<1> DEFINE n == NextGuardianSequence(x)
           m == CommitHolds(x.guardian, n)
<1>1. x \in Executors /\ x.guardian \in Monitors /\ n \in Nat
  BY DEF Sound, Executors, Leases, NextGuardianSequence
<1>2. m \in Monitors /\ ReleaseHolds(m) = x.guardian.pending.holds
  BY <1>1, MonitorFacts
<1>3. Committed(x) = [x EXCEPT !.guardian = m]
  BY DEF Committed
<1> HIDE DEF m, n
<1> QED
  BY <1>1, <1>2, <1>3 DEF Sound, Executors, SameTerms

\* Keys move within what the Guardian has been told.
LEMMA MovedSound ==
    ASSUME NEW x, Sound(x), NEW holds \in SUBSET Keys,
           holds \subseteq x.guardian.pending.holds
    PROVE  /\ Sound(Moved(x, holds)) /\ SameTerms(x, Moved(x, holds))
           /\ Moved(x, holds).pressed \subseteq holds \cup Moved(x, holds).forgotten
           /\ Moved(x, holds).guardian = x.guardian
           /\ Moved(x, holds).lease.held = holds /\ Moved(x, holds).lease.guarded = {}
<1>1. x \in Executors /\ x.lease \in Leases /\ x.pressed \in SUBSET Keys
  BY DEF Sound, Executors
<1> DEFINE p == (x.pressed \ (x.lease.held \ holds)) \cup (holds \ x.lease.held)
           l == [x.lease EXCEPT !.held = holds, !.guarded = {}]
<1>2. Moved(x, holds) = [x EXCEPT !.pressed = p, !.lease = l]
  BY <1>1 DEF Moved, Executors
<1>3. l \in Leases /\ l.session = x.lease.session /\ l.sequence = x.lease.sequence
      /\ l.guardianSequence = x.lease.guardianSequence /\ l.expires = x.lease.expires
      /\ l.held = holds /\ l.guarded = {}
  BY <1>1 DEF Leases
<1>4. /\ p \in SUBSET Keys /\ p \subseteq ReleaseHolds(x.guardian) \cup x.forgotten
      /\ p \subseteq holds \cup x.forgotten
  BY <1>1 DEF Sound, ReleaseHolds
<1> HIDE DEF p, l
<1> QED
  BY <1>1, <1>2, <1>3, <1>4 DEF Sound, Executors, SameTerms

LEMMA SomeMovedSound ==
    ASSUME NEW x, Sound(x), NEW holds \in SUBSET Keys,
           holds \subseteq x.guardian.pending.holds,
           NEW up, NEW down \in SUBSET holds
    PROVE  Sound(SomeMoved(x, holds, up, down)) /\ SameTerms(x, SomeMoved(x, holds, up, down))
<1>1. x \in Executors /\ x.lease \in Leases /\ x.pressed \in SUBSET Keys
  BY DEF Sound, Executors
<1> DEFINE p == (x.pressed \ up) \cup down
           l == [x.lease EXCEPT !.held = @ \cup holds]
<1>2. SomeMoved(x, holds, up, down) = [x EXCEPT !.pressed = p, !.lease = l]
  BY <1>1 DEF SomeMoved, Executors
<1>3. l \in Leases /\ l.session = x.lease.session /\ l.sequence = x.lease.sequence
      /\ l.guardianSequence = x.lease.guardianSequence /\ l.expires = x.lease.expires
      /\ l.held = x.lease.held \cup holds
  BY <1>1 DEF Leases
<1>4. /\ p \in SUBSET Keys /\ p \subseteq ReleaseHolds(x.guardian) \cup x.forgotten
      /\ p \subseteq x.lease.held \cup holds \cup x.forgotten
  BY <1>1 DEF Sound, ReleaseHolds
<1> HIDE DEF p, l
<1> QED
  BY <1>1, <1>2, <1>3, <1>4 DEF Sound, Executors, SameTerms

\* Wherever a frame stops.
LEMMA StoppedSound ==
    ASSUME NEW x, Sound(x), IntentAccepted(x), NEW holds \in SUBSET Keys,
           NEW stop \in Stops, NEW m \in PartialMoves(x, holds)
    PROVE  /\ Sound(Stopped(x, holds, stop, m[1], m[2]))
           /\ SameTerms(x, Stopped(x, holds, stop, m[1], m[2]))
<1> DEFINE i == Intended(x, holds)
           k == SomeMoved(i, holds, m[1], m[2])
           v == Moved(i, holds)
           c == Committed(v)
<1>1. /\ Sound(i) /\ SameTerms(x, i) /\ i.guardian.pending.holds = holds
      /\ i.lease = x.lease
  BY IntendedSound
<1>2. m[2] \in SUBSET holds
  BY DEF PartialMoves
<1>3. Sound(k) /\ SameTerms(i, k)
  BY <1>1, <1>2, SomeMovedSound
<1>4. /\ Sound(v) /\ SameTerms(i, v)
      /\ v.pressed \subseteq v.guardian.pending.holds \cup v.forgotten
  BY <1>1, MovedSound
<1>5. Sound(c) /\ SameTerms(v, c)
  BY <1>4, CommittedSound
<1> HIDE DEF i, k, v, c
<1>6. \E y \in {x, i, k, v, c} :
         Stopped(x, holds, stop, m[1], m[2]) = [y EXCEPT !.faults = @ + 1]
  BY DEF Stopped, Stops, i, k, v, c
<1>7. \A y \in {x, i, k, v, c} : Sound(y) /\ SameTerms(x, y)
  BY <1>1, <1>3, <1>4, <1>5 DEF SameTerms
<1>8. \A y : Sound(y) => SameTerms(y, [y EXCEPT !.faults = @ + 1])
  BY DEF Sound, Executors, SameTerms
<1> QED
  BY <1>6, <1>7, <1>8, FaultySound DEF SameTerms

\* The holds of a release set, registered and committed by an executor that holds nothing.
LEMMA RegisterSound ==
    ASSUME NEW x, Sound(x), IntentAccepted(x), x.lease.held = {}, NEW holds \in SUBSET Keys
    PROVE  /\ \A y \in RegisterStops(x, holds) :
                Sound(y) /\ SameTerms(x, y) /\ y.lease = x.lease
           /\ Registered(x, holds) \in RegisterStops(x, holds)
           /\ ReleaseHolds(Registered(x, holds).guardian) = holds
<1> DEFINE i == Intended(x, holds)
<1>1. Sound(i) /\ SameTerms(x, i) /\ i.lease = x.lease /\ i.guardian.pending.holds = holds
  BY IntendedSound
<1>2. i.pressed \subseteq i.guardian.pending.holds \cup i.forgotten
  BY <1>1 DEF Sound
<1> HIDE DEF i
<1>3. /\ Sound(Committed(i)) /\ SameTerms(i, Committed(i)) /\ Committed(i).lease = i.lease
      /\ ReleaseHolds(Committed(i).guardian) = holds
  BY <1>1, <1>2, CommittedSound
<1>4. Registered(x, holds) = Committed(i) /\ RegisterStops(x, holds) = {x, i, Committed(i)}
  BY DEF Registered, RegisterStops, i
<1> QED
  BY <1>1, <1>3, <1>4 DEF SameTerms

\* What a click takes from the Guardian is astray before its commit.
LEMMA DisplacedSound ==
    ASSUME NEW x, Sound(x)
    PROVE  /\ Sound(Displaced(x)) /\ SameTerms(x, Displaced(x))
           /\ Displaced(x).lease = x.lease /\ Displaced(x).guardian = x.guardian
           /\ Displaced(x).pressed = x.pressed
           /\ Displaced(x).pressed \cup x.lease.guarded \subseteq Displaced(x).forgotten
<1> DEFINE f == x.forgotten \cup (x.pressed \cap x.lease.held) \cup x.lease.guarded
<1>1. x \in Executors /\ x.lease \in Leases
  BY DEF Sound, Executors
<1>2. Displaced(x) = [x EXCEPT !.forgotten = f]
  BY <1>1 DEF Displaced, Executors
<1>3. f \in SUBSET Keys /\ x.pressed \subseteq f /\ x.lease.guarded \subseteq f
  BY <1>1 DEF Sound, Executors, Leases
<1> HIDE DEF f
<1> QED
  BY <1>1, <1>2, <1>3 DEF Sound, Executors, SameTerms

\* The two commits of a click, whatever the executor holds.
LEMMA ClickRegisterSound ==
    ASSUME NEW x, Sound(x), IntentAccepted(x), NEW holds \in SUBSET Keys
    PROVE  /\ \A y \in ClickStops(x, holds) :
                Sound(y) /\ SameTerms(x, y) /\ y.lease = x.lease
           /\ ClickRegistered(x, holds) \in ClickStops(x, holds)
           /\ ReleaseHolds(ClickRegistered(x, holds).guardian) = holds
           /\ ClickRegistered(x, holds).pressed = x.pressed
           /\ x.pressed \cup x.lease.guarded \subseteq ClickRegistered(x, holds).forgotten
<1> DEFINE i == Intended(x, holds)
           d == Displaced(i)
<1>1. /\ Sound(i) /\ SameTerms(x, i) /\ i.lease = x.lease /\ i.pressed = x.pressed
      /\ i.guardian.pending.holds = holds
  BY IntendedSound
<1> HIDE DEF i
<1>2. /\ Sound(d) /\ SameTerms(i, d) /\ d.lease = i.lease /\ d.guardian = i.guardian
      /\ d.pressed = i.pressed /\ d.pressed \cup i.lease.guarded \subseteq d.forgotten
  BY <1>1, DisplacedSound
<1> HIDE DEF d
<1>3. /\ Sound(Committed(d)) /\ SameTerms(d, Committed(d)) /\ Committed(d).lease = d.lease
      /\ ReleaseHolds(Committed(d).guardian) = holds
      /\ Committed(d).pressed = d.pressed /\ Committed(d).forgotten = d.forgotten
  BY <1>1, <1>2, CommittedSound
<1>4. ClickRegistered(x, holds) = Committed(d) /\ ClickStops(x, holds) = {x, i, Committed(d)}
  BY DEF ClickRegistered, ClickStops, d, i
<1> QED
  BY <1>1, <1>2, <1>3, <1>4 DEF SameTerms

-------------------------------------------------------------------------------
(***************************************************************************)
(* What an operation leaves                                                *)
(***************************************************************************)
\* The part of the invariant that is about executor, Guardian and keys.
ExecutorInv ==
    /\ lease \in Leases /\ guardian \in Monitors
    /\ pressed \subseteq Keys /\ forgotten \subseteq Keys
    /\ faults \in 0 .. MaxFaults
    /\ HoldsGuarded /\ HoldsKnown /\ GateInv /\ RoomInv

\* What Becomes no longer counts as astray is up or held by executor and Guardian.
LEMMA AstraySound ==
    ASSUME NEW x, Sound(x), Gated(x)
    PROVE  /\ Astray(x) \subseteq Keys
           /\ x.pressed \subseteq ReleaseHolds(x.guardian) \cup Astray(x)
           /\ x.pressed \subseteq x.lease.held \cup Astray(x)
           /\ x.lease.open =>
                 x.lease.guarded \subseteq ReleaseHolds(x.guardian) \cup Astray(x)
  BY DEF Sound, Gated, Executors, Astray, Pressable

LEMMA BecomesSound ==
    ASSUME NEW x, Sound(x), Gated(x), Becomes(x)
    PROVE  ExecutorInv' /\ lease' = x.lease
<1>1. /\ lease' = x.lease /\ guardian' = x.guardian /\ pressed' = x.pressed
      /\ forgotten' = Astray(x) /\ faults' = x.faults /\ x.faults <= MaxFaults
  BY DEF Becomes
<1>2. /\ lease' \in Leases /\ guardian' \in Monitors /\ pressed' \subseteq Keys
      /\ forgotten' \subseteq Keys /\ faults' \in 0 .. MaxFaults
  BY <1>1, AstraySound, LeaseAssumption DEF Sound, Executors
<1>3. HoldsGuarded' /\ HoldsKnown' /\ GateInv'
  BY <1>1, AstraySound DEF HoldsGuarded, HoldsKnown, GateInv, Gated
<1>4. RoomInv'
  BY <1>1 DEF RoomInv, Gated
<1> QED
  BY <1>1, <1>2, <1>3, <1>4 DEF ExecutorInv

LEMMA FailsClosed ==
    ASSUME NEW x, Sound(x), FailClosed(x)
    PROVE  /\ ExecutorInv' /\ lease'.expires = Unset
           /\ lease'.session = x.lease.session
           /\ lease'.sequence = x.lease.sequence
<1>1. PICK r \in ReleasesAfter(x) : Becomes(ReleaseAll(x, r))
  BY DEF FailClosed
<1> QED
  BY <1>1, ReleaseSound, BecomesSound DEF Gated

\* The executor after the release that a change of the session begins with.
LEMMA StartedSound ==
    ASSUME IInv, NEW s
    PROVE  /\ Sound(Started(s))
           /\ Started(s).lease.session = lease.session
           /\ Started(s).lease.guardianSequence = lease.guardianSequence
           /\ Started(s).lease.sequence = IF SessionChanges(s) THEN 0 ELSE lease.sequence
           /\ Started(s).lease.expires <= lease.expires
<1>1. Sound(Here) /\ Here.lease = lease /\ lease \in Leases
  BY HereSound DEF IInv, TypeOK, Here
<1>2. CASE ~SessionChanges(s)
  BY <1>1, <1>2, LeaseAssumption DEF Started, Leases, Unset
<1>3. CASE SessionChanges(s)
  <2> DEFINE y == ReleaseAll(Here, Clean)
             l == [y.lease EXCEPT !.sequence = 0]
  <2>1. /\ Sound(y) /\ y.lease.expires = Unset /\ y.lease.session = lease.session
        /\ y.lease.guardianSequence = lease.guardianSequence
    BY <1>1, ReleaseSound
  <2>2. y \in Executors /\ y.lease \in Leases
    BY <2>1 DEF Sound, Executors
  <2> HIDE DEF y
  <2>3. 0 \in 0 .. MaxSequence
    BY LeaseAssumption
  <2>4. l \in Leases /\ l.sequence = 0 /\ l.expires = Unset
        /\ l.session = lease.session /\ l.guardianSequence = lease.guardianSequence
        /\ l.held = y.lease.held
    BY <2>1, <2>2, <2>3 DEF Leases
  <2>5. Started(s) = [y EXCEPT !.lease = l]
    BY <1>3, <2>2 DEF Started, Restarted, y, Executors
  <2> HIDE DEF l
  <2>6. Sound(Started(s)) /\ Started(s).lease = l
    BY <2>1, <2>2, <2>4, <2>5 DEF Sound, Executors
  <2>7. Unset <= lease.expires
    BY <1>1, LeaseAssumption DEF Leases, Unset
  <2> QED
    BY <1>3, <2>4, <2>6, <2>7
<1> QED
  BY <1>2, <1>3

\* An operation that accepts no lease.
Declined ==
    /\ applied' = applied
    /\ lease'.session = lease.session /\ lease'.expires <= lease.expires
    /\ lease'.sequence # lease.sequence =>
          \E s \in Sessions : Permitted(s) /\ SessionChanges(s)

\* One that accepts the lease of session s with sequence q.
Accepted(s, q) ==
    /\ Permitted(s) /\ q \in 1 .. MaxSequence
    /\ SessionChanges(s) \/ q > lease.sequence
    /\ applied' = [applied EXCEPT ![s] = q]
    /\ lease'.session = s /\ lease'.sequence = q

Decided == Declined \/ \E s \in Sessions : \E q \in 1 .. MaxSequence : Accepted(s, q)

\* What fails after no more than a change of the keys declines.
LEMMA FailsDeclined ==
    ASSUME IInv, NEW x, Sound(x), FailClosed(x), UNCHANGED applied,
           x.lease.session = lease.session, x.lease.sequence = lease.sequence
    PROVE  ExecutorInv' /\ Declined
<1>1. Unset <= lease.expires
  BY LeaseAssumption DEF IInv, TypeOK, Leases, Unset
<1> QED
  BY <1>1, FailsClosed DEF Declined

\* So does what fails after the change of the session.
LEMMA StartedDeclined ==
    ASSUME IInv, NEW s \in Sessions, Permitted(s), NEW x, Sound(x), FailClosed(x),
           UNCHANGED applied, SameTerms(Started(s), x)
    PROVE  ExecutorInv' /\ Declined
<1>1. Unset <= lease.expires
  BY LeaseAssumption DEF IInv, TypeOK, Leases, Unset
<1> QED
  BY <1>1, FailsClosed, StartedSound DEF Declined, SameTerms

\* The lease in force is that of its caller.
LEMMA InForceSound ==
    ASSUME NEW x, Sound(x),
           NEW s \in Sessions, NEW q \in 0 .. MaxSequence, NEW e \in 0 .. MaxLease,
           x.lease.guardianSequence + 1 < MaxGuardian
    PROVE  /\ Sound(InForce(x, s, q, e))
           /\ InForce(x, s, q, e).lease.held = x.lease.held
           /\ InForce(x, s, q, e).lease.guarded = x.lease.guarded
           /\ InForce(x, s, q, e).lease.open
           /\ InForce(x, s, q, e).guardian = x.guardian
           /\ InForce(x, s, q, e).lease.session = s
           /\ InForce(x, s, q, e).lease.guardianSequence < MaxGuardian
           /\ InForce(x, s, q, e).lease.sequence = q
<1>1. x \in Executors /\ x.lease \in Leases
  BY DEF Sound, Executors
<1> DEFINE n == NextGuardianSequence(x)
           l == [x.lease EXCEPT !.session = s, !.sequence = q, !.expires = e,
                                !.guardianSequence = n, !.open = TRUE]
<1>2. n \in 0 .. MaxGuardian /\ n < MaxGuardian /\ e \in Unset .. MaxLease
  BY <1>1, LeaseAssumption DEF Leases, NextGuardianSequence, Unset
<1>3. InForce(x, s, q, e) = [x EXCEPT !.lease = l]
  BY <1>1 DEF InForce, Executors
<1> HIDE DEF n
<1>4. l \in Leases /\ l.session = s /\ l.sequence = q /\ l.guardianSequence < MaxGuardian
      /\ l.held = x.lease.held /\ l.guarded = x.lease.guarded /\ l.open
  BY <1>1, <1>2 DEF Leases
<1> HIDE DEF l
<1> QED
  BY <1>1, <1>3, <1>4 DEF Sound, Executors

\* A frame that is carried out.
LEMMA AppliedSound ==
    ASSUME IInv, NEW s \in Sessions, NEW q \in 0 .. MaxSequence, NEW e \in 0 .. MaxLease,
           NEW holds \in SUBSET Keys, ~Refused(s, q, e),
           NextGuardianSequence(Here) < MaxGuardian
    PROVE  /\ Sound(Applied(s, q, e, holds))
           /\ Applied(s, q, e, holds).lease.open /\ Gated(Applied(s, q, e, holds))
           /\ Applied(s, q, e, holds).lease.session = s
           /\ Applied(s, q, e, holds).lease.guardianSequence < MaxGuardian
           /\ Applied(s, q, e, holds).lease.sequence = q
<1> DEFINE x == Started(s)
           i == Intended(x, holds)
           v == Moved(i, holds)
           c == Committed(v)
<1>1. Sound(x) /\ x.lease.guardianSequence = lease.guardianSequence /\ IntentAccepted(x)
  BY StartedSound DEF Refused
<1> HIDE DEF x
<1>2. Sound(i) /\ SameTerms(x, i) /\ i.guardian.pending.holds = holds
  BY <1>1, IntendedSound
<1> HIDE DEF i
<1>3. /\ Sound(v) /\ SameTerms(i, v) /\ v.pressed \subseteq holds \cup v.forgotten
      /\ v.guardian = i.guardian /\ v.lease.held = holds /\ v.lease.guarded = {}
  BY <1>2, MovedSound
<1> HIDE DEF v
<1>4. /\ Sound(c) /\ SameTerms(v, c) /\ c.lease = v.lease
      /\ ReleaseHolds(c.guardian) = holds
  BY <1>2, <1>3, CommittedSound
<1> HIDE DEF c
<1>5. c.lease.guardianSequence + 1 < MaxGuardian
  BY <1>1, <1>2, <1>3, <1>4 DEF SameTerms, NextGuardianSequence, Here
<1>6. Applied(s, q, e, holds) = InForce(c, s, q, e)
  BY DEF Applied, c, v, i, x
<1> DEFINE y == InForce(c, s, q, e)
<1>7. /\ Sound(y) /\ y.lease.open /\ y.lease.session = s /\ y.lease.sequence = q
      /\ y.lease.guardianSequence < MaxGuardian
      /\ y.lease.held = holds /\ y.lease.guarded = {} /\ y.guardian = c.guardian
  BY <1>3, <1>4, <1>5, InForceSound
<1> HIDE DEF y
<1>8. Gated(y)
  BY <1>4, <1>7 DEF Gated
<1> QED
  BY <1>6, <1>7, <1>8 DEF y

\* A pulse, whether its key goes up again or not.
LEMMA PulseSound ==
    ASSUME NEW x, Sound(x), Gated(x), x.lease.open, NEW p \in PulseKeys
    PROVE  /\ Sound(PulseFails(x, p)) /\ SameTerms(x, PulseFails(x, p))
           /\ Sound(Pulsed(x, p)) /\ Pulsed(x, p).lease = x.lease
           /\ Gated(Pulsed(x, p))
<1>1. x \in Executors /\ p \in Keys /\ x.guardian \in Monitors
  BY LeaseAssumption DEF Sound, Executors
<1>2. Sound(PulseFails(x, p)) /\ SameTerms(x, PulseFails(x, p))
  <2> DEFINE f == x.forgotten \cup ({p} \ x.lease.held)
  <2>1. PulseFails(x, p) = [x EXCEPT !.pressed = @ \cup {p}, !.faults = @ + 1,
                                     !.forgotten = f]
    BY <1>1 DEF PulseFails, Executors
  <2>2. /\ f \in SUBSET Keys /\ x.pressed \cup {p} \subseteq ReleaseHolds(x.guardian) \cup f
        /\ x.pressed \cup {p} \subseteq x.lease.held \cup f
    BY <1>1 DEF Sound, Gated, Executors
  <2> DEFINE down == x.pressed \cup {p}
             n == x.faults + 1
  <2>3. down \in SUBSET Keys /\ n \in Nat
    BY <1>1 DEF Executors
  <2>4. PulseFails(x, p) = [x EXCEPT !.pressed = down, !.faults = n, !.forgotten = f]
    BY <1>1, <2>1 DEF Executors
  <2> HIDE DEF f, down, n
  <2>5. PulseFails(x, p) \in Executors
    BY <1>1, <2>2, <2>3, <2>4 DEF Executors
  <2>6. /\ PulseFails(x, p).pressed = x.pressed \cup {p}
        /\ PulseFails(x, p).forgotten = f
        /\ PulseFails(x, p).guardian = x.guardian
        /\ PulseFails(x, p).lease = x.lease
    BY <1>1, <2>1 DEF Executors
  <2> QED
    BY <2>2, <2>5, <2>6 DEF Sound, SameTerms
<1>3. /\ Sound(Pulsed(x, p)) /\ Pulsed(x, p).lease = x.lease
      /\ Gated(Pulsed(x, p))
  BY <1>1 DEF Pulsed, Sound, Gated, Executors
<1> QED
  BY <1>2, <1>3

-------------------------------------------------------------------------------
(***************************************************************************)
(* The operations of the executor                                          *)
(***************************************************************************)
\* The executor of a state, and what an accepted lease may assume.
LEMMA HereFacts ==
    ASSUME IInv
    PROVE  /\ Sound(Here) /\ Gated(Here)
           /\ Here.lease = lease /\ lease \in Leases
           /\ lease.open => lease.guardianSequence < MaxGuardian
           /\ Here.guardian = guardian /\ Here.pressed = pressed
  BY HereSound DEF IInv, TypeOK, Here, RoomInv, GateInv, Gated

LEMMA NotRefused ==
    ASSUME IInv, NEW s \in Sessions, NEW q \in 0 .. MaxSequence, NEW e \in 0 .. MaxLease,
           ~Refused(s, q, e)
    PROVE  /\ Permitted(s) /\ q \in 1 .. MaxSequence
           /\ IntentAccepted(Started(s))
           /\ SessionChanges(s) \/ q > lease.sequence
<1>1. Permitted(s) /\ q > 0 /\ q > Started(s).lease.sequence /\ IntentAccepted(Started(s))
  BY DEF Refused, Advances
<1> QED
  BY <1>1, StartedSound, LeaseAssumption

LEMMA RefuseLeaseStep ==
    ASSUME IInv, NEW s \in Sessions, NEW q, NEW e, RefuseLease(s, q, e)
    PROVE  ExecutorInv' /\ Declined
<1>1. CASE FailClosed(Here)
  BY <1>1, HereFacts, FailsDeclined DEF RefuseLease
<1>2. CASE Permitted(s) /\ FailClosed(Started(s))
  <2>1. SameTerms(Started(s), Started(s))
    BY DEF SameTerms
  <2> QED
    BY <1>2, <2>1, StartedSound, StartedDeclined DEF RefuseLease
<1> QED
  BY <1>1, <1>2 DEF RefuseLease

LEMMA ChangeFailsStep ==
    ASSUME IInv, NEW s \in Sessions, NEW e, ChangeFails(s, e)
    PROVE  ExecutorInv' /\ Declined
<1>1. PICK r \in ReleasesAfter(Here) \ {Clean} : FailClosed(ReleaseAll(Here, r))
  BY DEF ChangeFails
<1>2. /\ Sound(ReleaseAll(Here, r))
      /\ ReleaseAll(Here, r).lease.session = lease.session
      /\ ReleaseAll(Here, r).lease.sequence = lease.sequence
  BY HereFacts, ReleaseSound
<1> QED
  BY <1>1, <1>2, FailsDeclined DEF ChangeFails

LEMMA FrameStep ==
    ASSUME IInv, NEW s \in Sessions, NEW q \in 0 .. MaxSequence, NEW e \in 0 .. MaxLease,
           NEW holds \in SUBSET Keys, NEW pulse \in PulseKeys \cup {None},
           ApplyPhysicalFrame(s, q, e, holds, pulse)
    PROVE  ExecutorInv' /\ Decided
<1>1. /\ Permitted(s) /\ q \in 1 .. MaxSequence /\ IntentAccepted(Started(s))
      /\ SessionChanges(s) \/ q > lease.sequence
  BY NotRefused DEF ApplyPhysicalFrame
<1>2. CASE UNCHANGED applied
           /\ \E stop \in Stops, m \in PartialMoves(Started(s), holds) :
                FailClosed(Stopped(Started(s), holds, stop, m[1], m[2]))
  <2>1. PICK stop \in Stops, m \in PartialMoves(Started(s), holds) :
          FailClosed(Stopped(Started(s), holds, stop, m[1], m[2]))
    BY <1>2
  <2>2. /\ Sound(Stopped(Started(s), holds, stop, m[1], m[2]))
        /\ SameTerms(Started(s), Stopped(Started(s), holds, stop, m[1], m[2]))
    BY <1>1, StartedSound, StoppedSound
  <2> QED
    BY <1>1, <1>2, <2>1, <2>2, StartedDeclined DEF Decided
<1>3. CASE ~UNCHANGED applied \/ ~\E stop \in Stops, m \in PartialMoves(Started(s), holds) :
                FailClosed(Stopped(Started(s), holds, stop, m[1], m[2]))
  <2> DEFINE x == Applied(s, q, e, holds)
  <2>1. /\ NextGuardianSequence(Here) < MaxGuardian
        /\ \/ pulse = None /\ Becomes(x)
           \/ pulse = None /\ FailClosed([x EXCEPT !.faults = @ + 1])
           \/ pulse # None /\ Becomes(Pulsed(x, pulse))
           \/ pulse # None /\ FailClosed(PulseFails(x, pulse))
        /\ applied' = [applied EXCEPT ![s] = q] /\ ~Refused(s, q, e)
    BY <1>3 DEF ApplyPhysicalFrame
  <2>2. /\ Sound(x) /\ Gated(x) /\ x.lease.open
        /\ x.lease.session = s /\ x.lease.sequence = q
        /\ x.lease.guardianSequence < MaxGuardian
    BY <2>1, AppliedSound
  <2> HIDE DEF x
  <2>3. Sound([x EXCEPT !.faults = @ + 1]) /\ [x EXCEPT !.faults = @ + 1].lease = x.lease
    BY <2>2, FaultySound DEF Sound, Executors
  <2>4. ExecutorInv' /\ lease'.session = s /\ lease'.sequence = q
    <3>1. CASE pulse = None
      BY <2>1, <2>2, <2>3, <3>1, BecomesSound, FailsClosed
    <3>2. CASE pulse # None
      <4>1. pulse \in PulseKeys
        BY <3>2
      <4> QED
        BY <2>1, <2>2, <3>2, <4>1, PulseSound, BecomesSound, FailsClosed DEF SameTerms
    <3> QED
      BY <3>1, <3>2
  <2> QED
    BY <1>1, <2>1, <2>4 DEF Decided, Accepted
<1> QED
  BY <1>2, <1>3

LEMMA ArmStep ==
    ASSUME IInv, NEW s \in Sessions, NEW q \in 0 .. MaxSequence, NEW e \in 0 .. MaxLease,
           NEW holds \in SUBSET Keys, ArmGuardedPhysicalFrame(s, q, e, holds)
    PROVE  ExecutorInv' /\ Decided
<1> DEFINE x == Started(s)
           y == Registered(x, holds)
           z == InForce(y, s, q, e)
<1>1. /\ Permitted(s) /\ q \in 1 .. MaxSequence /\ IntentAccepted(x)
      /\ SessionChanges(s) \/ q > lease.sequence
  BY NotRefused DEF ArmGuardedPhysicalFrame
<1>2. Sound(x) /\ x.lease.guardianSequence = lease.guardianSequence
      /\ SameTerms(x, x)
  BY StartedSound DEF SameTerms
<1>3. ASSUME x.lease.held = {}
      PROVE  /\ \A v \in RegisterStops(x, holds) : Sound(v) /\ SameTerms(x, v)
             /\ y \in RegisterStops(x, holds) /\ y.lease = x.lease
             /\ ReleaseHolds(y.guardian) = holds
  BY <1>1, <1>2, <1>3, RegisterSound
<1>4. CASE UNCHANGED applied /\ FailClosed(x)
  BY <1>1, <1>2, <1>4, StartedDeclined DEF Decided
<1>5. CASE /\ UNCHANGED applied /\ x.lease.held = {}
           /\ \E v \in RegisterStops(x, holds) :
                 FailClosed([v EXCEPT !.faults = @ + 1])
  <2>1. PICK v \in RegisterStops(x, holds) : FailClosed([v EXCEPT !.faults = @ + 1])
    BY <1>5
  <2>2. Sound([v EXCEPT !.faults = @ + 1]) /\ SameTerms(x, [v EXCEPT !.faults = @ + 1])
    BY <1>3, <1>5, FaultySound DEF Sound, Executors, SameTerms
  <2> HIDE DEF x
  <2> QED
    BY <1>1, <1>5, <2>1, <2>2, StartedDeclined DEF Decided, x
<1>6. CASE /\ x.lease.held = {}
           /\ NextGuardianSequence(Here) < MaxGuardian
           /\ Becomes([z EXCEPT !.lease.guarded = holds])
           /\ applied' = [applied EXCEPT ![s] = q]
  <2>1. Sound(y) /\ y.lease.guardianSequence + 1 < MaxGuardian
    BY <1>2, <1>3, <1>6, HereFacts DEF SameTerms, NextGuardianSequence
  <2>2. /\ Sound(z) /\ z.lease.held = {} /\ ReleaseHolds(z.guardian) = holds
        /\ z.lease.session = s /\ z.lease.sequence = q
        /\ z.lease.guardianSequence < MaxGuardian
    BY <1>3, <1>6, <2>1, InForceSound
  <2> HIDE DEF z
  <2> DEFINE l == [z.lease EXCEPT !.guarded = holds]
             w == [z EXCEPT !.lease = l]
  <2>3. /\ l \in Leases /\ l.session = s /\ l.sequence = q
        /\ l.guardianSequence < MaxGuardian /\ l.held = {} /\ l.guarded = holds
    BY <2>2 DEF Sound, Executors, Leases
  <2>4. [z EXCEPT !.lease.guarded = holds] = w
    BY <2>2 DEF Sound, Executors
  <2> HIDE DEF l
  <2>5. Sound(w) /\ w.lease = l /\ w.guardian = z.guardian
    BY <2>2, <2>3 DEF Sound, Executors
  <2> HIDE DEF w
  <2>6. Gated(w)
    BY <2>2, <2>3, <2>5 DEF Gated
  <2>7. ExecutorInv' /\ lease' = l
    BY <1>6, <2>4, <2>5, <2>6, BecomesSound
  <2> QED
    BY <1>1, <1>6, <2>3, <2>7 DEF Decided, Accepted
<1> QED
  BY <1>4, <1>5, <1>6 DEF ArmGuardedPhysicalFrame, ArmedAlready

LEMMA RenewStep ==
    ASSUME IInv, NEW s \in Sessions, NEW q \in 0 .. MaxSequence, NEW e \in 0 .. MaxLease,
           RenewGuardedPhysicalFrame(s, q, e)
    PROVE  ExecutorInv' /\ Decided
<1> DEFINE f == [Here EXCEPT !.faults = @ + 1]
           l == [lease EXCEPT !.sequence = q, !.expires = e]
<1>1. Sound(f) /\ f.lease = lease
  BY HereFacts, FaultySound DEF Sound, Executors
<1>2. CASE UNCHANGED applied /\ (FailClosed(Here) \/ FailClosed(f))
  <2> HIDE DEF f
  <2> QED
    BY <1>1, <1>2, HereFacts, FailsDeclined DEF Decided
<1>3. CASE /\ GuardedGate(s) /\ q > lease.sequence
           /\ Becomes([Here EXCEPT !.lease.sequence = q, !.lease.expires = e])
           /\ applied' = [applied EXCEPT ![s] = q]
  <2>1. e \in Unset .. MaxLease
    BY DEF Unset
  <2>2. /\ lease \in Leases /\ l \in Leases /\ l.session = lease.session /\ l.sequence = q
        /\ l.guardianSequence = lease.guardianSequence /\ l.open = lease.open
        /\ l.held = lease.held /\ l.guarded = lease.guarded
    BY <2>1, HereFacts DEF Leases
  <2>3. [Here EXCEPT !.lease.sequence = q, !.lease.expires = e] = [Here EXCEPT !.lease = l]
    BY HereFacts DEF Sound, Executors
  <2> HIDE DEF l
  <2>4. /\ Sound([Here EXCEPT !.lease = l]) /\ [Here EXCEPT !.lease = l].lease = l
        /\ Gated([Here EXCEPT !.lease = l])
    BY <2>2, HereFacts DEF Sound, Gated, Executors
  <2>5. ExecutorInv' /\ lease' = l
    BY <1>3, <2>2, <2>3, <2>4, BecomesSound
  <2>6. Permitted(s) /\ lease.session = s /\ q \in 1 .. MaxSequence
    BY <1>3, <2>2 DEF GuardedGate, Leases
  <2> QED
    BY <1>3, <2>2, <2>5, <2>6 DEF Decided, Accepted
<1> QED
  BY <1>2, <1>3 DEF RenewGuardedPhysicalFrame

\* A guarded frame moves its keys and then replaces the holds; the one that fails on its
\* way leaves astray what it has pressed.
LEMMA GuardedMoveSound ==
    ASSUME IInv, lease.open, NEW holds \in SUBSET Keys, holds \subseteq lease.guarded,
           NEW m \in PartialMoves(Here, holds)
    PROVE  /\ Sound(Stray(m[1], m[2])) /\ Stray(m[1], m[2]).lease = lease
           /\ LET x == Pressing(lease.held \ holds, holds \ lease.held)
                  y == [x EXCEPT !.lease.held = holds]
              IN  Sound(y) /\ Gated(y) /\ y.lease = [lease EXCEPT !.held = holds]
<1>1. /\ Here \in Executors /\ lease \in Leases /\ faults \in Nat
      /\ pressed \subseteq ReleaseHolds(guardian) \cup forgotten
      /\ pressed \subseteq lease.held \cup forgotten
      /\ lease.guarded \subseteq ReleaseHolds(guardian) \cup forgotten
      /\ pressed \subseteq Keys /\ forgotten \subseteq Keys
  BY HereFacts DEF IInv, TypeOK, HoldsGuarded, HoldsKnown, GateInv, Sound
<1>2. m[2] \in SUBSET holds
  BY DEF PartialMoves
<1>3. Sound(Stray(m[1], m[2])) /\ Stray(m[1], m[2]).lease = lease
  <2> DEFINE p == (pressed \ m[1]) \cup m[2]
             f == forgotten \cup m[2]
  <2>1. Stray(m[1], m[2]) = [Here EXCEPT !.pressed = p, !.forgotten = f, !.faults = faults + 1]
    BY DEF Stray, Pressing, Here
  <2>2. /\ p \in SUBSET Keys /\ f \in SUBSET Keys /\ faults + 1 \in Nat
        /\ p \subseteq ReleaseHolds(guardian) \cup f /\ p \subseteq lease.held \cup f
    BY <1>1, <1>2
  <2> HIDE DEF p, f
  <2> QED
    BY <1>1, <2>1, <2>2 DEF Sound, Executors, Here
<1>4. LET x == Pressing(lease.held \ holds, holds \ lease.held)
          y == [x EXCEPT !.lease.held = holds]
      IN  Sound(y) /\ Gated(y) /\ y.lease = [lease EXCEPT !.held = holds]
  <2> DEFINE p == (pressed \ (lease.held \ holds)) \cup (holds \ lease.held)
             l == [lease EXCEPT !.held = holds]
  <2>1. [Pressing(lease.held \ holds, holds \ lease.held) EXCEPT !.lease.held = holds]
          = [Here EXCEPT !.pressed = p, !.lease = l]
    BY DEF Pressing, Here
  <2>2. /\ p \in SUBSET Keys /\ p \subseteq ReleaseHolds(guardian) \cup forgotten
        /\ p \subseteq holds \cup forgotten
    BY <1>1
  <2>3. /\ l \in Leases /\ l.held = holds /\ l.guarded = lease.guarded
        /\ l.open = lease.open /\ l.guardianSequence = lease.guardianSequence
    BY <1>1 DEF Leases
  <2>4. l.guardianSequence < MaxGuardian
    BY <2>3, HereFacts
  <2> HIDE DEF p
  <2>5. Sound([Here EXCEPT !.pressed = p, !.lease = l])
    BY <1>1, <2>2, <2>3 DEF Sound, Executors, Here
  <2>6. Gated([Here EXCEPT !.pressed = p, !.lease = l])
    BY <1>1, <2>3, <2>4 DEF Gated, Here
  <2> QED
    BY <2>1, <2>5, <2>6 DEF Here
<1> QED
  BY <1>3, <1>4

LEMMA GuardedFrameStep ==
    ASSUME IInv, NEW s, NEW holds \in SUBSET Keys, ApplyGuardedPhysicalFrame(s, holds)
    PROVE  ExecutorInv' /\ Declined
<1>1. lease.expires <= lease.expires /\ lease \in Leases
  BY HereFacts DEF Leases, Unset
<1>2. CASE FailClosed(Here)
  BY <1>2, HereFacts, FailsDeclined DEF ApplyGuardedPhysicalFrame
<1>3. CASE lease.open /\ holds \subseteq lease.guarded
           /\ Becomes([Pressing(lease.held \ holds, holds \ lease.held)
                         EXCEPT !.lease.held = holds])
  <2> DEFINE y == [Pressing(lease.held \ holds, holds \ lease.held) EXCEPT !.lease.held = holds]
  <2>1. <<{}, {}>> \in PartialMoves(Here, holds)
    BY DEF PartialMoves
  <2>2. Sound(y) /\ Gated(y) /\ y.lease = [lease EXCEPT !.held = holds]
    BY <1>3, <2>1, GuardedMoveSound
  <2> HIDE DEF y
  <2>3. ExecutorInv' /\ lease' = [lease EXCEPT !.held = holds]
    BY <1>3, <2>2, BecomesSound DEF y
  <2> QED
    BY <1>1, <2>3 DEF Declined, ApplyGuardedPhysicalFrame, Leases
<1>4. CASE lease.open /\ holds \subseteq lease.guarded
           /\ \E m \in PartialMoves(Here, holds) : FailClosed(Stray(m[1], m[2]))
  <2>1. PICK m \in PartialMoves(Here, holds) : FailClosed(Stray(m[1], m[2]))
    BY <1>4
  <2>2. Sound(Stray(m[1], m[2])) /\ Stray(m[1], m[2]).lease = lease
    BY <1>4, GuardedMoveSound
  <2> QED
    BY <2>1, <2>2, FailsDeclined DEF ApplyGuardedPhysicalFrame
<1> QED
  BY <1>2, <1>3, <1>4 DEF ApplyGuardedPhysicalFrame, GuardedGate, WithinGuarded

LEMMA PulseStep ==
    ASSUME IInv, NEW s, NEW p \in PulseKeys, ExecutePulse(s, p)
    PROVE  ExecutorInv' /\ Declined
<1>1. lease.expires <= lease.expires
  BY HereFacts DEF Leases, Unset
<1>2. CASE FailClosed(Here)
  BY <1>2, HereFacts, FailsDeclined DEF ExecutePulse
<1>3. CASE lease.open /\ Becomes(Pulsed(Here, p))
  <2>1. ExecutorInv' /\ lease' = lease
    BY <1>3, HereFacts, PulseSound, BecomesSound
  <2> QED
    BY <1>1, <2>1 DEF Declined, ExecutePulse
<1>4. CASE lease.open /\ FailClosed(PulseFails(Here, p))
  BY <1>4, HereFacts, PulseSound, FailsDeclined DEF SameTerms, ExecutePulse
<1> QED
  BY <1>2, <1>3, <1>4 DEF ExecutePulse, OpenGate

LEMMA MouseStep ==
    ASSUME IInv, NEW s, ExecuteRelativeMouse(s)
    PROVE  ExecutorInv' /\ Declined
<1> DEFINE f == [Here EXCEPT !.faults = @ + 1]
<1>1. Sound(f) /\ f.lease = lease
  BY HereFacts, FaultySound DEF Sound, Executors
<1>2. FailClosed(Here) \/ FailClosed(f)
  BY DEF ExecuteRelativeMouse
<1> HIDE DEF f
<1> QED
  BY <1>1, <1>2, HereFacts, FailsDeclined DEF ExecuteRelativeMouse

\* The Guardian after the commit of a click.
LEMMA RegisteredFacts ==
    ASSUME NEW x, Sound(x), NEW holds
    PROVE  /\ ReleaseHolds(ClickRegistered(x, holds).guardian) = holds
           /\ ClickRegistered(x, holds).guardian.pending = NoIntent
           /\ ClickRegistered(x, holds).guardian.registered = x.guardian.registered
           /\ ClickRegistered(x, holds).guardian.last = NextGuardianSequence(x)
  BY DEF Sound, Executors, Monitors, ClickRegistered, Displaced, Committed, Intended, CommitHolds,
         RegisterIntent, ReleaseHolds, NoIntent, NextGuardianSequence

\* The executor with a button in its holds.
LEMMA ClickingSound ==
    ASSUME IInv, lease.open, IntentAccepted(Here), NEW b \in Keys
    PROVE  /\ Sound(Clicking(b)) /\ Clicking(b).pressed \subseteq Clicking(b).forgotten
           /\ lease.guarded \subseteq Clicking(b).forgotten
           /\ Clicking(b).lease.guarded = lease.guarded
           /\ ReleaseHolds(Clicking(b).guardian) = {b}
           /\ IntentAccepted(Clicking(b))
           /\ Clicking(b).lease.session = lease.session
           /\ Clicking(b).lease.sequence = lease.sequence
           /\ Clicking(b).lease.expires = lease.expires
           /\ Clicking(b).lease.guardianSequence = lease.guardianSequence + 1
<1> DEFINE x == ClickRegistered(Here, {b})
           l == [lease EXCEPT !.guardianSequence = @ + 1, !.held = {b}]
<1>1. Sound(x) /\ x.lease = lease /\ x.pressed \cup lease.guarded \subseteq x.forgotten
  BY HereFacts, ClickRegisterSound
<1>2. /\ ReleaseHolds(x.guardian) = {b} /\ x.guardian.pending = NoIntent
      /\ x.guardian.registered /\ x.guardian.last = lease.guardianSequence + 1
  BY HereFacts, RegisteredFacts
     DEF IntentAccepted, AcceptsIntent, NextGuardianSequence, Here
<1> HIDE DEF x
<1>3. lease.guardianSequence + 1 \in 0 .. MaxGuardian /\ lease.guardianSequence \in Nat
  BY HereFacts, LeaseAssumption DEF Leases
<1>4. /\ l \in Leases /\ l.session = lease.session /\ l.sequence = lease.sequence
      /\ l.expires = lease.expires /\ l.guardianSequence = lease.guardianSequence + 1
      /\ l.guarded = lease.guarded
  BY <1>3, HereFacts DEF Leases
<1>5. Clicking(b) = [x EXCEPT !.lease = l]
  BY <1>1 DEF Clicking, x, Sound, Executors
<1> HIDE DEF l
<1>6. /\ Sound(Clicking(b)) /\ Clicking(b).lease = l
      /\ Clicking(b).guardian = x.guardian /\ Clicking(b).pressed = x.pressed
      /\ Clicking(b).forgotten = x.forgotten
  BY <1>1, <1>4, <1>5 DEF Sound, Executors
<1>7. IntentAccepted(Clicking(b))
  BY <1>2, <1>3, <1>4, <1>6 DEF IntentAccepted, AcceptsIntent, NextGuardianSequence
<1> QED
  BY <1>1, <1>2, <1>4, <1>6, <1>7

LEMMA ClickingHolds ==
    ASSUME IInv, lease.open, IntentAccepted(Here), NEW b \in Keys
    PROVE  Clicking(b).lease.held = {b}
<1>1. ClickRegistered(Here, {b}).lease = lease /\ Sound(ClickRegistered(Here, {b}))
  BY HereFacts, ClickRegisterSound
<1> QED
  BY <1>1 DEF Clicking, Sound, Executors, Leases

LEMMA ClientPointStep ==
    ASSUME IInv, NEW s, NEW b \in Buttons, ExecuteClientPoint(s, b)
    PROVE  ExecutorInv' /\ Declined
<1>1. b \in Keys /\ lease.expires <= lease.expires
  BY HereFacts, LeaseAssumption DEF Leases, Unset
<1>2. CASE FailClosed(Here)
  BY <1>2, HereFacts, FailsDeclined DEF ExecuteClientPoint
<1>3. ASSUME lease.open, IntentAccepted(Here),
             NEW x \in ClickStops(Here, {b}), FailClosed([x EXCEPT !.faults = @ + 1])
      PROVE  ExecutorInv' /\ Declined
  <2>1. Sound(x) /\ SameTerms(Here, x)
    BY <1>1, <1>3, HereFacts, ClickRegisterSound
  <2>2. Sound([x EXCEPT !.faults = @ + 1]) /\ [x EXCEPT !.faults = @ + 1].lease = x.lease
    BY <2>1, FaultySound DEF Sound, Executors
  <2> QED
    BY <1>3, <2>1, <2>2, HereFacts, FailsDeclined DEF SameTerms, ExecuteClientPoint
<1>4. ASSUME lease.open, IntentAccepted(Here), NEW down \in SUBSET {b},
             FailClosed([Clicking(b) EXCEPT !.pressed = (@ \ {b}) \cup down,
                                            !.faults = @ + 1])
      PROVE  ExecutorInv' /\ Declined
  <2> DEFINE x == Clicking(b)
             p == (x.pressed \ {b}) \cup down
             n == x.faults + 1
  <2>1. Sound(x) /\ ReleaseHolds(x.guardian) = {b} /\ x.pressed \subseteq x.forgotten
        /\ b \in x.lease.held /\ x.lease.session = lease.session /\ x.lease.sequence = lease.sequence
    BY <1>1, <1>4, ClickingSound, ClickingHolds
  <2> HIDE DEF x
  <2>2. /\ p \in SUBSET Keys /\ n \in Nat
        /\ p \subseteq {b} \cup x.forgotten /\ p \subseteq x.lease.held \cup x.forgotten
    BY <1>1, <2>1 DEF Sound, Executors
  <2>3. [x EXCEPT !.pressed = (@ \ {b}) \cup down, !.faults = @ + 1]
          = [x EXCEPT !.pressed = p, !.faults = n]
    BY <2>1 DEF Sound, Executors
  <2> HIDE DEF p, n
  <2>4. Sound([x EXCEPT !.pressed = p, !.faults = n])
        /\ [x EXCEPT !.pressed = p, !.faults = n].lease = x.lease
    BY <2>1, <2>2 DEF Sound, Executors
  <2> QED
    BY <1>4, <2>1, <2>3, <2>4, FailsDeclined DEF x, ExecuteClientPoint
<1>5. ASSUME lease.open, IntentAccepted(Here)
      PROVE  /\ Sound(Clicked(b)) /\ IntentAccepted(Clicked(b))
             /\ Clicked(b).lease = Clicking(b).lease
  <2> DEFINE x == Clicking(b)
  <2>1. Sound(x) /\ IntentAccepted(x) /\ x.pressed \subseteq x.forgotten
        /\ ReleaseHolds(x.guardian) = {b}
    BY <1>1, <1>5, ClickingSound
  <2>2. Clicked(b) = [x EXCEPT !.pressed = @ \ {b}]
    BY DEF Clicked
  <2> HIDE DEF x
  <2>3. /\ Sound(Clicked(b)) /\ Clicked(b).lease = x.lease
        /\ Clicked(b).guardian = x.guardian
    BY <2>1, <2>2 DEF Sound, Executors
  <2> QED
    BY <2>1, <2>3 DEF IntentAccepted, NextGuardianSequence, x
<1>6. ASSUME lease.open, IntentAccepted(Here),
             NEW x \in ClickStops(Clicked(b), {}), FailClosed([x EXCEPT !.faults = @ + 1])
      PROVE  ExecutorInv' /\ Declined
  <2>1. Sound(x) /\ SameTerms(Clicked(b), x)
    BY <1>5, <1>6, ClickRegisterSound
  <2>2. Sound([x EXCEPT !.faults = @ + 1]) /\ [x EXCEPT !.faults = @ + 1].lease = x.lease
    BY <2>1, FaultySound DEF Sound, Executors
  <2>3. x.lease.session = lease.session /\ x.lease.sequence = lease.sequence
    BY <1>1, <1>5, <1>6, <2>1, ClickingSound DEF SameTerms
  <2>4. UNCHANGED applied
    BY DEF ExecuteClientPoint
  <2> DEFINE f == [x EXCEPT !.faults = @ + 1]
  <2>5. Sound(f) /\ f.lease = x.lease /\ FailClosed(f)
    BY <1>6, <2>2
  <2> HIDE DEF f
  <2> QED
    BY <2>3, <2>4, <2>5, FailsDeclined
<1>7. ASSUME lease.open, IntentAccepted(Here),
             NextGuardianSequence(Clicked(b)) < MaxGuardian,
             Becomes([ClickRegistered(Clicked(b), {}) EXCEPT
                        !.lease.guardianSequence = @ + 1, !.lease.held = {}])
      PROVE  ExecutorInv' /\ Declined
  <2> DEFINE x == ClickRegistered(Clicked(b), {})
             l == [x.lease EXCEPT !.guardianSequence = @ + 1, !.held = {}]
  <2>1. /\ Sound(x) /\ x.lease = Clicking(b).lease
        /\ x.pressed \cup x.lease.guarded \subseteq x.forgotten
    BY <1>5, <1>7, ClickRegisterSound
  <2>2. /\ x.lease.session = lease.session /\ x.lease.sequence = lease.sequence
        /\ x.lease.expires = lease.expires /\ x.lease.guardianSequence + 1 < MaxGuardian
    BY <1>1, <1>5, <1>7, <2>1, ClickingSound DEF NextGuardianSequence
  <2> HIDE DEF x
  <2>3. x.lease \in Leases /\ x.lease.guardianSequence + 1 \in 0 .. MaxGuardian
    BY <2>1, <2>2, LeaseAssumption DEF Sound, Executors, Leases
  <2>4. /\ l \in Leases /\ l.session = lease.session /\ l.sequence = lease.sequence
        /\ l.expires = lease.expires /\ l.guardianSequence < MaxGuardian
        /\ l.held = {} /\ l.guarded = x.lease.guarded
    BY <2>2, <2>3 DEF Leases
  <2>5. [x EXCEPT !.lease.guardianSequence = @ + 1, !.lease.held = {}] = [x EXCEPT !.lease = l]
    BY <2>1 DEF Sound, Executors
  <2> HIDE DEF l
  <2>6. /\ Sound([x EXCEPT !.lease = l]) /\ [x EXCEPT !.lease = l].lease = l
        /\ Gated([x EXCEPT !.lease = l])
    BY <2>1, <2>4 DEF Sound, Gated, Executors
  <2>7. ExecutorInv' /\ lease' = l
    BY <1>7, <2>5, <2>6, BecomesSound DEF x
  <2> QED
    BY <1>1, <2>4, <2>7 DEF Declined, ExecuteClientPoint
<1> QED
  BY <1>2, <1>3, <1>4, <1>6, <1>7 DEF ExecuteClientPoint, AcceptsClick, OpenGate

\* Every operation of the executor accepts a lease or declines to.
LEMMA ExecutorDecides ==
    ASSUME IInv, ExecutorStep
    PROVE  ExecutorInv' /\ Decided
<1>1. ASSUME NEW s \in Sessions, NEW offer \in Offers(s),
             \/ RefuseLease(s, offer[1], offer[2])
             \/ ChangeFails(s, offer[2])
             \/ \E holds \in SUBSET Keys :
                   ApplyPhysicalFrame(s, offer[1], offer[2], holds, None)
             \/ \E p \in PulseKeys : ApplyPhysicalFrame(s, offer[1], offer[2], {}, p)
             \/ \E holds \in SUBSET HoldKeys \ {{}} :
                   ArmGuardedPhysicalFrame(s, offer[1], offer[2], holds)
             \/ RenewGuardedPhysicalFrame(s, offer[1], offer[2])
      PROVE  ExecutorInv' /\ Decided
  <2>1. offer[1] \in 0 .. MaxSequence /\ offer[2] \in 0 .. MaxLease
    BY LeaseAssumption DEF Offers
  <2>2. \A holds \in SUBSET HoldKeys \ {{}} : holds \in SUBSET Keys
    BY LeaseAssumption
  <2> QED
    BY <1>1, <2>1, <2>2, RefuseLeaseStep, ChangeFailsStep, FrameStep, ArmStep, RenewStep
       DEF Decided
<1>2. ASSUME NEW s \in Sessions,
             \/ \E holds \in SUBSET HoldKeys : ApplyGuardedPhysicalFrame(s, holds)
             \/ \E p \in PulseKeys : ExecutePulse(s, p)
             \/ ExecuteRelativeMouse(s)
             \/ \E b \in Buttons : ExecuteClientPoint(s, b)
      PROVE  ExecutorInv' /\ Decided
  <2>1. \A holds \in SUBSET HoldKeys : holds \in SUBSET Keys
    BY LeaseAssumption
  <2> QED
    BY <1>2, <2>1, GuardedFrameStep, PulseStep, MouseStep, ClientPointStep DEF Decided
<1> QED
  BY <1>1, <1>2 DEF ExecutorStep

-------------------------------------------------------------------------------
(***************************************************************************)
(* The steps                                                               *)
(***************************************************************************)
\* What AppliedOnce says of a step.
OnceStep ==
    /\ \A s \in Sessions : applied'[s] # applied[s] => applied'[s] > applied[s]
    /\ lease'.expires > lease.expires => applied' # applied

\* Only the newest session is permitted anything.
LEMMA PermittedNewest ==
    ASSUME IInv, NEW s, Permitted(s)
    PROVE  s = newest
  BY DEF IInv, WalkInv, Permitted

\* Nothing is decided but what keeps the sequences in order.
LEMMA DecidedKeeps ==
    ASSUME IInv, Decided, ExecutorInv', UNCHANGED newest
    PROVE  SequenceInv' /\ applied' \in [Sessions -> 0 .. MaxSequence] /\ OnceStep
<1>1. /\ applied \in [Sessions -> 0 .. MaxSequence] /\ newest \in Nat
      /\ lease \in Leases /\ lease' \in Leases /\ Sessions \subseteq Nat \ {0}
      /\ lease.expires \in Int /\ lease'.expires \in Int
      /\ lease.sequence \in Nat /\ lease'.sequence \in Nat
  BY AgentMachineAssumption DEF IInv, TypeOK, ExecutorInv, Leases, Unset
<1>2. CASE Declined
  <2>1. lease'.session <= newest /\ lease'.session = lease.session
    BY <1>2 DEF IInv, SequenceInv, Declined
  <2>2. ASSUME NEW s \in Sessions, applied[s] # 0
        PROVE  s <= newest /\ (s = newest => lease.session = s /\ applied[s] <= lease'.sequence)
    <3>1. s <= newest /\ (s = newest => lease.session = s /\ applied[s] <= lease.sequence)
      BY <2>2 DEF IInv, SequenceInv
    <3>2. s = newest => lease'.sequence = lease.sequence
      BY <1>2, <3>1, PermittedNewest DEF Declined, SessionChanges
    <3> QED
      BY <3>1, <3>2
  <2>3. SequenceInv'
    BY <1>2, <2>1, <2>2 DEF Declined, SequenceInv
  <2> QED
    BY <1>1, <1>2, <2>3 DEF Declined, OnceStep
<1>3. ASSUME NEW s \in Sessions, NEW q \in 1 .. MaxSequence, Accepted(s, q)
      PROVE  SequenceInv' /\ applied' \in [Sessions -> 0 .. MaxSequence] /\ OnceStep
  <2>1. s = newest
    BY <1>3, PermittedNewest DEF Accepted
  <2>2. applied[s] # 0 => lease.session = s /\ applied[s] <= lease.sequence
    BY <2>1 DEF IInv, SequenceInv
  <2>3. applied[s] \in Nat /\ q \in Nat /\ q > applied[s]
    BY <1>1, <1>3, <2>2 DEF Accepted, SessionChanges
  <2>4. /\ applied' \in [Sessions -> 0 .. MaxSequence] /\ applied'[s] = q
        /\ \A t \in Sessions \ {s} : applied'[t] = applied[t]
    BY <1>1, <1>3 DEF Accepted
  <2>5. \A t \in Sessions \ {s} : applied[t] # 0 => t <= newest /\ t # newest
    BY <2>1 DEF IInv, SequenceInv
  <2>6. SequenceInv'
    BY <1>1, <1>3, <2>1, <2>4, <2>5 DEF Accepted, SequenceInv
  <2> QED
    BY <2>3, <2>4, <2>6 DEF OnceStep
<1> QED
  BY <1>2, <1>3 DEF Decided

\* A release that somebody asks for without a lease.
LEMMA ReleaseStep ==
    ASSUME IInv, UNCHANGED <<applied, newest>>,
           \E r \in ReleasesAfter(Here) : Becomes(ReleaseAll(Here, r))
    PROVE  ExecutorInv' /\ SequenceInv' /\ OnceStep
<1>1. ExecutorInv' /\ Declined
  BY HereFacts, FailsDeclined DEF FailClosed
<1> QED
  BY <1>1, DecidedKeeps DEF Decided

\* The machine and the session it has.
MachineInv ==
    /\ machine \in Machines /\ target \in Windows /\ owed \in BOOLEAN
    /\ newest \in Sessions \cup {0}
    /\ WalkInv

\* What takes the machine back to a state without a window.
LEMMA BackStep ==
    ASSUME MachineInv, UNCHANGED <<target, newest>>, owed' \in BOOLEAN,
           machine' \in Machines,
           machine'.current \in {"Starting", "Disconnected", "FailedSafe"}
    PROVE  MachineInv'
  BY DEF MachineInv, WalkInv

\* What takes it one step on for the same session.
LEMMA OnStep ==
    ASSUME MachineInv, UNCHANGED <<target, newest>>, owed' \in BOOLEAN,
           machine' \in Machines,
           machine.current \notin {"Starting", "Disconnected", "FailedSafe"},
           machine'.connected = machine.connected, machine'.session = machine.session,
           machine'.current \in {"TargetLocked", "PreflightPassed", "DryRun", "Armed",
                                 "Controlling"} =>
              <<machine'.profile, machine'.binding>> \in Fits
    PROVE  MachineInv'
  BY DEF MachineInv, WalkInv

LEMMA MachineKeeps ==
    ASSUME MachineInv, MachineStep, UNCHANGED newest
    PROVE  MachineInv'
<1>1. machine \in Machines /\ owed \in BOOLEAN /\ target \in Windows
  BY DEF MachineInv
<1>2. None \notin Profiles \cup Windows /\ Fits \subseteq Profiles \X Windows
  BY AgentMachineAssumption
<1>3. Unset \in Unset .. MaxTime /\ \A t \in 1 .. MaxTime : t \in Unset .. MaxTime
  BY AgentMachineAssumption DEF Unset
<1>4. ASSUME StartCompleted PROVE MachineInv'
  BY <1>1, <1>4, BackStep DEF StartCompleted, Machines
<1>5. ASSUME NEW p \in Profiles, ActivateProfile(p) PROVE MachineInv'
  BY <1>1, <1>5, OnStep DEF ActivateProfile, Machines
<1>6. ASSUME NEW w \in Windows, LockTarget(w) PROVE MachineInv'
  BY <1>1, <1>6, OnStep DEF LockTarget, Machines
<1>7. ASSUME PreflightPassed PROVE MachineInv'
  BY <1>1, <1>7, OnStep DEF PreflightPassed, Machines, MachineInv, WalkInv
<1>8. ASSUME EnterDryRun PROVE MachineInv'
  BY <1>1, <1>8, OnStep DEF EnterDryRun, Machines, MachineInv, WalkInv
<1>9. ASSUME NEW t \in 1 .. MaxTime, RequestArm(t) PROVE MachineInv'
  BY <1>1, <1>3, <1>9, OnStep DEF RequestArm, Machines, MachineInv, WalkInv
<1>10. ASSUME BeginControl PROVE MachineInv'
  <2> USE <1>1, <1>3, <1>10 DEF BeginControl
  <2>1. /\ machine' \in Machines
        /\ machine'.connected = machine.connected /\ machine'.session = machine.session
        /\ machine'.profile = machine.profile /\ machine'.binding = machine.binding
    BY DEF Machines
  <2>2. <<machine.profile, machine.binding>> \in Fits
    BY DEF MachineInv, WalkInv
  <2> QED
    BY <2>1, <2>2, OnStep
<1>11. ASSUME NEW t \in 1 .. MaxTime, RenewControlAuthorization(t) PROVE MachineInv'
  BY <1>1, <1>3, <1>11, OnStep DEF RenewControlAuthorization, Machines, MachineInv, WalkInv
<1>12. WithoutContext(machine) \in Machines
  BY <1>1, <1>3 DEF WithoutContext, Machines
<1>13. ASSUME ControlDisconnected PROVE MachineInv'
  <2>1. /\ machine' \in Machines /\ owed' \in BOOLEAN /\ UNCHANGED <<target, newest>>
        /\ machine'.current \in {"Disconnected", "FailedSafe"}
    BY <1>1, <1>12, <1>13 DEF ControlDisconnected, Machines
  <2> QED
    BY <2>1, BackStep
<1>14. ASSUME FailSafe PROVE MachineInv'
  <2>1. /\ machine' \in Machines /\ owed' \in BOOLEAN /\ UNCHANGED <<target, newest>>
        /\ machine'.current = "FailedSafe"
    BY <1>1, <1>12, <1>14 DEF FailSafe, Machines
  <2> QED
    BY <2>1, BackStep
<1>15. ASSUME ControlEnds PROVE MachineInv'
  BY <1>1, <1>3, <1>15, OnStep DEF ControlEnds, Machines, MachineInv, WalkInv
<1>16. ASSUME TargetChanges PROVE MachineInv'
  BY <1>16 DEF TargetChanges, MachineInv, WalkInv
<1> QED
  BY <1>4, <1>5, <1>6, <1>7, <1>8, <1>9, <1>10, <1>11, <1>13, <1>14, <1>15, <1>16
     DEF MachineStep

\* A new session is newer than all before.
LEMMA ConnectedKeeps ==
    ASSUME MachineInv, NEW s \in Sessions, ControlConnected(s, newest), newest' = s
    PROVE  MachineInv' /\ newest < newest'
<1>1. machine \in Machines /\ machine' \in Machines
  BY DEF MachineInv, ControlConnected, Machines
<1>2. newest < newest'
  BY AgentMachineAssumption DEF MachineInv, ControlConnected
<1>3. WalkInv'
  BY <1>1 DEF ControlConnected, WalkInv, Machines
<1> QED
  BY <1>1, <1>2, <1>3 DEF MachineInv, ControlConnected

\* As time passes.
LEMMA LeftFacts ==
    ASSUME NEW bound \in Nat, NEW t \in Unset .. bound
    PROVE  Left(t) \in Unset .. bound /\ Left(t) <= t
  BY DEF Left, Unset

LEMMA TimeStep ==
    ASSUME IInv, TimePasses
    PROVE  IInv' /\ OnceStep
<1>1. machine \in Machines /\ lease \in Leases
  BY DEF IInv, TypeOK
<1>2. /\ Left(machine.armed) \in Unset .. MaxTime
      /\ Left(machine.authorized) \in Unset .. MaxTime
      /\ Left(lease.expires) \in Unset .. MaxLease /\ Left(lease.expires) <= lease.expires
  BY <1>1, AgentMachineAssumption, LeaseAssumption, LeftFacts DEF Machines, Leases
<1>3. machine' = [machine EXCEPT !.armed = Left(machine.armed),
                                 !.authorized = Left(machine.authorized)]
      /\ lease' = [lease EXCEPT !.expires = Left(lease.expires)]
  BY <1>1 DEF TimePasses, Machines, Leases
<1>4. /\ machine' \in Machines /\ machine'.current = machine.current
      /\ machine'.connected = machine.connected /\ machine'.session = machine.session
      /\ machine'.profile = machine.profile /\ machine'.binding = machine.binding
  BY <1>1, <1>2, <1>3 DEF Machines
<1>5. /\ lease' \in Leases /\ lease'.session = lease.session /\ lease'.open = lease.open
      /\ lease'.held = lease.held /\ lease'.guarded = lease.guarded
      /\ lease'.sequence = lease.sequence /\ lease'.expires <= lease.expires
      /\ lease'.guardianSequence = lease.guardianSequence
  BY <1>1, <1>2, <1>3 DEF Leases
<1>6. ~(lease'.expires > lease.expires)
  BY <1>1, <1>5 DEF Leases, Unset
<1>7. IInv'
  BY <1>4, <1>5 DEF IInv, TypeOK, TimePasses, WalkInv, SequenceInv, RoomInv, HoldsGuarded,
                    HoldsKnown, GateInv
<1> QED
  BY <1>6, <1>7 DEF OnceStep, TimePasses

LEMMA ExpiryStep ==
    ASSUME IInv, GuardianExpires
    PROVE  IInv' /\ OnceStep
<1>1. guardian' \in Monitors /\ ReleaseHolds(guardian') = {}
  BY MonitorFacts DEF IInv, TypeOK, GuardianExpires
<1>2. /\ pressed' \subseteq Keys /\ forgotten' \subseteq Keys
      /\ HoldsGuarded' /\ HoldsKnown' /\ GateInv'
  BY <1>1 DEF IInv, TypeOK, HoldsGuarded, HoldsKnown, GateInv, GuardianExpires
<1>3. lease.expires \in Int
  BY DEF IInv, TypeOK, Leases, Unset
<1>4. IInv'
  BY <1>1, <1>2 DEF IInv, TypeOK, WalkInv, SequenceInv, RoomInv, GuardianExpires, machineVars
<1> QED
  BY <1>3, <1>4 DEF OnceStep, GuardianExpires

-------------------------------------------------------------------------------
(***************************************************************************)
(* The theorems                                                            *)
(***************************************************************************)
\* The parts that the steps keep make up the invariant.
Parts ==
    /\ MachineInv /\ ExecutorInv /\ SequenceInv
    /\ applied \in [Sessions -> 0 .. MaxSequence]

LEMMA IInvParts == (IInv <=> Parts) /\ (IInv' <=> Parts')
  BY DEF IInv, TypeOK, Parts, MachineInv, ExecutorInv

LEMMA InitIInv == Init => IInv
<1> SUFFICES ASSUME Init PROVE IInv
  OBVIOUS
<1>1. MachineInv
  <2>1. Unset \in Unset .. MaxTime
    BY AgentMachineAssumption DEF Unset
  <2> QED
    BY <2>1 DEF Init, MachineInit, MachineInv, Machines, WalkInv
<1>2. lease \in Leases /\ ~lease.open /\ lease.session = 0
  BY LeaseAssumption DEF Init, NewLease, Leases, Unset
<1>3. guardian \in Monitors
  BY DEF Init, RegisterAgent, NewMonitor, NoIntent, Monitors, Intents, Reasons
<1>4. ExecutorInv
  BY <1>2, <1>3, LeaseAssumption DEF Init, ExecutorInv, HoldsGuarded, HoldsKnown, GateInv, RoomInv
<1>5. SequenceInv /\ applied \in [Sessions -> 0 .. MaxSequence]
  BY <1>2, LeaseAssumption DEF Init, SequenceInv
<1> QED
  BY <1>1, <1>4, <1>5, IInvParts DEF Parts

\* Generations are numbers.
LEMMA SessionFacts == ASSUME NEW n \in Sessions \cup {0} PROVE n \in Nat
  BY AgentMachineAssumption

\* A connected session leaves executor and sequences as they are.
LEMMA ConnectStep ==
    ASSUME IInv, NEW s \in Sessions, ControlConnected(s, newest), newest' = s,
           UNCHANGED <<lease, guardian, pressed, forgotten, applied, faults>>
    PROVE  IInv' /\ OnceStep
<1>1. MachineInv /\ SequenceInv /\ lease \in Leases /\ lease.expires \in Int
  BY DEF IInv, TypeOK, MachineInv, Leases, Unset
<1>2. MachineInv' /\ newest < newest'
  BY <1>1, ConnectedKeeps
<1>3. ExecutorInv'
  BY IInvParts DEF Parts, ExecutorInv, HoldsGuarded, HoldsKnown, GateInv, RoomInv
<1>4. newest \in Nat /\ newest' \in Nat /\ Sessions \subseteq Nat /\ lease.session \in Nat
  <2>1. Sessions \subseteq Nat
    BY AgentMachineAssumption
  <2>2. newest \in Sessions \cup {0} /\ newest' \in Sessions \cup {0}
    BY <1>1, <1>2 DEF MachineInv
  <2>3. lease.session \in Sessions \cup {0}
    BY <1>1 DEF Leases
  <2> QED
    BY ONLY <2>1, <2>2, <2>3, SessionFacts
<1>5. SequenceInv'
  BY <1>1, <1>2, <1>4 DEF SequenceInv
<1>6. applied' \in [Sessions -> 0 .. MaxSequence]
  BY IInvParts DEF Parts
<1> QED
  BY <1>1, <1>2, <1>3, <1>5, <1>6, IInvParts DEF Parts, OnceStep

\* Every step keeps the invariant and applies a frame once.
LEMMA NextKeepsIInv ==
    ASSUME IInv, Next
    PROVE  IInv' /\ OnceStep
<1>1. /\ MachineInv /\ ExecutorInv /\ SequenceInv
      /\ applied \in [Sessions -> 0 .. MaxSequence] /\ lease.expires \in Int
  BY IInvParts DEF Parts, IInv, TypeOK, Leases, Unset
<1>2. CASE MachineStep
           /\ UNCHANGED <<lease, guardian, pressed, forgotten, applied, newest, faults>>
  <2>1. MachineInv'
    BY <1>1, <1>2, MachineKeeps
  <2>2. ExecutorInv' /\ SequenceInv' /\ applied' \in [Sessions -> 0 .. MaxSequence]
    BY <1>1, <1>2 DEF ExecutorInv, HoldsGuarded, HoldsKnown, GateInv, RoomInv, SequenceInv
  <2> QED
    BY <1>1, <1>2, <2>1, <2>2, IInvParts DEF Parts, OnceStep
<1>3. CASE ExecutorStep /\ UNCHANGED <<machineVars, newest>>
  <2>1. ExecutorInv' /\ SequenceInv' /\ applied' \in [Sessions -> 0 .. MaxSequence] /\ OnceStep
    BY <1>3, ExecutorDecides, DecidedKeeps
  <2>2. MachineInv'
    BY <1>1, <1>3 DEF MachineInv, WalkInv, machineVars
  <2> QED
    BY <2>1, <2>2, IInvParts DEF Parts
<1>4. CASE Tick \/ PerformEffects
  <2>1. ExecutorInv' /\ SequenceInv' /\ OnceStep
    BY <1>4, ReleaseStep DEF Tick, PerformEffects
  <2>2. MachineInv' /\ applied' = applied
    BY <1>1, <1>4 DEF MachineInv, WalkInv, machineVars, Tick, PerformEffects
  <2> QED
    BY <1>1, <2>1, <2>2, IInvParts DEF Parts
<1> QED
  BY <1>2, <1>3, <1>4, ConnectStep, TimeStep, ExpiryStep DEF Next

\* Every state of machine, executor and Guardian satisfies IInv, for any keys, sessions,
\* windows, terms and number of failing calls.
THEOREM Invariance == Spec => []IInv
<1>1. IInv /\ UNCHANGED vars => IInv'
  BY DEF vars, machineVars, IInv, TypeOK, HoldsGuarded, HoldsKnown, GateInv, WalkInv,
         SequenceInv, RoomInv
<1>2. IInv /\ [Next]_vars => IInv'
  BY <1>1, NextKeepsIInv
<1> QED
  BY <1>2, InitIInv, PTL DEF Spec

\* The variables keep their types.
THEOREM TypeCorrect == Spec => []TypeOK
<1>1. IInv => TypeOK
  BY DEF IInv
<1> QED
  BY <1>1, Invariance, PTL

\* Whatever call fails and however often, every key that is down is one that the
\* Guardian will release, but for the three gaps that HoldsGuarded names: what a click
\* displaces, a pulse whose release fails, and what a guarded frame pressed before it
\* failed (apply_hold_difference, release_all).
THEOREM Guarded == Spec => []HoldsGuarded
<1>1. IInv => HoldsGuarded
  BY DEF IInv
<1> QED
  BY <1>1, Invariance, PTL

\* A machine that may issue a capability has the newest session and a window that its
\* profile admits (Machine::transition, issue_input_capability).
THEOREM Earned == Spec => []ControlEarned
<1>1. IInv => ControlEarned
  BY DEF IInv, WalkInv, ControlEarned
<1> QED
  BY <1>1, Invariance, PTL

\* No frame is applied twice or out of order, in whatever order sessions and leases come
\* (the sequence checks of apply_lease, arm and renew).
THEOREM FramesOnce == Spec => AppliedOnce
<1>1. IInv /\ [Next]_vars => [OnceStep]_vars
  BY NextKeepsIInv
<1>2. Spec => [][OnceStep]_vars
  BY <1>1, Invariance, PTL DEF Spec
<1> QED
  BY <1>2 DEF AppliedOnce, OnceStep

===============================================================================
