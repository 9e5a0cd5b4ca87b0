---------------------------- MODULE LeaseExecutor -----------------------------
(***************************************************************************)
(* The lease executor (crates/fairypam-agent-input/src/lease.rs, with the  *)
(* action map and the platform's defaults of action.rs): it presses what a *)
(* lease asks for while the machine permits input, and registers every     *)
(* hold with the Guardian before it is pressed.                            *)
(*                                                                         *)
(* Every operation takes `&mut self`, so it is one step; inside it a call  *)
(* to the platform or to the Guardian may fail, which is the choice of a   *)
(* fault.  A call to the Guardian that fails was either lost or carried    *)
(* out without an answer.                                                  *)
(***************************************************************************)
EXTENDS AgentMachine, GuardianMonitor

CONSTANTS
    HoldKeys,     \* actions that hold a key
    PulseKeys,    \* actions that press and release one
    Buttons,      \* mouse buttons, each the action of a client point click
    MaxSequence,  \* the largest sequence of a lease
    MaxLease,     \* the longest term of a lease
    MaxGuardian,  \* the largest sequence used towards the Guardian
    ClickHold,    \* CLIENT_POINT_CLICK_HOLD
    MaxFaults     \* how many calls may fail

ASSUME LeaseAssumption ==
    /\ Keys = HoldKeys \cup PulseKeys \cup Buttons
    /\ {MaxSequence, MaxLease, MaxGuardian, ClickHold} \subseteq Nat \ {0}
    /\ MaxFaults \in Nat

VARIABLES
    lease,      \* the fields of the executor
    guardian,   \* the monitor of the Guardian
    pressed,    \* what is physically down
    forgotten,  \* what a click, a failed pulse or a failed guarded frame has left astray
    applied,    \* the sequence applied last for each session
    newest,     \* the newest generation seen
    faults

vars == <<machineVars, lease, guardian, pressed, forgotten, applied, newest, faults>>

Codes == HoldKeys \cup PulseKeys

Leases ==
    [session : Sessions \cup {0}, sequence : 0 .. MaxSequence,
     guardianSequence : 0 .. MaxGuardian, expires : Unset .. MaxLease,
     held : SUBSET Keys, guarded : SUBSET Keys, open : BOOLEAN]

NewLease ==
    [session |-> 0, sequence |-> 0, guardianSequence |-> 0, expires |-> Unset,
     held |-> {}, guarded |-> {}, open |-> FALSE]

Init ==
    /\ MachineInit
    /\ lease = NewLease
    /\ guardian = RegisterAgent(NewMonitor)
    /\ pressed = {} /\ forgotten = {}
    /\ applied = [s \in Sessions |-> 0]
    /\ newest = 0 /\ faults = 0

\* What an operation works on and leaves behind.
Here == [lease |-> lease, guardian |-> guardian, pressed |-> pressed,
         forgotten |-> forgotten, faults |-> faults]

\* The keys a guarded frame may press.
Pressable(x) == IF x.lease.open THEN x.lease.guarded ELSE {}

\* What is astray (history) stays so while it is down, until both the executor and the
\* Guardian hold it, and while a guarded frame may press it behind the Guardian's back.
\* Only Displaced, PulseFails and Stray add to it.
Astray(x) ==
    (x.forgotten \cap (x.pressed \ (x.lease.held \cap ReleaseHolds(x.guardian))))
      \cup (x.forgotten \cap (Pressable(x) \ ReleaseHolds(x.guardian)))

Becomes(x) ==
    /\ lease' = x.lease
    /\ guardian' = x.guardian
    /\ pressed' = x.pressed
    /\ forgotten' = Astray(x)
    /\ faults' = x.faults
    /\ x.faults <= MaxFaults

-------------------------------------------------------------------------------
(***************************************************************************)
(* Releasing                                                               *)
(***************************************************************************)

\* How the two calls of a release go: the keys the platform fails to let go of, and
\* whether the Guardian hears the call and answers it.  A platform that fails on a key
\* that is up has the effect of an answer that is lost.
Releases(x) ==
    [stuck : SUBSET (x.pressed \cap Codes), guardian : {"done", "lost", "unanswered"}]

Clean == [stuck |-> {}, guardian |-> "done"]

\* The reason of a release is not followed here.
LetGo(m) == Released(m, m.reason)

\* Mutant: the Guardian is disarmed once the executor has tried to let go.
ReleaseAllDisarms(x, r) ==
    LET quiet == [x.lease EXCEPT !.open = FALSE, !.expires = Unset]
        down  == x.pressed \ (Codes \ r.stuck)
    IN  [x EXCEPT !.lease = quiet, !.guardian = LetGo(x.guardian), !.pressed = down,
                  !.faults = x.faults + (IF r = Clean THEN 0 ELSE 1)]

\* Mutant: the executor drops its holds though it could not let go of all of them.
ReleaseAllForgets(x, r) ==
    LET heard == r.guardian # "lost"
        down  == (x.pressed \ (Codes \ r.stuck))
                   \ (IF heard THEN ReleaseHolds(x.guardian) ELSE {})
    IN  [x EXCEPT !.lease = [@ EXCEPT !.open = FALSE, !.expires = Unset,
                                      !.held = {}, !.guarded = {}],
                  !.guardian = IF heard THEN LetGo(@) ELSE @, !.pressed = down,
                  !.faults = @ + (IF r = Clean THEN 0 ELSE 1)]

\* release_all.  The default emergency_release releases scan codes only; the
\* Guardian releases the holds it knows of, buttons too.
ReleaseAll(x, r) ==
    LET heard == r.guardian # "lost"
        down  == (x.pressed \ (Codes \ r.stuck))
                   \ (IF heard THEN ReleaseHolds(x.guardian) ELSE {})
        quiet == [x.lease EXCEPT !.open = FALSE, !.expires = Unset]
    IN  [lease     |-> IF r = Clean THEN [quiet EXCEPT !.held = {}, !.guarded = {}]
                                    ELSE quiet,
         guardian  |-> IF heard THEN LetGo(x.guardian) ELSE x.guardian,
         pressed   |-> down,
         forgotten |-> x.forgotten,
         faults    |-> x.faults + (IF r = Clean THEN 0 ELSE 1)]

ReleasesAfter(x) == IF x.faults < MaxFaults THEN Releases(x) ELSE {Clean}

\* fail_closed: an operation that fails releases everything.
FailClosed(x) ==
    \E r \in ReleasesAfter(x) : Becomes(ReleaseAll(x, r))

-------------------------------------------------------------------------------
(***************************************************************************)
(* Holding what a lease asks for                                           *)
(***************************************************************************)

NextGuardianSequence(x) == x.lease.guardianSequence + 1

Intended(x, holds) ==
    [x EXCEPT !.guardian = RegisterIntent(x.guardian, NextGuardianSequence(x), holds)]

\* A commit replaces the holds of the Guardian, whatever is down.
Committed(x) ==
    [x EXCEPT !.guardian = CommitHolds(x.guardian, NextGuardianSequence(x))]

IntentAccepted(x) == AcceptsIntent(x.guardian, NextGuardianSequence(x))

\* apply_hold_difference: keys that are no longer asked for go up, then the others
\* go down; the call that fails leaves the rest as it was.
SomeMoved(x, holds, up, down) ==
    [x EXCEPT !.pressed = (@ \ up) \cup down,
              !.lease.held = @ \cup holds]

Moved(x, holds) ==
    [x EXCEPT !.pressed = (@ \ (x.lease.held \ holds)) \cup (holds \ x.lease.held),
              !.lease.held = holds, !.lease.guarded = {}]

\* Where a lease may stop with a fault: before the Guardian has registered its
\* holds, when the answer to that is lost, at a key, and at either end of the commit.
Stopped(x, holds, stop, up, down) ==
    [CASE stop = "before"   -> x
       [] stop = "intent"   -> Intended(x, holds)
       [] stop = "keys"     -> SomeMoved(Intended(x, holds), holds, up, down)
       [] stop = "commit"   -> Moved(Intended(x, holds), holds)
       [] stop = "answered" -> Committed(Moved(Intended(x, holds), holds))
     EXCEPT !.faults = @ + 1]

Stops == {"before", "intent", "keys", "commit", "answered"}

\* The keys moved before the one that fails.
PartialMoves(x, holds) ==
    {m \in (SUBSET (x.lease.held \ holds)) \X (SUBSET (holds \ x.lease.held)) :
        m[2] = {} \/ m[1] = x.lease.held \ holds}

\* Mutant: the sequence of the lease that was applied last is accepted again.
AdvancesOrRepeats(x, q) == q > 0 /\ q >= x.lease.sequence

Advances(x, q) == q > 0 /\ q > x.lease.sequence

\* Leases of another session than the active one start with a release and a new
\* sequence; the active session stays until a lease of the new one is accepted.
SessionChanges(s) == lease.session \notin {0, s}

Restarted(r) == [ReleaseAll(Here, r) EXCEPT !.lease.sequence = 0]

Started(s) == IF SessionChanges(s) THEN Restarted(Clean) ELSE Here

Refused(s, q, e) ==
    \/ ~Permitted(s) \/ e = 0
    \/ ~Advances(Started(s), q)
    \/ ~IntentAccepted(Started(s))

\* A lease that is refused releases everything, whatever holds it asks for.
RefuseLease(s, q, e) ==
    /\ \/ (~Permitted(s) \/ e = 0) /\ FailClosed(Here)
       \/ /\ Permitted(s) /\ e > 0 /\ Refused(s, q, e)
          /\ FailClosed(Started(s))
    /\ UNCHANGED applied

\* The release at a change of the session fails before the lease is looked at further.
ChangeFails(s, e) ==
    /\ Permitted(s) /\ e > 0 /\ SessionChanges(s)
    /\ \E r \in ReleasesAfter(Here) \ {Clean} : FailClosed(ReleaseAll(Here, r))
    /\ UNCHANGED applied

\* The executor with the lease in force.
InForce(x, s, q, e) ==
    [x EXCEPT !.lease.session = s, !.lease.sequence = q, !.lease.expires = e,
              !.lease.guardianSequence = NextGuardianSequence(x),
              !.lease.open = TRUE]

Applied(s, q, e, holds) ==
    InForce(Committed(Moved(Intended(Started(s), holds), holds)), s, q, e)

\* A pulse that fails may leave its key down; no pulse is registered with the Guardian.
PulseFails(x, p) ==
    [x EXCEPT !.pressed = @ \cup {p}, !.faults = @ + 1,
              !.forgotten = @ \cup ({p} \ x.lease.held)]

Pulsed(x, p) == [x EXCEPT !.pressed = @ \ {p}]

\* apply_physical_frame (apply_lease is the frame without a pulse and a wheel): a pulse
\* is the only side effect of its frame.
ApplyPhysicalFrame(s, q, e, holds, pulse) ==
    /\ ~Refused(s, q, e)
    /\ \/ /\ faults < MaxFaults
          /\ \E stop \in Stops, m \in PartialMoves(Started(s), holds) :
               FailClosed(Stopped(Started(s), holds, stop, m[1], m[2]))
          /\ UNCHANGED applied
       \/ /\ NextGuardianSequence(Here) < MaxGuardian
          /\ LET x == Applied(s, q, e, holds)
             IN  \/ pulse = None /\ Becomes(x)
                 \/ pulse = None /\ FailClosed([x EXCEPT !.faults = @ + 1])
                 \/ pulse # None /\ Becomes(Pulsed(x, pulse))
                 \/ pulse # None /\ FailClosed(PulseFails(x, pulse))
          /\ applied' = [applied EXCEPT ![s] = q]

-------------------------------------------------------------------------------
(***************************************************************************)
(* Guarded frames: the release set is committed once, and key transitions  *)
(* inside it need no further call to the Guardian                          *)
(***************************************************************************)

\* The holds are registered and committed without a key being moved.
Registered(x, holds) == Committed(Intended(x, holds))

RegisterStops(x, holds) ==
    {x, Intended(x, holds), Registered(x, holds)}

ArmedAlready(s) ==
    LET x == Started(s).lease IN x.open \/ x.held # {} \/ x.guarded # {}

ArmGuardedPhysicalFrame(s, q, e, holds) ==
    /\ ~Refused(s, q, e)
    /\ \/ ArmedAlready(s) /\ FailClosed(Started(s)) /\ UNCHANGED applied
       \/ /\ ~ArmedAlready(s)
          /\ \E x \in RegisterStops(Started(s), holds) :
               FailClosed([x EXCEPT !.faults = @ + 1])
          /\ UNCHANGED applied
       \/ /\ ~ArmedAlready(s)
          /\ NextGuardianSequence(Here) < MaxGuardian
          /\ Becomes([InForce(Registered(Started(s), holds), s, q, e)
                        EXCEPT !.lease.guarded = holds])
          /\ applied' = [applied EXCEPT ![s] = q]

GuardedGate(s) ==
    /\ lease.guarded # {} /\ lease.session = s /\ lease.expires > 0
    /\ lease.open /\ Permitted(s)

RenewGuardedPhysicalFrame(s, q, e) ==
    \/ /\ \/ ~GuardedGate(s) \/ q <= lease.sequence \/ e = 0
          \/ ~AcceptsHeartbeat(guardian, lease.guardianSequence)
       /\ FailClosed(Here)
       /\ UNCHANGED applied
    \/ FailClosed([Here EXCEPT !.faults = @ + 1]) /\ UNCHANGED applied
    \/ /\ GuardedGate(s) /\ q > lease.sequence /\ e > 0
       /\ AcceptsHeartbeat(guardian, lease.guardianSequence)
       /\ Becomes([Here EXCEPT !.lease.sequence = q, !.lease.expires = e])
       /\ applied' = [applied EXCEPT ![s] = q]

WithinGuarded(holds) == holds \subseteq lease.guarded

Pressing(up, down) == [Here EXCEPT !.pressed = (@ \ up) \cup down]

\* The holds are replaced once every key has moved: those that went down before the one
\* that fails are not among them.
Stray(up, down) ==
    [Pressing(up, down) EXCEPT !.forgotten = @ \cup down, !.faults = @ + 1]

ApplyGuardedPhysicalFrame(s, holds) ==
    /\ \/ ~(GuardedGate(s) /\ WithinGuarded(holds)) /\ FailClosed(Here)
       \/ /\ GuardedGate(s) /\ WithinGuarded(holds)
          /\ \/ Becomes([Pressing(lease.held \ holds, holds \ lease.held) EXCEPT
                           !.lease.held = holds])
             \/ \E m \in PartialMoves(Here, holds) :
                  FailClosed(Stray(m[1], m[2]))
    /\ UNCHANGED applied

-------------------------------------------------------------------------------
(***************************************************************************)
(* Pulses, relative mouse moves and clicks                                 *)
(***************************************************************************)

OpenGate(s) == lease.open /\ Permitted(s)

ExecutePulse(s, p) ==
    /\ \/ ~OpenGate(s) /\ FailClosed(Here)
       \/ OpenGate(s) /\ (Becomes(Pulsed(Here, p)) \/ FailClosed(PulseFails(Here, p)))
    /\ UNCHANGED applied

\* A move beyond the limit of the profile fails like one the platform refuses.
ExecuteRelativeMouse(s) ==
    /\ \/ ~OpenGate(s) /\ FailClosed(Here)
       \/ OpenGate(s) /\ FailClosed([Here EXCEPT !.faults = @ + 1])
    /\ UNCHANGED applied

\* A click has the Guardian commit other holds than those the executor has, though what
\* it holds stays down, and other ones than the release set it may press.
Displaced(x) ==
    [x EXCEPT !.forgotten = @ \cup (x.pressed \cap x.lease.held) \cup x.lease.guarded]

ClickRegistered(x, holds) == Committed(Displaced(Intended(x, holds)))

ClickStops(x, holds) == {x, Intended(x, holds), ClickRegistered(x, holds)}

\* The executor with only the button in its holds.
Clicking(b) ==
    [ClickRegistered(Here, {b}) EXCEPT
       !.lease.guardianSequence = @ + 1, !.lease.held = {b}]

\* The button has gone down and up.
Clicked(b) == [Clicking(b) EXCEPT !.pressed = @ \ {b}]

AcceptsClick(s) == OpenGate(s) /\ lease.expires >= ClickHold /\ IntentAccepted(Here)

ExecuteClientPoint(s, b) ==
    /\ \/ ~AcceptsClick(s) /\ FailClosed(Here)
       \/ /\ AcceptsClick(s)
          /\ \/ \E x \in ClickStops(Here, {b}) :
                  FailClosed([x EXCEPT !.faults = @ + 1])
             \/ \E down \in SUBSET {b} :
                  FailClosed([Clicking(b) EXCEPT !.pressed = (@ \ {b}) \cup down,
                                                 !.faults = @ + 1])
             \/ \E x \in ClickStops(Clicked(b), {}) :
                  FailClosed([x EXCEPT !.faults = @ + 1])
             \/ /\ NextGuardianSequence(Clicked(b)) < MaxGuardian
                /\ Becomes([ClickRegistered(Clicked(b), {}) EXCEPT
                              !.lease.guardianSequence = @ + 1, !.lease.held = {}])
    /\ UNCHANGED applied

-------------------------------------------------------------------------------
(***************************************************************************)
(* Time, the tick and the Guardian's own deadline                          *)
(***************************************************************************)

Expired == lease.expires = 0

\* Mutant: the deadline of a lease is left to the Guardian, whose heartbeats go on.
TickHeartbeat ==
    /\ lease.open
    /\ ~AcceptsHeartbeat(guardian, lease.guardianSequence) \/ faults < MaxFaults
    /\ \E r \in ReleasesAfter(Here) : Becomes(ReleaseAll(Here, r))
    /\ UNCHANGED <<machineVars, applied, newest>>

Tick ==
    /\ \/ Expired
       \/ lease.open /\ ~AcceptsHeartbeat(guardian, lease.guardianSequence)
       \/ lease.open /\ faults < MaxFaults
    /\ \E r \in ReleasesAfter(Here) : Becomes(ReleaseAll(Here, r))
    /\ UNCHANGED <<machineVars, applied, newest>>

\* The caller carries out what the machine has answered.
PerformEffects ==
    /\ owed
    /\ \E r \in ReleasesAfter(Here) : Becomes(ReleaseAll(Here, r))
    /\ owed' = FALSE
    /\ UNCHANGED <<machine, target, applied, newest>>

TimePasses ==
    /\ machine' = [machine EXCEPT !.armed = Left(@), !.authorized = Left(@)]
    /\ lease' = [lease EXCEPT !.expires = Left(@)]
    /\ UNCHANGED <<target, owed, guardian, pressed, forgotten, applied, newest, faults>>

\* No heartbeat comes while the gate is closed, and the Guardian releases what it knows
\* of at its deadline.  With an open gate it also stops the Agent (module Supervision).
GuardianExpires ==
    /\ ReleaseHolds(guardian) # {}
    /\ ~lease.open
    /\ guardian' = LetGo(guardian)
    /\ pressed' = pressed \ ReleaseHolds(guardian)
    /\ forgotten' = forgotten \ ReleaseHolds(guardian)
    /\ UNCHANGED <<machineVars, lease, applied, newest, faults>>

MachineStep ==
    \/ StartCompleted
    \/ \E p \in Profiles : ActivateProfile(p)
    \/ \E w \in Windows : LockTarget(w)
    \/ PreflightPassed
    \/ EnterDryRun
    \/ \E t \in 1 .. MaxTime : RequestArm(t)
    \/ BeginControl
    \/ \E t \in 1 .. MaxTime : RenewControlAuthorization(t)
    \/ ControlDisconnected
    \/ FailSafe
    \/ ControlEnds
    \/ TargetChanges

\* The sequence and the term of a lease; without a permit all are refused alike.
Offers(s) ==
    IF Permitted(s) THEN (0 .. MaxSequence) \X (0 .. MaxLease) ELSE {<<1, 1>>}

ExecutorStep ==
    \/ \E s \in Sessions : \E offer \in Offers(s) :
         LET q == offer[1]  e == offer[2] IN
         \/ RefuseLease(s, q, e)
         \/ ChangeFails(s, e)
         \/ \E holds \in SUBSET Keys : ApplyPhysicalFrame(s, q, e, holds, None)
         \/ \E p \in PulseKeys : ApplyPhysicalFrame(s, q, e, {}, p)
         \/ \E holds \in SUBSET HoldKeys \ {{}} : ArmGuardedPhysicalFrame(s, q, e, holds)
         \/ RenewGuardedPhysicalFrame(s, q, e)
    \/ \E s \in Sessions :
         \/ \E holds \in SUBSET HoldKeys : ApplyGuardedPhysicalFrame(s, holds)
         \/ \E p \in PulseKeys : ExecutePulse(s, p)
         \/ ExecuteRelativeMouse(s)
         \/ \E b \in Buttons : ExecuteClientPoint(s, b)

Next ==
    \/ MachineStep /\ UNCHANGED <<lease, guardian, pressed, forgotten, applied, newest, faults>>
    \/ \E s \in Sessions :
         /\ ControlConnected(s, newest)
         /\ newest' = s
         /\ UNCHANGED <<lease, guardian, pressed, forgotten, applied, faults>>
    \/ ExecutorStep /\ UNCHANGED <<machineVars, newest>>
    \/ Tick
    \/ PerformEffects
    \/ TimePasses
    \/ GuardianExpires

Spec == Init /\ [][Next]_vars

\* The executor is ticked and the Guardian checks its deadline.
FairSpec == Spec /\ WF_vars(Tick) /\ WF_vars(GuardianExpires)

-------------------------------------------------------------------------------
(***************************************************************************)
(* Properties                                                              *)
(***************************************************************************)

\* The variables have the values they should have.
TypeOK ==
    /\ machine \in Machines /\ target \in Windows /\ owed \in BOOLEAN
    /\ lease \in Leases
    /\ guardian \in Monitors
    /\ pressed \subseteq Keys /\ forgotten \subseteq Keys
    /\ applied \in [Sessions -> 0 .. MaxSequence]
    /\ newest \in Sessions \cup {0} /\ faults \in 0 .. MaxFaults

\* Whatever calls failed and in whatever order frames, clicks and releases came, a key
\* that is down is one the Guardian will release, but for the three gaps the code leaves:
\* what a click takes from the Guardian while it is held or guarded
\* (execute_client_point), a pulse whose release fails (execute_pulse), and a key that a
\* guarded frame pressed before it failed (apply_guarded_physical_frame replaces the
\* holds at its end), which the commit of a later frame drops.
HoldsGuarded == pressed \subseteq ReleaseHolds(guardian) \cup forgotten

\* A machine that may issue a capability was walked all the way for the session, the
\* profile and the window it has, and the window is one the profile admits.
ControlEarned ==
    machine.current \in {"Armed", "Controlling"} =>
        /\ machine.connected /\ machine.session = newest
        /\ <<machine.profile, machine.binding>> \in Fits

\* A frame is applied once: neither a repeated nor an older one, of any session, is
\* accepted after it, so that only a new sequence makes keys stay down longer (the
\* sequence checks of apply_lease, arm and renew, and the change of sessions).
AppliedOnce ==
    [][ /\ \A s \in Sessions : applied'[s] # applied[s] => applied'[s] > applied[s]
        /\ lease'.expires > lease.expires => applied' # applied ]_vars

\* Once a lease has run out or the gate is closed, whatever is down goes up in the end,
\* though a release that fails is asked for by no tick and no lease again: what stays
\* down is in one of the three gaps and unknown to the Guardian (tick, release_all).
LeftoversReleased ==
    (lease.expires < 1 /\ pressed # {}) ~>
      (lease.expires > 0 \/ pressed \subseteq forgotten \ ReleaseHolds(guardian))

-------------------------------------------------------------------------------
(***************************************************************************)
(* The inductive invariant                                                 *)
(***************************************************************************)

\* A machine that is connected has the newest session, and from LockTarget on a window
\* that its profile admits.
WalkInv ==
    /\ machine.current \notin {"Starting", "Disconnected", "FailedSafe"} =>
          machine.connected /\ machine.session = newest
    /\ machine.current \in {"TargetLocked", "PreflightPassed", "DryRun",
                            "Armed", "Controlling"} =>
          <<machine.profile, machine.binding>> \in Fits

\* Of the newest session no sequence is applied that the executor has not kept; none is
\* applied of a session to come.
SequenceInv ==
    /\ lease.session <= newest
    /\ \A s \in Sessions :
         applied[s] # 0 =>
            /\ s <= newest
            /\ s = newest => lease.session = s /\ applied[s] <= lease.sequence

\* An open gate leaves the bound of the Guardian's sequence room for a click.
RoomInv == lease.open => lease.guardianSequence < MaxGuardian

\* What is down and not astray is among the holds of the executor, so that the next
\* frame lets go of it or keeps it (apply_hold_difference).
HoldsKnown == pressed \subseteq lease.held \cup forgotten

\* While the gate is open, whatever a guarded frame may press or the executor believes
\* down is known to the Guardian, unless a click has taken it.
GateInv ==
    lease.open => /\ lease.guarded \subseteq ReleaseHolds(guardian) \cup forgotten
                  /\ lease.held \subseteq ReleaseHolds(guardian) \cup lease.guarded

IInv ==
    /\ TypeOK /\ HoldsGuarded /\ HoldsKnown /\ GateInv
    /\ WalkInv /\ SequenceInv /\ RoomInv

===============================================================================
