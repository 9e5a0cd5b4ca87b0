----------------------------- MODULE ManagedGame ------------------------------
(***************************************************************************)
(* Closing a managed game (bins/fairypam-agent/src/managed_game.rs and the *)
(* handlers of execution.rs and runtime.rs that call it).                  *)
(*                                                                         *)
(* The hub configures for each game whether the Agent closes it once       *)
(* nobody has touched it for a while, and may have it closed at once.  The *)
(* state is written to a file after every change.  A close is written down *)
(* before it starts, because it may take seconds; the lock of the executor *)
(* is held all the time, and only the end of the process can interrupt it. *)
(* An idle close leaves a receipt, reported once on every connection until *)
(* the hub acknowledges it.                                                *)
(***************************************************************************)
EXTENDS Naturals, FiniteSets

CONSTANTS
    Games,      \* game ids
    Policies,   \* what the hub may configure
    Profile,    \* the profile of each game
    Profiles,   \* the profiles of all the games that are installed
    Nothing,    \* no policy, receipt, snapshot, profile or game
    Failing,    \* the operations whose write to the disk may fail
    MaxDrops    \* how often the connection or the process may end

VARIABLES
    state,    \* PersistedState in memory
    disk,     \* and in the file, Nothing without one
    target,   \* the profile of the executor's binding, the window it would close
    bound,    \* bound_profile_id
    active,   \* ActiveState, the policy of the game the hub has had started
    report,   \* pending_close_report
    busy,     \* who is closing the target
    link,     \* the connection, with the receipts that are on their way to the hub or
              \* come back acknowledged
    closed,   \* the identity closed last for idleness, until the hub acknowledges the
              \* receipt, that of a later close replaces it, or a close of another
              \* identity takes the gate
    failed,   \* the identity whose close has failed, until another takes the gate
    drops

vars == <<state, disk, target, bound, active, report, busy, link,
          closed, failed, drops>>

\* A policy without the task that occupies its game.
Freed(p) == IF p = Nothing THEN p ELSE [p EXCEPT !.occupied = FALSE]

Stored == Policies \cup {Freed(p) : p \in Policies}

Identities == {[session |-> p.session, version |-> p.version] : p \in Policies}

Identity(p) == [session |-> p.session, version |-> p.version]

Receipts == [id : Identities, failed : BOOLEAN]

States ==
    [policies : [Games -> Stored \cup {Nothing}],
     receipt : Receipts \cup {Nothing},
     closing : Receipts \cup {Nothing}]

Actives == [policy : Stored, idle : BOOLEAN, closing : BOOLEAN, failed : BOOLEAN]

ASSUME ManagedGameAssumption ==
    /\ Policies \subseteq [game : Games, session : Nat, version : Nat \ {0},
                           enabled : BOOLEAN, occupied : BOOLEAN]
    /\ Profile \in [Games -> Profiles]
    /\ Nothing \notin Games /\ Nothing \notin Profiles /\ Nothing \notin Stored
    /\ Nothing \notin Identities /\ Nothing \notin Receipts /\ Nothing \notin Actives
    /\ Nothing \notin States
    /\ MaxDrops \in Nat

NewState ==
    [policies |-> [g \in Games |-> Nothing], receipt |-> Nothing, closing |-> Nothing]

NoLink == [up |-> FALSE, acks |-> {}]

Init ==
    /\ state = NewState /\ disk = Nothing
    /\ target = Nothing /\ bound = Nothing /\ active = Nothing /\ report = FALSE
    /\ busy = "no"
    /\ link = NoLink
    /\ closed = Nothing /\ failed = Nothing /\ drops = 0

\* is_closing
Closing == active # Nothing /\ active.closing

\* Writing the state, which an operation may fail to do.
Persisted(op) == disk' = state'

NotPersisted(op) == op \in Failing /\ UNCHANGED disk

\* closing_state and the new ActiveState of a policy.
Activated(s, p) ==
    LET here == s.closing # Nothing /\ s.closing.id = Identity(p)
    IN  [policy |-> p, idle |-> FALSE, closing |-> here,
         failed |-> here /\ s.closing.failed]

-------------------------------------------------------------------------------
(***************************************************************************)
(* Configuration and targets                                               *)
(***************************************************************************)

ActiveFor(s, p) == IF bound = Profile[p.game] THEN Activated(s, p) ELSE Nothing

\* The same version again, which must have the same content.
Current(p) == state.policies[p.game] = p

Acceptable(p) ==
    /\ state.closing # Nothing => state.closing.id = Identity(p)
    /\ LET old == state.policies[p.game]
       IN  old # Nothing => p.version > old.version \/ p = old

\* configure: what is refused changes nothing.  A failed write leaves the policy in
\* memory and the active state as it was.
Configure(p) ==
    /\ link.up /\ busy = "no"
    /\ Acceptable(p)
    /\ IF Current(p)
         THEN /\ active' = IF active = Nothing /\ bound = Profile[p.game]
                             THEN Activated(state, p) ELSE active
              /\ UNCHANGED <<state, disk>>
         ELSE /\ state' = [state EXCEPT !.policies[p.game] = p]
              /\ \/ /\ Persisted("configure")
                    /\ active' = ActiveFor(state', p)
                 \/ NotPersisted("configure") /\ UNCHANGED active
    /\ UNCHANGED <<target, bound, report, busy, link, closed, failed, drops>>

\* bind_target: the policy of the profile, if exactly one game has it.
BoundTo(profile) ==
    LET matching == {g \in Games : state.policies[g] # Nothing /\ Profile[g] = profile}
    IN  IF Cardinality(matching) = 1
          THEN Activated(state, state.policies[CHOOSE g \in matching : TRUE])
          ELSE Nothing

\* mark_activity; the sequence it bumps is not followed, and a failed write is ignored.
Touch(a) ==
    IF a # Nothing /\ a.policy.enabled /\ ~a.policy.occupied /\ ~a.closing
      THEN disk' = state \/ ("activity" \in Failing /\ UNCHANGED disk)
      ELSE UNCHANGED disk

\* LaunchTarget of the hub, or StartTaskTarget inside a task.
LaunchTarget(g) ==
    /\ link.up /\ busy = "no"
    /\ ~Closing
    /\ target' = Profile[g]
    /\ bound' = Profile[g]
    /\ active' = BoundTo(Profile[g])
    /\ Touch(active')
    /\ UNCHANGED <<state, report, busy, link, closed, failed, drops>>

\* A launch by the local user tells the lifecycle nothing.
LaunchLocally(p) ==
    /\ busy = "no"
    /\ ~Closing
    /\ target' = p
    /\ UNCHANGED <<state, disk, bound, active, report, busy, link, closed, failed, drops>>

\* StopSession lets go of the target; the active policy stays.
StopSession ==
    /\ link.up /\ busy = "no"
    /\ target' = Nothing
    /\ UNCHANGED <<state, disk, bound, active, report, busy, link, closed, failed, drops>>

Activity ==
    /\ busy = "no" /\ target # Nothing
    /\ active # Nothing /\ ~active.closing
    /\ active.policy.enabled /\ ~active.policy.occupied
    /\ active' = [active EXCEPT !.idle = FALSE]
    /\ Touch(active)
    /\ UNCHANGED <<state, target, bound, report, busy, link, closed, failed, drops>>

\* The local user touches the bound window.
LocalInput == Activity

\* Commands on the bound target, which the closing gate refuses.
Refreshing == {"StartCapture", "CaptureFrame", "InputFrame"}

CommandApplied(kind) == kind \in Refreshing /\ link.up /\ Activity

IdleTimePasses ==
    /\ active # Nothing /\ ~active.idle
    /\ active' = [active EXCEPT !.idle = TRUE]
    /\ UNCHANGED <<state, disk, target, bound, report, busy, link, closed,
                   failed, drops>>

-------------------------------------------------------------------------------
(***************************************************************************)
(* Closing                                                                 *)
(***************************************************************************)

\* Mutant: a close that has failed does not hold off the next one.
DueAfterFailure ==
    /\ active # Nothing
    /\ active.policy.enabled /\ ~active.policy.occupied
    /\ active.idle /\ (~active.closing \/ active.failed)

Due ==
    /\ active # Nothing
    /\ active.policy.enabled /\ ~active.policy.occupied
    /\ ~active.closing /\ ~active.failed
    /\ active.idle

\* Mutant: the snapshot is left to the end of the close.
BeginCloseUnrecorded(who) ==
    /\ active' = [active EXCEPT !.closing = TRUE, !.failed = FALSE]
    /\ UNCHANGED <<state, disk>>
    /\ busy' = who
    /\ UNCHANGED <<target, bound, report, link, closed, failed, drops>>

\* History: the gate has room for one identity, and what it said of another is lost.
Displaced(id) == state.closing # Nothing /\ state.closing.id = id /\ id # Identity(active.policy)

\* begin_close: when the write fails the close does not start, and the closing state
\* stays in memory.
BeginClose(who) ==
    /\ active' = [active EXCEPT !.closing = TRUE, !.failed = FALSE]
    /\ state' = [state EXCEPT !.closing = [id |-> Identity(active.policy), failed |-> FALSE]]
    /\ \/ Persisted("begin") /\ busy' = who
       \/ NotPersisted("begin") /\ busy' = "no"
    /\ closed' = IF Displaced(closed) THEN Nothing ELSE closed
    /\ failed' = IF Displaced(failed) THEN Nothing ELSE failed
    /\ UNCHANGED <<target, bound, report, link, drops>>

\* close_idle_game_if_due, every 250 ms.
IdleClose == busy = "no" /\ Due /\ BeginClose("idle")

\* close_current_target: whatever window is bound is closed, and none is a success.
TargetGone == target' = Nothing

\* execute_v3_close_target; the local CloseTarget names no identity.
CloseTarget(id) ==
    /\ link.up /\ busy = "no"
    /\ active # Nothing /\ Identity(active.policy) = id
    /\ BeginClose("manual")

CloseLocally == busy = "no" /\ active # Nothing /\ BeginClose("manual")

\* Without an identity the bound window is closed and nothing is written.
CloseUnmanaged ==
    /\ busy = "no" /\ active = Nothing
    /\ TargetGone
    /\ UNCHANGED <<state, disk, bound, active, report, busy, link, closed, failed, drops>>

\* The platform has closed the window, or killed the process; the policy is gone.
CloseSucceeds ==
    LET id   == Identity(active.policy)
        idle == busy = "idle"
        rest == [state EXCEPT !.policies[active.policy.game] = Nothing, !.closing = Nothing]
    IN  /\ busy # "no"
        /\ state' = IF idle THEN [rest EXCEPT !.receipt = [id |-> id, failed |-> FALSE]]
                            ELSE rest
        /\ Persisted("receipt") \/ NotPersisted("receipt")
        /\ report' = (report \/ idle)
        /\ closed' = IF idle THEN id ELSE IF closed = id THEN Nothing ELSE closed
        /\ failed' = Nothing
        /\ TargetGone
        /\ active' = Nothing /\ bound' = Nothing /\ busy' = "no"
        /\ UNCHANGED <<link, drops>>

CloseFails ==
    LET id == Identity(active.policy)
        snapshot == [id |-> id, failed |-> TRUE]
    IN  /\ busy # "no"
        /\ state' = IF busy = "idle" THEN [state EXCEPT !.closing = snapshot, !.receipt = snapshot]
                                     ELSE [state EXCEPT !.closing = snapshot]
        /\ Persisted("receipt") \/ NotPersisted("receipt")
        /\ report' = (report \/ busy = "idle")
        /\ active' = [active EXCEPT !.closing = TRUE, !.failed = TRUE]
        /\ failed' = id
        /\ closed' = IF busy = "idle" THEN Nothing ELSE closed
        /\ busy' = "no"
        /\ UNCHANGED <<target, bound, link, drops>>

-------------------------------------------------------------------------------
(***************************************************************************)
(* Reporting                                                               *)
(***************************************************************************)

\* Mutant: only the connection on which the game was closed reports it.
ConnectAnew ==
    /\ ~link.up
    /\ link' = [NoLink EXCEPT !.up = TRUE]
    /\ UNCHANGED <<state, disk, target, bound, active, report, busy, closed, failed, drops>>

\* The control session is established: what is pending is reported again.
Connect ==
    /\ ~link.up
    /\ link' = [NoLink EXCEPT !.up = TRUE]
    /\ report' = (state.receipt # Nothing)
    /\ UNCHANGED <<state, disk, target, bound, active, busy, closed, failed, drops>>

\* tick_managed_game_close.
ReportClose ==
    /\ busy = "no" /\ link.up /\ report /\ state.receipt # Nothing
    /\ link' = [link EXCEPT !.acks = @ \cup {state.receipt}]
    /\ report' = FALSE
    /\ UNCHANGED <<state, disk, target, bound, active, busy, closed, failed, drops>>

\* The connection ends: what was on its way is lost, the task is over, and
\* release_task_occupancy frees the policies, in memory and in the active state only
\* once they are written.
SessionEnds ==
    /\ link' = NoLink
    /\ \/ /\ \A g \in Games : Freed(state.policies[g]) = state.policies[g]
          /\ UNCHANGED <<state, disk, active>>
       \/ /\ state' = [state EXCEPT !.policies = [g \in Games |-> Freed(state.policies[g])]]
          /\ state' # state
          /\ Persisted("release")
          /\ active' = IF active = Nothing THEN Nothing
                       ELSE [active EXCEPT !.policy = Freed(active.policy)]
       \/ /\ \E g \in Games : Freed(state.policies[g]) # state.policies[g]
          /\ NotPersisted("release")
          /\ UNCHANGED <<state, active>>

Disconnect ==
    /\ link.up /\ busy = "no" /\ drops < MaxDrops
    /\ drops' = drops + 1
    /\ SessionEnds
    /\ UNCHANGED <<target, bound, report, busy, closed, failed>>

\* acknowledge_close: an acknowledgement of something else ends the session.
Acknowledge(r) ==
    /\ busy = "no" /\ r \in link.acks
    /\ IF r = state.receipt
         THEN /\ state' = [state EXCEPT !.receipt = Nothing]
              /\ report' = FALSE
              /\ closed' = IF closed = r.id /\ ~r.failed THEN Nothing ELSE closed
              /\ \/ Persisted("ack") /\ link' = [link EXCEPT !.acks = @ \ {r}]
                    /\ UNCHANGED <<active>>
                 \/ "ack" \in Failing /\ UNCHANGED <<disk, active>> /\ link' = NoLink
         ELSE SessionEnds /\ UNCHANGED <<report, closed>>
    /\ UNCHANGED <<target, bound, busy, failed, drops>>

\* The process ends and starts again from the file.
Crash ==
    /\ drops < MaxDrops
    /\ drops' = drops + 1
    /\ state' = IF disk = Nothing THEN NewState ELSE disk
    /\ report' = (state'.receipt # Nothing)
    /\ target' = Nothing /\ bound' = Nothing /\ active' = Nothing /\ busy' = "no"
    /\ link' = NoLink
    /\ closed' \in IF busy = "idle" THEN {closed, Identity(active.policy)} ELSE {closed}
    /\ UNCHANGED <<disk, failed>>

Next ==
    \/ \E p \in Policies : Configure(p)
    \/ \E g \in Games : LaunchTarget(g)
    \/ \E p \in Profiles : LaunchLocally(p)
    \/ StopSession
    \/ LocalInput
    \/ \E kind \in Refreshing : CommandApplied(kind)
    \/ IdleTimePasses
    \/ IdleClose
    \/ \E id \in Identities : CloseTarget(id)
    \/ CloseLocally
    \/ CloseUnmanaged
    \/ CloseSucceeds
    \/ CloseFails
    \/ Connect
    \/ ReportClose
    \/ Disconnect
    \/ \E r \in link.acks : Acknowledge(r)
    \/ Crash

Spec == Init /\ [][Next]_vars

\* The connection is tried again, the platform ends a close, the hub answers what it
\* receives, the tick and the commands get the executor's lock, which tokio hands
\* out in order, between one close and the next.
Fairness ==
    /\ WF_vars(Connect) /\ WF_vars(CloseSucceeds \/ CloseFails)
    /\ SF_vars(ReportClose) /\ SF_vars(\E r \in link.acks : Acknowledge(r))

FairSpec == Spec /\ Fairness

-------------------------------------------------------------------------------
(***************************************************************************)
(* Properties                                                              *)
(***************************************************************************)

\* The variables have the values they should have.
TypeOK ==
    /\ target \in Profiles \cup {Nothing}
    /\ state \in States /\ disk \in States \cup {Nothing}
    /\ bound \in {Profile[g] : g \in Games} \cup {Nothing}
    /\ active \in Actives \cup {Nothing}
    /\ report \in BOOLEAN
    /\ busy \in {"no", "idle", "manual"}
    /\ link \in [up : BOOLEAN, acks : SUBSET Receipts]
    /\ {closed, failed} \subseteq Identities \cup {Nothing}
    /\ drops \in 0 .. MaxDrops

\* A game that was closed for idleness is not forgotten before the hub knows: whatever
\* write failed and wherever the process ended, a receipt or the closing gate names it
\* (begin_close writes before the platform acts), until a close of another identity
\* takes the gate.  A close that has failed is not tried again for idleness, not even by
\* a new process (due, closing_state), with the same exception.
CloseAccounted ==
    /\ closed # Nothing =>
           \E r \in {state.receipt, state.closing} : r # Nothing /\ r.id = closed
    /\ busy = "idle" => Identity(active.policy) # failed

\* A receipt is acknowledged in the end, however often the connection was lost with the
\* receipt or its acknowledgement on the way, unless a later close has replaced it.
ReceiptDelivered ==
    \A r \in Receipts : state.receipt = r ~> state.receipt # r

-------------------------------------------------------------------------------
(***************************************************************************)
(* The inductive invariant                                                 *)
(***************************************************************************)

\* The closing gate names an identity, or a receipt says that its close has succeeded.
Gated(s, id) == s # Nothing /\ s.closing # Nothing /\ s.closing.id = id

Receipted(s, id) ==
    s # Nothing /\ s.receipt # Nothing /\ s.receipt.id = id /\ ~s.receipt.failed

\* What was closed for idleness, and what has failed, is named in memory and on disk.
NamedInv ==
    \A s \in {state, disk} :
        /\ closed # Nothing => Gated(s, closed) \/ Receipted(s, closed)
        /\ failed # Nothing => Gated(s, failed)

\* A close that is under way is the one the gate names, in memory and on disk; and a
\* policy the gate names is not closed for idleness.
GateInv ==
    /\ busy # "no" => /\ active # Nothing
                      /\ \A s \in {state, disk} : Gated(s, Identity(active.policy))
    /\ active # Nothing /\ Gated(state, Identity(active.policy)) => active.closing
    /\ busy = "idle" => Identity(active.policy) # failed

IInv == TypeOK /\ NamedInv /\ GateInv

===============================================================================
