--------------------------- MODULE GuardianMonitor ----------------------------
(***************************************************************************)
(* GuardianMonitor (bins/fairypam-agent-guardian/src/monitor.rs): what the *)
(* Guardian remembers about the Agent it watches, as operators over one    *)
(* record.  A hold is a key or a mouse button the Agent may press.  The    *)
(* heartbeat deadline is left to the supervision loop, which may find it   *)
(* expired at any time.                                                    *)
(***************************************************************************)
EXTENDS Naturals

CONSTANT Keys  \* the keys and mouse buttons of the machine

Reasons == {"None", "AgentExited", "AgentDisconnected", "GuardianFailure",
            "PlatformFailure", "HeartbeatExpired"}

Intents == [sequence : Nat, holds : SUBSET Keys]

NoIntent == [sequence |-> 0, holds |-> {}]

Monitors ==
    [registered : BOOLEAN, last : Nat, pending : Intents,
     committed : SUBSET Keys, reason : Reasons]

NewMonitor ==
    [registered |-> FALSE, last |-> 0, pending |-> NoIntent,
     committed |-> {}, reason |-> "None"]

RegisterAgent(m) == [m EXCEPT !.registered = TRUE]

AcceptsIntent(m, sequence) ==
    m.pending = NoIntent /\ m.registered /\ sequence > m.last

RegisterIntent(m, sequence, holds) ==
    [m EXCEPT !.pending = [sequence |-> sequence, holds |-> holds]]

AcceptsCommit(m, sequence) == m.pending # NoIntent /\ m.pending.sequence = sequence

\* Mutant: the holds are read after the pending intent has been taken.
CommitHoldsTaken(m, sequence) ==
    [m EXCEPT !.last = sequence, !.committed = {}, !.pending = NoIntent]

CommitHolds(m, sequence) ==
    [m EXCEPT !.last = sequence, !.committed = m.pending.holds, !.pending = NoIntent]

AcceptsHeartbeat(m, sequence) == m.registered /\ sequence >= m.last

\* What a release has to let go of: what is pressed and what may be pressed.
ReleaseHolds(m) == m.committed \cup m.pending.holds

\* Mutant: the reason is recorded as one the protocol does not name.
ReleasedUnnamed(m, reason) ==
    [m EXCEPT !.committed = {}, !.pending = NoIntent, !.reason = "Released"]

\* The monitor after the driver has carried out a release.
Released(m, reason) ==
    [m EXCEPT !.committed = {}, !.pending = NoIntent, !.reason = reason]

===============================================================================
