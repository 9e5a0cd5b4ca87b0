----------------------------- MODULE AgentMachine -----------------------------
(***************************************************************************)
(* The Agent state machine (crates/fairypam-agent-core/src/state.rs): how  *)
(* far the way to remote control has been walked, and the session, profile *)
(* and target window the walk was made for.  Input needs a capability that *)
(* only a controlling machine issues, for the window in the foreground.    *)
(*                                                                         *)
(* Instants are kept as the time left until them: 0 has passed.  A session *)
(* is the generation the hub gave it.                                      *)
(***************************************************************************)
EXTENDS Integers

CONSTANTS
    Sessions,   \* the generations of the control session, in the hub's order
    Profiles,   \* signed profiles
    Windows,    \* what a target binding may name
    Fits,       \* the pairs of a profile and a window it admits
    None,       \* no profile, no window
    MaxTime     \* the longest authorization

ASSUME AgentMachineAssumption ==
    /\ Sessions \subseteq Nat \ {0}
    /\ Fits \subseteq Profiles \X Windows
    /\ None \notin Profiles \cup Windows
    /\ MaxTime \in Nat \ {0}

VARIABLES
    machine,  \* the Machine
    target,   \* the window in front
    owed      \* the machine has answered ReleaseAll and nobody has done it yet

machineVars == <<machine, target, owed>>

\* An instant that is not set.
Unset == -1

Machines ==
    [current : {"Starting", "Disconnected", "ConnectedIdle", "ProfileLoaded",
                "TargetLocked", "PreflightPassed", "DryRun", "Armed",
                "Controlling", "FailedSafe"},
     connected : BOOLEAN, session : Sessions \cup {0},
     profile : Profiles \cup {None}, binding : Windows \cup {None},
     armed : Unset .. MaxTime, authorized : Unset .. MaxTime]

MachineInit ==
    /\ machine = [current |-> "Starting", connected |-> FALSE, session |-> 0,
                  profile |-> None, binding |-> None,
                  armed |-> Unset, authorized |-> Unset]
    /\ target \in Windows
    /\ owed = FALSE

StartCompleted ==
    /\ machine.current = "Starting"
    /\ machine' = [machine EXCEPT !.current = "Disconnected"]
    /\ UNCHANGED <<target, owed>>

\* The hub never hands out a generation twice.
ControlConnected(s, last) ==
    /\ machine.current = "Disconnected"
    /\ s > last
    /\ machine' = [machine EXCEPT !.current = "ConnectedIdle",
                                  !.connected = TRUE, !.session = s]
    /\ UNCHANGED <<target, owed>>

ActivateProfile(p) ==
    /\ machine.current = "ConnectedIdle"
    /\ machine' = [machine EXCEPT !.current = "ProfileLoaded",
                                  !.profile = p, !.binding = None]
    /\ UNCHANGED <<target, owed>>

LockTarget(w) ==
    /\ machine.current = "ProfileLoaded"
    /\ <<machine.profile, w>> \in Fits
    /\ machine' = [machine EXCEPT !.current = "TargetLocked", !.binding = w]
    /\ UNCHANGED <<target, owed>>

PreflightPassed ==
    /\ machine.current = "TargetLocked"
    /\ target = machine.binding
    /\ machine' = [machine EXCEPT !.current = "PreflightPassed"]
    /\ UNCHANGED <<target, owed>>

EnterDryRun ==
    /\ machine.current = "PreflightPassed"
    /\ machine' = [machine EXCEPT !.current = "DryRun"]
    /\ UNCHANGED <<target, owed>>

\* The user has granted control until time t from now.
RequestArm(t) ==
    /\ machine.current = "DryRun"
    /\ machine.connected
    /\ machine' = [machine EXCEPT !.current = "Armed", !.armed = t]
    /\ UNCHANGED <<target, owed>>

\* An arming that has run out sends the machine back without any effect.
BeginControl ==
    /\ machine.current = "Armed"
    /\ machine' = IF machine.armed > 0
                    THEN [machine EXCEPT !.current = "Controlling",
                                         !.authorized = machine.armed, !.armed = Unset]
                    ELSE [machine EXCEPT !.current = "DryRun", !.armed = Unset]
    /\ UNCHANGED <<target, owed>>

RenewControlAuthorization(t) ==
    /\ machine.current = "Controlling"
    /\ machine' = [machine EXCEPT !.authorized = t]
    /\ UNCHANGED <<target, owed>>

\* clear_session_context.
WithoutContext(m) ==
    [m EXCEPT !.profile = None, !.binding = None, !.session = 0,
              !.authorized = Unset, !.armed = Unset]

\* Mutant: the machine only notes that the connection is gone.
DisconnectedKeepsContext ==
    /\ machine' = [machine EXCEPT !.connected = FALSE]
    /\ owed' = TRUE
    /\ UNCHANGED target

\* Event::ControlDisconnected is accepted in every state.
ControlDisconnected ==
    /\ machine' = [WithoutContext(machine) EXCEPT
                     !.connected = FALSE,
                     !.current = IF @ = "FailedSafe" THEN @ ELSE "Disconnected"]
    /\ owed' = TRUE
    /\ UNCHANGED target

FailSafe ==
    /\ machine' = [WithoutContext(machine) EXCEPT !.current = "FailedSafe"]
    /\ owed' = TRUE
    /\ UNCHANGED target

\* FocusLost, LeaseExpired and GuardianUnhealthy end control; so does StopControl,
\* which only a controlling machine accepts.
ControlEnds ==
    /\ machine.current \in {"Armed", "Controlling"}
    /\ machine' = [machine EXCEPT !.current = "DryRun",
                                  !.authorized = Unset, !.armed = Unset]
    /\ owed' = TRUE
    /\ UNCHANGED target

\* Another window comes to the front.
TargetChanges ==
    /\ \E w \in Windows \ {target} : target' = w
    /\ UNCHANGED <<machine, owed>>

Left(t) == IF t > 0 THEN t - 1 ELSE t

\* issue_input_capability and is_valid_for: the capability borrows the machine, so
\* it is issued and used at one moment.
Permitted(s) ==
    /\ machine.current = "Controlling"
    /\ machine.authorized > 0
    /\ machine.session = s
    /\ machine.profile # None /\ machine.binding # None
    /\ target = machine.binding

===============================================================================
