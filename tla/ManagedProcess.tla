--------------------------- MODULE ManagedProcess ---------------------------
(***************************************************************************)
(* The process of the game (bins/fairypam-agent/src/execution.rs,          *)
(* WindowsRuntimePlatform, with window.rs and process.rs of                *)
(* crates/fairypam-agent-windows).                                         *)
(*                                                                         *)
(* A start takes over the one process of the profile that runs, or spawns  *)
(* one inside a Job Object that is killed when its handle closes; then it  *)
(* waits for a window.  A close asks the window, and ends the process when *)
(* it does not go.  Meanwhile the user starts games, games exit, replace   *)
(* their windows, and the Agent may die at any step.                       *)
(***************************************************************************)
EXTENDS Naturals, FiniteSets

CONSTANTS
    Processes, Nobody,
    Game(_),    \* the profile whose executable a process runs
    MaxWindows  \* bound: windows a process shows, one after the other

VARIABLES
    procs,   \* every process of a game: its life, its window, who started it
    managed, \* WindowsRuntimePlatform.managed
    binding, \* CommandExecutor.binding
    used,    \* rediscovery_used
    step,    \* what the handler that runs is doing, "down" without an Agent
    closed,  \* the process the last close was about, if it was managed
    escaped  \* processes spawned by an Agent that died before the Job had them

vars == <<procs, managed, binding, used, step, closed, escaped>>

GameProfiles == {Game(p) : p \in Processes}

Idle == [kind |-> "idle", process |-> Nobody]

Down == [kind |-> "down", process |-> Nobody]

TypeOK ==
  /\ procs \in [Processes -> [life : {"none", "up", "gone"}, launched : BOOLEAN,
                              window : 0 .. MaxWindows]]
  /\ managed \in {Nobody} \cup [process : Processes, window : 1 .. MaxWindows, owned : BOOLEAN]
  /\ binding \in {Nobody} \cup [process : Processes, window : 1 .. MaxWindows]
  /\ used \in BOOLEAN
  /\ step \in {Idle, Down} \cup
       [kind : {"adopt", "known", "spawned", "assigned", "asked"}, process : Processes]
  /\ closed \in Processes \cup {Nobody}
  /\ escaped \subseteq Processes

Init ==
  /\ procs = [p \in Processes |-> [life |-> "none", launched |-> FALSE, window |-> 0]]
  /\ managed = Nobody /\ binding = Nobody /\ used = FALSE
  /\ step = Idle /\ closed = Nobody /\ escaped = {}

Up(p) == procs[p].life = "up"

Ended(S) == [p \in Processes |-> IF p \in S THEN [procs[p] EXCEPT !.life = "gone"] ELSE procs[p]]

\* The processes whose Job closes with the record; one that was taken over has no Job.
JobOf(record) == IF record # Nobody /\ record.owned THEN {record.process} ELSE {}

----------------------------------------------------------------------------
(* The user and the games. *)

UserStarts(p) ==
  /\ procs[p].life = "none"
  /\ procs' = [procs EXCEPT ![p].life = "up"]
  /\ UNCHANGED <<managed, binding, used, step, closed, escaped>>

\* A window appears, or another one takes its place.
ShowsWindow(p) ==
  /\ Up(p) /\ procs[p].window < MaxWindows
  /\ procs' = [procs EXCEPT ![p].window = @ + 1]
  /\ UNCHANGED <<managed, binding, used, step, closed, escaped>>

Exits(p) ==
  /\ Up(p)
  /\ procs' = Ended({p})
  /\ UNCHANGED <<managed, binding, used, step, closed, escaped>>

----------------------------------------------------------------------------
(* start_task_target *)

\* A child that has exited is dropped first; of a process that was taken over only its
\* executable is looked at, and only for its own profile.
Remaining(profile) ==
  IF managed # Nobody /\ ~Up(managed.process)
     /\ (managed.owned \/ Game(managed.process) = profile)
  THEN Nobody ELSE managed

Existing(profile) == {p \in Processes : Up(p) /\ Game(p) = profile}

\* "already active" for another profile, or several processes of it run
Refuses(record, profile) ==
  \/ record # Nobody /\ Game(record.process) # profile
  \/ record = Nobody /\ Cardinality(Existing(profile)) > 1

Spawned(p) ==
  procs' = [procs EXCEPT ![p] = [life |-> "up", launched |-> TRUE, window |-> 0]]

StartTaskTarget(profile) ==
  LET record == Remaining(profile)
      existing == Existing(profile)
  IN /\ step = Idle
     /\ managed' = record
     /\ \/ record # Nobody /\ Game(record.process) = profile
           /\ step' = [kind |-> "known", process |-> record.process]
           /\ UNCHANGED procs
        \/ record = Nobody /\ Cardinality(existing) = 1
           /\ \E p \in existing : step' = [kind |-> "adopt", process |-> p]
           /\ UNCHANGED procs
        \/ record = Nobody /\ existing = {}
           /\ \E p \in Processes :
                /\ procs[p].life = "none" /\ Game(p) = profile
                /\ Spawned(p)
                /\ step' = [kind |-> "spawned", process |-> p]
        \/ Refuses(record, profile) /\ UNCHANGED <<procs, step>>
     /\ UNCHANGED <<binding, used, closed, escaped>>

AssignToJob ==
  /\ step.kind = "spawned"
  /\ step' = [step EXCEPT !.kind = "assigned"]
  /\ UNCHANGED <<procs, managed, binding, used, closed, escaped>>

AssignFails ==
  /\ step.kind = "spawned"
  /\ procs' = Ended({step.process})
  /\ step' = Idle
  /\ UNCHANGED <<managed, binding, used, closed, escaped>>

\* Mutant: a second start forgets that the process is a child.
OwnsFresh == step.kind = "assigned"

Owns == IF step.kind = "known" THEN managed.owned ELSE step.kind = "assigned"

\* The executor takes the binding when the Worker attaches to it as well.
WindowReady ==
  /\ step.kind \in {"adopt", "known", "assigned"}
  /\ Up(step.process) /\ procs[step.process].window > 0
  /\ LET window == procs[step.process].window
     IN /\ managed' = [process |-> step.process, window |-> window, owned |-> Owns]
        /\ binding' \in {binding, [process |-> step.process, window |-> window]}
  /\ used' = FALSE /\ step' = Idle
  /\ UNCHANGED <<procs, closed, escaped>>

\* No window in time, several, or its process cannot be read.
WindowFails ==
  /\ step.kind \in {"adopt", "known", "assigned"}
  /\ procs' = IF step.kind = "assigned" THEN Ended({step.process}) ELSE procs
  /\ step' = Idle
  /\ UNCHANGED <<managed, binding, used, closed, escaped>>

----------------------------------------------------------------------------
(* lock, rediscover_target *)

LockTarget(p) ==
  /\ step = Idle /\ Up(p) /\ procs[p].window > 0
  /\ managed # Nobody /\ Game(managed.process) = Game(p) => p = managed.process
  /\ binding' = [process |-> p, window |-> procs[p].window]
  /\ used' = FALSE
  /\ UNCHANGED <<procs, managed, step, closed, escaped>>

\* The process still shows a window.
Found(p) == Up(p) /\ procs[p].window > 0

\* The window is looked for once; a process that is not the managed one is refused.
Rediscover ==
  /\ step = Idle /\ binding # Nobody /\ ~used
  /\ used' = TRUE
  /\ LET p == binding.process
         window == procs[p].window
     IN IF Found(p) /\ (managed # Nobody => managed.process = p)
        THEN /\ managed' = IF managed = Nobody THEN Nobody
                           ELSE [managed EXCEPT !.window = window]
             /\ binding' = [process |-> p, window |-> window]
        ELSE UNCHANGED <<managed, binding>>
  /\ UNCHANGED <<procs, step, closed, escaped>>

----------------------------------------------------------------------------
(* close_with_progress *)

\* Nothing is bound or nothing is managed: answered Graceful, whatever runs.
CloseNothing ==
  /\ step = Idle /\ (binding = Nobody \/ managed = Nobody)
  /\ binding' = Nobody /\ closed' = Nobody
  /\ UNCHANGED <<procs, managed, used, step, escaped>>

\* A binding of a process that is not managed is refused, which changes nothing.
CloseAsks ==
  /\ step = Idle /\ binding # Nobody /\ managed # Nobody
  /\ managed.process = binding.process
  /\ step' = [kind |-> "asked", process |-> binding.process]
  /\ UNCHANGED <<procs, managed, binding, used, closed, escaped>>

\* The executor keeps its binding when the input could not be released before.
Closed(p) ==
  /\ managed' = Nobody /\ binding' \in {Nobody, binding} /\ closed' = p /\ step' = Idle
  /\ UNCHANGED <<used, escaped>>

\* Mutant: an error of the close is taken for the end of the process.
CloseGracefulUnchecked ==
  /\ step.kind = "asked"
  /\ Closed(step.process) /\ UNCHANGED procs

\* WM_CLOSE was answered, or the process was gone when its window was not found.
CloseGraceful ==
  /\ step.kind = "asked" /\ ~Up(step.process)
  /\ Closed(step.process) /\ UNCHANGED procs

\* Five seconds without an answer, or no such window: the process is terminated.
CloseForced ==
  /\ step.kind = "asked" /\ Up(step.process)
  /\ procs' = Ended({step.process})
  /\ Closed(step.process)

\* The handle of the window belongs to another process, or the process may not be opened.
CloseFails ==
  /\ step.kind = "asked"
  /\ step' = Idle
  /\ UNCHANGED <<procs, managed, binding, used, closed, escaped>>

----------------------------------------------------------------------------
(* The end of the Agent. *)

\* Drop closes the managed game, one that was taken over included; a close that fails
\* leaves the Job to end what the Agent has launched.
AgentStops ==
  /\ step = Idle
  /\ procs' \in {Ended(JobOf(managed)),
                 Ended(IF managed = Nobody THEN {} ELSE {managed.process})}
  /\ step' = Down /\ managed' = Nobody /\ binding' = Nobody
  /\ UNCHANGED <<used, closed, escaped>>

\* The system closes the handles of a process that dies.
AgentDies ==
  /\ step # Down
  /\ procs' = Ended(JobOf(managed) \cup
                    (IF step.kind = "assigned" THEN {step.process} ELSE {}))
  /\ escaped' = escaped \cup (IF step.kind = "spawned" THEN {step.process} ELSE {})
  /\ step' = Down /\ managed' = Nobody /\ binding' = Nobody
  /\ UNCHANGED <<used, closed>>

AgentStarts ==
  /\ step = Down
  /\ step' = Idle /\ used' = FALSE
  /\ UNCHANGED <<procs, managed, binding, closed, escaped>>

Next ==
  \/ \E p \in Processes : UserStarts(p) \/ ShowsWindow(p) \/ Exits(p) \/ LockTarget(p)
  \/ \E profile \in GameProfiles : StartTaskTarget(profile)
  \/ AssignToJob \/ AssignFails \/ WindowReady \/ WindowFails
  \/ Rediscover
  \/ CloseNothing \/ CloseAsks \/ CloseGraceful \/ CloseForced \/ CloseFails
  \/ AgentStops \/ AgentDies \/ AgentStarts

Spec == Init /\ [][Next]_vars

----------------------------------------------------------------------------

\* A game the Agent has launched never outlives it unmanaged: while it runs, it is the child
\* of the managed record or the start is still waiting for it (start_task_target and
\* kill_on_close_job). Only an Agent that dies before the Job has the process loses it.
LaunchedIsHeld ==
  \A p \in Processes :
    Up(p) /\ procs[p].launched =>
      \/ managed # Nobody /\ managed.owned /\ managed.process = p
      \/ step.kind \in {"spawned", "assigned"} /\ step.process = p
      \/ p \in escaped

\* When a close of the managed game is answered Graceful or Forced, the game is gone,
\* whatever its window did meanwhile (close_with_progress).
ClosedIsGone == closed # Nobody => ~Up(closed)

----------------------------------------------------------------------------
(* The inductive invariant. *)

\* What the handler that runs has found of the managed record.
StepInv ==
  /\ step.kind \in {"known", "asked"} => managed # Nobody /\ managed.process = step.process
  /\ step.kind \in {"adopt", "spawned", "assigned", "down"} => managed = Nobody

\* A process that was closed does not come back; one that never ran is not managed, and
\* nobody has launched it.
LifeInv ==
  /\ managed # Nobody => procs[managed.process].life # "none"
  /\ closed # Nobody => procs[closed].life = "gone"
  /\ \A p \in Processes : procs[p].life = "none" => ~procs[p].launched

IInv == TypeOK /\ StepInv /\ LifeInv /\ LaunchedIsHeld

=============================================================================
