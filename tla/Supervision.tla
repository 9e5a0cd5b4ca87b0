----------------------------- MODULE Supervision ------------------------------
(***************************************************************************)
(* The Guardian (bins/fairypam-agent-guardian/src/main.rs), the Agent      *)
(* processes it starts, and the keys they hold down.                       *)
(*                                                                         *)
(* The Shell keeps one Guardian process running.  A Guardian starts an     *)
(* Agent, waits for its pipe, answers its requests and stops it; a stop    *)
(* releases the keys, leaves the Agent a grace period, kills it and        *)
(* releases again.  An Agent has a Guardian thread (guardian_channel.rs)   *)
(* that registers the keys to release and then beats, and a runtime        *)
(* (runtime.rs, core/supervisor.rs) that drives tasks, installs profile    *)
(* catalogs and shuts down when its token is cancelled.                    *)
(*                                                                         *)
(* There is no clock: a deadline that a delayed thread may miss (the       *)
(* connect wait, the heartbeat, the health window, the grace period) may   *)
(* pass at any time.  A release the driver fails to carry out releases     *)
(* nothing.                                                                *)
(***************************************************************************)
EXTENDS GuardianMonitor

CONSTANTS
    Slots,        \* places for Agent processes, the orphans of a crash included
    NoSlot,       \* no Agent process
    Buttons,      \* the mouse buttons, which every release set holds
    Versions,     \* catalog versions; 0 stands for no catalog
    CatalogKeys,  \* the keys the profiles of each catalog may press
    MaxCrashes    \* how often the Guardian process may die on its own

ASSUME SupervisionAssumption ==
    /\ NoSlot \notin Slots
    /\ Buttons \subseteq Keys
    /\ Versions \subseteq Nat /\ 0 \in Versions
    /\ CatalogKeys \in [Versions -> SUBSET Keys]
    /\ CatalogKeys[0] = {}
    /\ MaxCrashes \in Nat

VARIABLES
    agents,    \* the Agent process of each slot
    guardian,  \* the Guardian process
    disk,      \* the active catalog, as current.json names it
    pressed,   \* the keys the Agent of each slot has pressed and nobody released
    crashes    \* how often the Guardian has died on its own

vars == <<agents, guardian, disk, pressed, crashes>>

-------------------------------------------------------------------------------
(***************************************************************************)
(* Types and the initial state                                             *)
(***************************************************************************)

\* An Agent that holds the instance mutex (AgentInstance).
Running == {"start", "run", "bye"}

\* What the Guardian thread is waiting for: its next turn (loop) or the answer
\* to the request it has sent.
Waiting == {"intent", "commit", "beat", "health", "release"}

Processes ==
    [run : {"dead", "boot", "loaded"} \cup Running,
     thread : {"off", "connect", "loop", "lost", "ended"} \cup Waiting,
     pipe : {"none", "quiet", "request", "reply", "refused", "closed"},
     enrolled : BOOLEAN,      \* RuntimeConfig comes from a valid enrolment
     connected : BOOLEAN,     \* run_control_session is running
     cancelled : BOOLEAN,     \* runtime_shutdown
     candidate : BOOLEAN,     \* activation_pending, as the last answer had it
     profiles : Versions,     \* CommandExecutor.profiles
     active : Versions,       \* ProfileCatalogStore.active
     staged : Versions,       \* ProfileCatalogStore.pending
     blocked : BOOLEAN,       \* profile_update_blocked
     busy : BOOLEAN,          \* there is a task, a target or a capture
     covers : SUBSET Keys]    \* release_set at the start of the process

\* A process that is not running; what it had asked to be released is kept.
Dead(covers) ==
    [run |-> "dead", thread |-> "off", pipe |-> "closed", enrolled |-> FALSE,
     connected |-> FALSE, cancelled |-> FALSE, candidate |-> FALSE, profiles |-> 0,
     active |-> 0, staged |-> 0, blocked |-> FALSE, busy |-> FALSE, covers |-> covers]

Spawned == [Dead({}) EXCEPT !.run = "boot", !.pipe = "none"]

Guardians ==
    [phase : {"off", "idle", "connect", "watch", "grace"},
     child : Slots \cup {NoSlot},
     monitor : Monitors,
     snapshot : SUBSET Keys,          \* holds of stop_agent_with_grace
     then : {"owner", "restart"},     \* SupervisorOutcome
     late : BOOLEAN,                  \* the heartbeat of the child had expired
     exit : {"none", "clean", "error", "crash"},
     candidate : BOOLEAN]             \* an unpromoted activation is pending

TypeOK ==
    /\ agents \in [Slots -> Processes]
    /\ guardian \in Guardians
    /\ disk \in Versions
    /\ pressed \in [Slots -> SUBSET Keys]
    /\ crashes \in 0 .. MaxCrashes

Init ==
    /\ agents = [s \in Slots |-> Dead({})]
    /\ \E candidate \in BOOLEAN :
          guardian = [phase |-> "idle", child |-> NoSlot, monitor |-> NewMonitor,
                      snapshot |-> {}, then |-> "restart", late |-> FALSE,
                      exit |-> "none", candidate |-> candidate]
    /\ disk \in Versions
    /\ pressed = [s \in Slots |-> {}]
    /\ crashes = 0

-------------------------------------------------------------------------------
(***************************************************************************)
(* Helpers                                                                 *)
(***************************************************************************)
Child == guardian.child

\* Letting go of a key lets go of it whoever has pressed it.
Without(held) == [s \in Slots |-> pressed[s] \ held]

\* SystemReleaseDriver: nothing to send always succeeds.
DriverResults(holds) == IF holds = {} THEN {TRUE} ELSE BOOLEAN

\* What the Agent of slot s may press: buttons and the keys of its profiles.
Pressable(s) ==
    IF agents[s].profiles = 0 THEN {} ELSE CatalogKeys[agents[s].profiles] \cup Buttons

\* The Agent side of exchange: a request goes out on an open pipe.
Sent(p, request) ==
    [p EXCEPT !.thread = request, !.pipe = IF @ = "quiet" THEN "request" ELSE @]

\* What from_enrollment_state_at and install_runtime_config leave behind.
Reloaded(p) ==
    [p EXCEPT !.enrolled = TRUE, !.profiles = disk, !.active = disk, !.staged = 0,
              !.blocked = (disk = 0)]

Exit(s) == agents' = [agents EXCEPT ![s] = Dead(@.covers)]

-------------------------------------------------------------------------------
(***************************************************************************)
(* The Agent: start and Guardian thread                                    *)
(***************************************************************************)

\* from_production, before the instance mutex is taken.  Without a valid enrolment
\* the Agent starts with no profiles.
Boot(s) ==
    /\ agents[s].run = "boot"
    /\ \E enrolled \in BOOLEAN :
          agents' = [agents EXCEPT
              ![s] = [(IF enrolled THEN Reloaded(@) ELSE @) EXCEPT !.run = "loaded"]]
    /\ UNCHANGED <<guardian, disk, pressed, crashes>>

\* run_standalone ends at once if another Agent holds the instance mutex.
InstanceTaken(s) ==
    /\ agents[s].run = "loaded"
    /\ \E t \in Slots \ {s} : agents[t].run \in Running
    /\ Exit(s)
    /\ UNCHANGED <<guardian, disk, pressed, crashes>>

\* GuardianChannel::start: the release set is that of the profiles the Agent
\* starts with and is not computed again.
StartChannel(s) ==
    /\ agents[s].run = "loaded"
    /\ \A t \in Slots \ {s} : agents[t].run \notin Running
    /\ agents' = [agents EXCEPT ![s].run = "start", ![s].thread = "connect",
                                ![s].covers = CatalogKeys[agents[s].profiles] \cup Buttons]
    /\ UNCHANGED <<guardian, disk, pressed, crashes>>

\* The thread connects and registers its release set.
Connect(s) ==
    /\ agents[s].thread = "connect"
    /\ guardian.phase = "connect" /\ Child = s
    /\ agents' = [agents EXCEPT ![s].thread = "intent", ![s].pipe = "request"]
    /\ guardian' = [guardian EXCEPT !.phase = "watch"]
    /\ UNCHANGED <<disk, pressed, crashes>>

\* Nobody listens any more, or the release set is not accepted in time.
StartFails(s) ==
    /\ agents[s].run = "start"
    /\ Exit(s)
    /\ UNCHANGED <<guardian, disk, pressed, crashes>>

\* exchange returns Ok: the release set is registered, then committed; then the
\* Agent is ready.
Answered(s) ==
    LET p == agents[s]
        served == guardian.phase = "watch" /\ Child = s
        open == [p EXCEPT !.pipe = IF served THEN "quiet" ELSE "closed"]
    IN  /\ p.pipe = "reply"
        /\ agents' = [agents EXCEPT ![s] =
               CASE p.thread = "intent"  -> Sent(open, "commit")
                 [] p.thread = "commit"  -> [open EXCEPT !.thread = "loop", !.run = "run",
                                                         !.connected = p.enrolled,
                                                         !.candidate = guardian.candidate]
                 [] p.thread = "beat"    -> [open EXCEPT !.thread = "loop",
                                                         !.candidate = guardian.candidate]
                 [] p.thread = "health"  -> [open EXCEPT !.thread = "loop"]
                 [] p.thread = "release" -> [open EXCEPT !.thread = "ended"]]
        /\ UNCHANGED <<guardian, disk, pressed, crashes>>

\* Mutant: a failed heartbeat ends the thread and nothing else.
RefusedQuietly(s) ==
    LET p == agents[s]
    IN  /\ p.pipe \in {"refused", "closed"}
        /\ p.thread \in Waiting
        /\ IF p.thread \in {"intent", "commit"}
           THEN Exit(s)
           ELSE agents' = [agents EXCEPT ![s].thread = "lost", ![s].pipe = "closed"]
        /\ UNCHANGED <<guardian, disk, pressed, crashes>>

\* exchange returns an error.  A failed heartbeat cancels the runtime; a failed
\* health report ends the thread and nothing else.
Refused(s) ==
    LET p == agents[s]
    IN  /\ p.pipe \in {"refused", "closed"}
        /\ p.thread \in Waiting
        /\ IF p.thread \in {"intent", "commit"}
           THEN Exit(s)
           ELSE agents' = [agents EXCEPT ![s].thread = "lost", ![s].pipe = "closed",
                                         ![s].cancelled = @ \/ p.thread = "beat"]
        /\ UNCHANGED <<guardian, disk, pressed, crashes>>

\* Every half second the thread beats.
Beat(s) ==
    /\ agents[s].thread = "loop"
    /\ agents[s].run = "run"
    /\ agents' = [agents EXCEPT ![s] = Sent(@, "beat")]
    /\ UNCHANGED <<guardian, disk, pressed, crashes>>

\* While an activation is pending it reports the health of the Worker.
ReportHealth(s) ==
    /\ agents[s].thread = "loop"
    /\ agents[s].run = "run"
    /\ agents[s].candidate
    /\ agents' = [agents EXCEPT ![s] = Sent(@, "health")]
    /\ UNCHANGED <<guardian, disk, pressed, crashes>>

\* GuardianChannel::stop asks for a last release.
AskRelease(s) ==
    /\ agents[s].run = "bye"
    /\ agents[s].thread = "loop"
    /\ agents' = [agents EXCEPT ![s] = Sent(@, "release")]
    /\ UNCHANGED <<guardian, disk, pressed, crashes>>

\* The thread is joined and the process ends.
Leave(s) ==
    /\ agents[s].run = "bye"
    /\ agents[s].thread \in {"ended", "lost"}
    /\ Exit(s)
    /\ UNCHANGED <<guardian, disk, pressed, crashes>>

\* The process dies and its Worker with it (assign_kill_on_close_job).
AgentCrash(s) ==
    /\ agents[s].run # "dead"
    /\ Exit(s)
    /\ UNCHANGED <<guardian, disk, pressed, crashes>>

-------------------------------------------------------------------------------
(***************************************************************************)
(* The Agent: runtime                                                      *)
(***************************************************************************)
Online(s) == agents[s].run = "run" /\ agents[s].connected

\* A task attempt begins or a target is bound.
BeginTask(s) ==
    /\ Online(s)
    /\ ~agents[s].busy /\ ~agents[s].blocked /\ agents[s].profiles # 0
    /\ agents' = [agents EXCEPT ![s].busy = TRUE]
    /\ UNCHANGED <<guardian, disk, pressed, crashes>>

Press(s) ==
    /\ Online(s) /\ agents[s].busy
    /\ \E k \in Pressable(s) \ pressed[s] :
          pressed' = [pressed EXCEPT ![s] = @ \cup {k}]
    /\ UNCHANGED <<agents, guardian, disk, crashes>>

\* The task is finished and its target closed.  A release that fails leaves the
\* attempt active, and the Agent busy.
EndTask(s) ==
    /\ Online(s) /\ agents[s].busy
    /\ agents' = [agents EXCEPT ![s].busy = FALSE]
    /\ pressed' = Without(pressed[s])
    /\ UNCHANGED <<guardian, disk, crashes>>

\* activate_profile_catalog_if_ready_locked, for the process p of slot s.  The
\* pointer is replaced, the keys are released, the Hub is told and the runtime is
\* cancelled; an error on the way ends the session instead.
Activated(s, p) ==
    LET new == [p EXCEPT !.active = p.staged, !.staged = 0]
    IN  /\ disk' = p.staged
        /\ \/ \E told \in BOOLEAN :
                 /\ pressed' = Without(pressed[s])
                 /\ agents' = [agents EXCEPT
                        ![s] = [new EXCEPT !.cancelled = @ \/ told, !.connected = told]]
           \/ /\ agents' = [agents EXCEPT ![s] = [new EXCEPT !.connected = FALSE]]
              /\ UNCHANGED pressed

\* receive_profile_catalog: a new catalog blocks commands and is staged; it is
\* activated at once unless a task holds the Agent.  A catalog that is refused
\* leaves commands blocked, the active one unblocks them.
ReceiveCatalog(s) ==
    /\ Online(s)
    /\ \E v \in Versions \ {0} :
          LET old == agents[s]
              p == [old EXCEPT !.blocked = TRUE, !.staged = v]
          IN  \/ /\ v > old.active /\ v >= old.staged
                 /\ IF p.busy
                    THEN /\ agents' = [agents EXCEPT ![s] = p]
                         /\ UNCHANGED <<disk, pressed>>
                    ELSE Activated(s, p)
              \/ /\ v > old.active /\ v >= old.staged  \* the Hub is not told: Pending unsent
                 /\ agents' = [agents EXCEPT ![s] = [p EXCEPT !.connected = FALSE]]
                 /\ UNCHANGED <<disk, pressed>>
              \/ /\ v <= old.active \/ v < old.staged
                 /\ agents' = [agents EXCEPT ![s].blocked = (v # old.active)]
                 /\ UNCHANGED <<disk, pressed>>
    /\ UNCHANGED <<guardian, crashes>>

\* The heartbeat tick, or the end of a command, finds a staged catalog ready.
ActivateCatalog(s) ==
    /\ Online(s)
    /\ agents[s].staged # 0 /\ ~agents[s].busy
    /\ Activated(s, agents[s])
    /\ UNCHANGED <<guardian, crashes>>

\* A registration through the local pipe installs a new configuration.
Register(s) ==
    /\ agents[s].run = "run"
    /\ agents' = [agents EXCEPT
           ![s] = [Reloaded(agents[s]) EXCEPT !.connected = @ \/ ~agents[s].enrolled]]
    /\ UNCHANGED <<guardian, disk, pressed, crashes>>

SessionEnds(s) ==
    /\ Online(s)
    /\ agents' = [agents EXCEPT ![s].connected = FALSE]
    /\ UNCHANGED <<guardian, disk, pressed, crashes>>

\* begin_control_failure and finish_control_failure: the keys are released, the
\* session is cleared with the configuration on disk, and the next one is
\* established; a clean-up that fails ends the runtime.  A managed game outlives
\* the session.
CleanUp(s) ==
    /\ agents[s].run = "run" /\ agents[s].enrolled /\ ~agents[s].connected
    /\ \E reloads, released \in BOOLEAN, busy \in {FALSE, agents[s].busy} :
          LET p == [(IF reloads THEN Reloaded(agents[s]) ELSE agents[s]) EXCEPT !.busy = busy]
          IN  /\ pressed' = IF released THEN Without(pressed[s]) ELSE pressed
              /\ agents' = [agents EXCEPT ![s] =
                     IF released THEN [p EXCEPT !.connected = TRUE] ELSE [p EXCEPT !.run = "bye"]]
    /\ UNCHANGED <<guardian, disk, crashes>>

\* The local pipe or the console asks the Agent to stop.
Cancel(s) ==
    /\ agents[s].run = "run" /\ ~agents[s].cancelled
    /\ agents' = [agents EXCEPT ![s].cancelled = TRUE]
    /\ UNCHANGED <<guardian, disk, pressed, crashes>>

\* run_driver sees the token: shutdown_runtime cleans up once, successfully or
\* not, and the process goes on to stop its Guardian thread.
ShutDown(s) ==
    /\ agents[s].run = "run" /\ agents[s].cancelled
    /\ agents' = [agents EXCEPT ![s].run = "bye", ![s].busy = FALSE, ![s].connected = FALSE]
    /\ \E released \in BOOLEAN :
          pressed' = IF released THEN Without(pressed[s]) ELSE pressed
    /\ UNCHANGED <<guardian, disk, crashes>>

-------------------------------------------------------------------------------
(***************************************************************************)
(* The Guardian                                                            *)
(***************************************************************************)

\* ensure_guardian of the Shell.
StartGuardian ==
    /\ guardian.phase = "off"
    /\ guardian' = [guardian EXCEPT !.phase = "idle", !.child = NoSlot, !.late = FALSE,
                                    !.exit = "none"]
    /\ UNCHANGED <<agents, disk, pressed, crashes>>

\* spawn_agent and register_agent.
SpawnAgent ==
    /\ guardian.phase = "idle"
    /\ \E s \in Slots :
          /\ agents[s].run = "dead"
          /\ agents' = [agents EXCEPT ![s] = Spawned]
          /\ pressed' = [pressed EXCEPT ![s] = {}]
          /\ guardian' = [guardian EXCEPT !.phase = "connect", !.child = s, !.late = FALSE,
                                          !.monitor = RegisterAgent(NewMonitor)]
    /\ UNCHANGED <<disk, crashes>>

\* The Guardian process ends; an activation that was still pending has been
\* rolled back, unless the owner stopped it.
Ended(g, exit) ==
    [g EXCEPT !.phase = "off", !.exit = exit, !.monitor = NewMonitor, !.snapshot = {},
              !.candidate = @ /\ g.then = "owner" /\ exit = "clean"]

\* supervise_agent has returned Ok: run_supervisor stops or starts over.
HandedBack(g) ==
    IF g.then = "owner" \/ g.candidate
    THEN Ended(g, "clean")
    ELSE [g EXCEPT !.phase = "idle", !.monitor = NewMonitor, !.snapshot = {}]

\* The pipe or the process cannot be created: a pending activation is rolled
\* back; without one, a missing pipe is an error.
SpawnFails ==
    /\ guardian.phase = "idle"
    /\ guardian' = Ended([guardian EXCEPT !.then = "restart"],
                         IF guardian.candidate THEN "clean" ELSE "error")
    /\ UNCHANGED <<agents, disk, pressed, crashes>>

\* The owner stops the Guardian between two Agents.
OwnerStopsIdle ==
    /\ guardian.phase = "idle"
    /\ guardian' = Ended([guardian EXCEPT !.then = "owner"], "clean")
    /\ UNCHANGED <<agents, disk, pressed, crashes>>

\* Mutant: the error is reported without killing the Agent.
FinalizedAlive(g, held) ==
    /\ \E ok \in DriverResults(ReleaseHolds(g.monitor)) :
          pressed' = Without(held \cup (IF ok THEN ReleaseHolds(g.monitor) ELSE {}))
    /\ guardian' = Ended(g, "error")
    /\ UNCHANGED agents

\* finalize_supervision after an error: kill without grace, release what the
\* monitor still holds, end.  held is what was released on the way here.
Finalized(g, held) ==
    /\ agents' = [agents EXCEPT ![g.child] = Dead(@.covers)]
    /\ \E ok \in DriverResults(ReleaseHolds(g.monitor)) :
          pressed' = Without(held \cup (IF ok THEN ReleaseHolds(g.monitor) ELSE {}))
    /\ guardian' = Ended(g, "error")

\* Mutant: the holds are noted after they have been released.
StopAgentNotedLate(g, reason, then) ==
    LET holds == ReleaseHolds(g.monitor)
    IN  \E ok \in DriverResults(holds) :
            LET m == IF ok THEN Released(g.monitor, reason) ELSE g.monitor
            IN  /\ pressed' = Without(IF ok THEN holds ELSE {})
                /\ guardian' = [g EXCEPT !.phase = "grace", !.snapshot = ReleaseHolds(m),
                                         !.then = then, !.monitor = m]

\* stop_agent up to the grace period: note the holds, release them, wait.
StopAgent(g, reason, then) ==
    LET holds == ReleaseHolds(g.monitor)
    IN  \E ok \in DriverResults(holds) :
            /\ pressed' = Without(IF ok THEN holds ELSE {})
            /\ guardian' =
                   [g EXCEPT !.phase = "grace", !.snapshot = holds, !.then = then,
                             !.monitor = IF ok THEN Released(@, reason) ELSE @]

Supervising == guardian.phase \in {"connect", "watch"}

\* The supervisor no longer takes requests: the pipe ends, after the answer
\* that is on its way.
Hung == [agents EXCEPT ![Child].pipe = IF @ = "reply" THEN @ ELSE "closed"]

OwnerStops ==
    /\ Supervising
    /\ StopAgent(guardian, "AgentExited", "owner")
    /\ agents' = Hung
    /\ UNCHANGED <<disk, crashes>>

ConnectTimeout ==
    /\ guardian.phase = "connect"
    /\ StopAgent(guardian, "GuardianFailure", "restart")
    /\ agents' = Hung
    /\ UNCHANGED <<disk, crashes>>

\* The pipe of the Agent has ended (AgentEvent::Closed).
AgentDisconnects ==
    /\ guardian.phase = "watch"
    /\ agents[Child].thread \in {"lost", "ended", "off"}
    /\ StopAgent(guardian, "AgentDisconnected", "restart")
    /\ agents' = Hung
    /\ UNCHANGED <<disk, crashes>>

HealthStale ==
    /\ guardian.phase = "watch" /\ guardian.candidate
    /\ StopAgent(guardian, "PlatformFailure", "restart")
    /\ agents' = Hung
    /\ UNCHANGED <<disk, crashes>>

\* tick finds the heartbeat late: it releases, which clears the monitor, and
\* stop_agent then notes what is left.
HeartbeatExpires ==
    /\ guardian.phase = "watch"
    /\ LET holds == ReleaseHolds(guardian.monitor)
       IN  \/ /\ pressed' = Without(holds)
              /\ guardian' =
                    [guardian EXCEPT !.phase = "grace", !.snapshot = {}, !.then = "restart",
                                     !.late = TRUE,
                                     !.monitor = Released(@, "HeartbeatExpired")]
              /\ agents' = Hung
           \/ /\ holds # {}
              /\ Finalized([guardian EXCEPT !.late = TRUE], {})
    /\ UNCHANGED <<disk, crashes>>

\* try_wait finds the child gone: release_on_exit tries for a while.
ChildExits ==
    /\ Supervising
    /\ agents[Child].run = "dead"
    /\ LET holds == ReleaseHolds(guardian.monitor)
           g == [guardian EXCEPT !.then = "restart"]
       IN  \/ /\ pressed' = Without(holds)
              /\ guardian' = HandedBack(g)
              /\ UNCHANGED agents
           \/ holds # {} /\ Finalized(g, {})
    /\ UNCHANGED <<disk, crashes>>

\* The end of stop_agent: the Agent has left or is killed, and what was noted
\* is released once more.
Reap ==
    /\ guardian.phase = "grace"
    /\ \/ /\ agents' = [agents EXCEPT ![Child] = Dead(@.covers)]
          /\ pressed' = Without(guardian.snapshot)
          /\ guardian' = HandedBack(guardian)
       \/ guardian.snapshot # {} /\ Finalized(guardian, {})
    /\ UNCHANGED <<disk, crashes>>

Reply(monitor, answer) ==
    /\ guardian' = [guardian EXCEPT !.monitor = monitor]
    /\ agents' = [agents EXCEPT ![Child].pipe = answer]

\* GuardianMonitor::handle for the request of the Agent.
Handle ==
    /\ guardian.phase = "watch"
    /\ agents[Child].pipe = "request"
    /\ LET m == guardian.monitor
           p == agents[Child]
       IN  \/ /\ p.thread = "intent"
              /\ IF AcceptsIntent(m, 1)
                 THEN Reply(RegisterIntent(m, 1, p.covers), "reply")
                 ELSE Reply(m, "refused")
              /\ UNCHANGED pressed
           \/ /\ p.thread = "commit"
              /\ IF AcceptsCommit(m, 1)
                 THEN Reply(CommitHolds(m, 1), "reply")
                 ELSE Reply(m, "refused")
              /\ UNCHANGED pressed
           \/ /\ p.thread = "beat"
              /\ Reply(m, IF AcceptsHeartbeat(m, 1) THEN "reply" ELSE "refused")
              /\ UNCHANGED pressed
           \/ /\ p.thread = "release"
              /\ \E ok \in DriverResults(ReleaseHolds(m)) :
                    /\ pressed' = Without(IF ok THEN ReleaseHolds(m) ELSE {})
                    /\ IF ok THEN Reply(Released(m, "AgentExited"), "reply")
                             ELSE Reply(m, "refused")
    /\ UNCHANGED <<disk, crashes>>

\* A health report: a healthy Worker may end the health window, which promotes
\* the candidate; an unhealthy one has the Agent stopped after the answer.
HandleHealth ==
    /\ guardian.phase = "watch"
    /\ agents[Child].pipe = "request" /\ agents[Child].thread = "health"
    /\ \/ /\ \E due \in BOOLEAN :
                guardian' = [guardian EXCEPT !.candidate = @ /\ ~due]
          /\ UNCHANGED pressed
       \/ /\ guardian.candidate
          /\ StopAgent(guardian, "PlatformFailure", "restart")
    /\ agents' = [agents EXCEPT ![Child].pipe = "reply"]
    /\ UNCHANGED <<disk, crashes>>

\* The Guardian process dies, or the Shell kills it when it takes more than seven
\* seconds to stop: its pipe ends and its child is on its own.
GuardianCrash ==
    /\ guardian.phase # "off"
    /\ crashes < MaxCrashes
    /\ crashes' = crashes + 1
    /\ guardian' = [guardian EXCEPT !.phase = "off", !.exit = "crash", !.child = NoSlot,
                                    !.monitor = NewMonitor, !.snapshot = {}]
    /\ agents' = [s \in Slots |->
                     IF s = Child THEN [agents[s] EXCEPT !.pipe = "closed"] ELSE agents[s]]
    /\ UNCHANGED <<disk, pressed>>

-------------------------------------------------------------------------------
Agent(s) ==
    \/ Boot(s) \/ InstanceTaken(s) \/ StartChannel(s) \/ Connect(s) \/ StartFails(s)
    \/ Answered(s) \/ Refused(s) \/ Beat(s) \/ ReportHealth(s)
    \/ AskRelease(s) \/ Leave(s) \/ AgentCrash(s)
    \/ BeginTask(s) \/ Press(s) \/ EndTask(s)
    \/ ReceiveCatalog(s) \/ ActivateCatalog(s) \/ Register(s)
    \/ SessionEnds(s) \/ CleanUp(s) \/ Cancel(s) \/ ShutDown(s)

Guardian ==
    \/ StartGuardian \/ SpawnAgent \/ SpawnFails \/ OwnerStopsIdle
    \/ OwnerStops \/ ConnectTimeout \/ AgentDisconnects \/ HealthStale
    \/ HeartbeatExpires \/ ChildExits \/ Reap \/ Handle \/ HandleHealth
    \/ GuardianCrash

Next == Guardian \/ \E s \in Slots : Agent(s)

Spec == Init /\ [][Next]_vars

\* The Guardian thread has a thread of its own, run_driver waits for the token,
\* and a stopped Agent is waited for or killed.
FairSpec ==
    /\ Spec
    /\ WF_vars(Reap)
    /\ \A s \in Slots :
          /\ WF_vars(Beat(s) \/ ReportHealth(s))
          /\ WF_vars(Answered(s))
          /\ WF_vars(Refused(s))
          /\ WF_vars(ShutDown(s))
          /\ WF_vars(AskRelease(s))
          /\ WF_vars(Leave(s))

-------------------------------------------------------------------------------
(***************************************************************************)
(* Properties                                                              *)
(***************************************************************************)

\* What the Guardian was told to release is up again.
LetGo(s) == pressed[s] \cap agents[s].covers = {}

\* When the Guardian is done with an Agent and reports no error (it starts the
\* next one, or leaves), that Agent is dead and no key of its release set is
\* down, whatever the Agent pressed while it was being stopped; the exception
\* is an Agent whose heartbeat had expired (stop_agent_with_grace,
\* release_on_exit, finalize_supervision).
HandedBackClean ==
    /\ guardian.phase = "idle" \/ (guardian.phase = "off" /\ guardian.exit = "clean")
    /\ Child # NoSlot
    => agents[Child].run = "dead" /\ (~guardian.late => LetGo(Child))

\* The same without the exception, as the test
\* forced_stop_releases_again_after_the_agent_is_reaped says of a forced stop.
HandedBackAfterReap ==
    /\ guardian.phase = "idle" \/ (guardian.phase = "off" /\ guardian.exit = "clean")
    /\ Child # NoSlot
    => LetGo(Child)

\* While the Guardian has an Agent, every key of the release set that the Agent
\* holds down is one the Guardian still means to release: committed or pending
\* in its monitor, or noted for the release after the Agent is gone.
HeldKeysGuarded ==
    guardian.phase \in {"connect", "watch", "grace"} /\ ~guardian.late
    => pressed[Child] \cap agents[Child].covers
           \subseteq ReleaseHolds(guardian.monitor) \cup guardian.snapshot

\* Only a Guardian that dies leaves an Agent behind: every way its supervision
\* can end, errors included, ends the Agent first.
NoAgentLeftBehind ==
    crashes = 0 =>
        \A s \in Slots :
            agents[s].run # "dead" => s = Child /\ guardian.phase \notin {"off", "idle"}

\* A connection is that of the child of a Guardian that is at it, and there is a
\* snapshot only while an Agent is being stopped; what the monitor holds then is
\* in it.
OpenPipe == {"quiet", "request", "reply", "refused"}

PipeInv ==
    /\ \A s \in Slots :
          agents[s].pipe \in OpenPipe => s = Child /\ guardian.phase \in {"watch", "grace"}
    /\ guardian.phase \in {"connect", "watch", "grace"} => Child # NoSlot
    /\ guardian.phase # "grace" => guardian.snapshot = {}
    /\ guardian.phase = "grace" => ReleaseHolds(guardian.monitor) \subseteq guardian.snapshot

\* The thread of an Agent goes with its process, which presses nothing before the
\* Guardian has committed its release set.
Fresh == {"boot", "loaded", "start"}

ProcessInv ==
    /\ \A s \in Slots :
          /\ agents[s].run \in {"dead", "boot", "loaded"} =>
                agents[s].thread = "off" /\ agents[s].pipe \notin OpenPipe
          /\ agents[s].thread \in {"connect", "intent", "commit"} => agents[s].run = "start"
          /\ agents[s].thread = "release" => agents[s].run = "bye"
          /\ agents[s].pipe \in OpenPipe \ {"quiet"} => agents[s].thread \in Waiting
          /\ agents[s].run \in Fresh => pressed[s] = {}
    /\ guardian.phase = "connect" =>
          agents[Child].run \in {"dead"} \cup Fresh /\ pressed[Child] = {}

\* The Guardian means to release the whole release set.
Guarded(s) == agents[s].covers \subseteq ReleaseHolds(guardian.monitor) \cup guardian.snapshot

\* What the Agent asks for is pending in the monitor between the two requests, and
\* guarded from the second answer on.
Asked(p) ==
    \/ p.thread = "intent" /\ p.pipe = "reply"
    \/ p.thread = "commit" /\ p.pipe = "request"

Committed(p) == p.run = "run" \/ (p.thread = "commit" /\ p.pipe = "reply")

GuardInv ==
    /\ guardian.phase = "watch" /\ Asked(agents[Child]) =>
          guardian.monitor.pending = [sequence |-> 1, holds |-> agents[Child].covers]
    /\ guardian.phase \in {"watch", "grace"} /\ ~guardian.late /\ Committed(agents[Child]) =>
          Guarded(Child)

\* The invariants above are inductive together with what they rest on: the
\* threads of Guardian and Agent agree on what has been registered.
IInv ==
    /\ TypeOK
    /\ PipeInv
    /\ ProcessInv
    /\ GuardInv
    /\ HeldKeysGuarded
    /\ HandedBackClean
    /\ NoAgentLeftBehind

\* An Agent that accepts commands has told the Guardian every key its profiles
\* may press (the comment in activate_profile_catalog_if_ready_locked).
InputCovered ==
    \A s \in Slots :
        Online(s) /\ ~agents[s].blocked => Pressable(s) \subseteq agents[s].covers

\* An Agent whose Guardian has gone stops by itself, unless it was waiting for
\* the activation of its suite (the failed beat cancels the runtime).
OrphanStops ==
    \A s \in Slots :
        (/\ agents[s].run \in {"run", "bye"}
         /\ agents[s].pipe = "closed"
         /\ ~agents[s].candidate) ~> agents[s].run = "dead"

===============================================================================
