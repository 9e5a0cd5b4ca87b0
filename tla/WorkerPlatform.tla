---------------------------- MODULE WorkerPlatform ----------------------------
(***************************************************************************)
(* Input and capture through the Win32 Worker: the Agent's side            *)
(* (bins/fairypam-agent/src/worker_platform.rs), the pipe between them     *)
(* (crates/fairypam-agent-maa/src/worker_client.rs) and the server of the  *)
(* Worker with its arbiter (bins/fairypam-win32-worker/src/local_server.rs *)
(* and realtime_host.rs).                                                  *)
(*                                                                         *)
(* The executor calls the platform one operation at a time, but it is not  *)
(* alone: the capture thread holds the lock of the Worker while it waits   *)
(* for a frame, a realtime program presses keys by itself and may end at   *)
(* any time, and the Worker may stop answering.                            *)
(***************************************************************************)
EXTENDS Naturals, FiniteSets

CONSTANTS
    Holds,     \* the keys of the profile that are held
    Targets,   \* the windows of the game
    NoTarget,
    MaxFaults  \* how many operations may fail

VARIABLES
    server,    \* the Worker process
    down,      \* the keys that are down
    agent,     \* the fields of WorkerRuntimePlatform
    capturing, \* whether a capture thread runs
    released,  \* a release has been reported as done, and nothing was asked for since
    blocked,   \* the task accepts no input after an outcome that is uncertain
    faults

vars == <<server, down, agent, capturing, released, blocked, faults>>

\* Mode "realtime" stands for the modes of a transition too, which is over before
\* the answer.  behind says that the Agent does not know the epoch of the input owner.
Servers ==
    [alive : BOOLEAN, usable : BOOLEAN, behind : BOOLEAN,
     mode : {"detached", "generic", "realtime", "faulted"}, held : SUBSET Holds,
     stream : {"off", "on", "failed"}, program : {"off", "on", "ended", "stuck"},
     event : {"none", "released", "uncertain"}]

NewServer ==
    [alive |-> TRUE, usable |-> TRUE, behind |-> FALSE, mode |-> "detached",
     held |-> {}, stream |-> "off", program |-> "off", event |-> "none"]

Dead == [NewServer EXCEPT !.alive = FALSE]

Agents ==
    [target : Targets \cup {NoTarget}, attached : BOOLEAN, session : BOOLEAN,
     expires : {"none", "set", "due"}, held : SUBSET Holds, program : BOOLEAN,
     terminal : BOOLEAN, faulted : BOOLEAN]

Idle(a) ==
    [a EXCEPT !.session = FALSE, !.expires = "none", !.held = {},
              !.program = FALSE, !.terminal = FALSE]

NewAgent ==
    [target |-> NoTarget, attached |-> FALSE, session |-> FALSE, expires |-> "none",
     held |-> {}, program |-> FALSE, terminal |-> FALSE, faulted |-> FALSE]

Init ==
    /\ server = Dead /\ down = {} /\ agent = NewAgent
    /\ capturing = FALSE /\ released = FALSE /\ blocked = FALSE /\ faults = 0

\* What an operation works on; answer is what the last request came back with.
Here == [server |-> server, down |-> down, agent |-> agent, faults |-> faults,
         answer |-> "applied"]

Becomes(x) ==
    /\ server' = x.server
    /\ down' = x.down
    /\ agent' = x.agent
    /\ faults' = x.faults
    /\ x.faults <= MaxFaults

Faulty(x) == [x EXCEPT !.faults = @ + 1]

Killed(x) == [x EXCEPT !.server = Dead, !.agent.attached = FALSE]

-------------------------------------------------------------------------------
(***************************************************************************)
(* Releasing                                                               *)
(***************************************************************************)

\* How a release goes: the lock of the Worker is taken by the capture thread or not,
\* the Worker does its part, and so does SendInput in the Agent itself.
Ways(x) ==
    {c \in [busy : BOOLEAN, worker : BOOLEAN, keys : BOOLEAN] :
        /\ c.busy => capturing /\ c.worker
        /\ x.faults < MaxFaults \/ (c.worker /\ c.keys)}

\* A server that reports a mode other than detached or generic after ReleaseAll, that
\* does not know this owner, or whose capture stream has failed, has not released.
CanRelease(s) ==
    s.usable /\ ~s.behind /\ s.stream # "failed" /\ s.mode # "faulted"
        /\ s.program # "stuck"

Emptied(s) ==
    [s EXCEPT !.held = {}, !.stream = "off", !.program = "off", !.event = "none",
              !.mode = IF @ = "detached" THEN @ ELSE "generic"]

\* The part of the Worker: ReleaseAll and verify_release_health.
ReleasedByWorker(x, c) ==
    IF ~x.server.alive THEN [x EXCEPT !.answer = "applied"]
    ELSE IF c.busy THEN [x EXCEPT !.answer = "busy"]
    ELSE IF CanRelease(x.server) /\ c.worker
           THEN [x EXCEPT !.server = Emptied(@), !.down = {}, !.answer = "applied"]
           ELSE [Killed(x) EXCEPT !.answer = "refused"]

\* Mutant: the Agent releases only when the Worker has not.
ReleasedByAgentIfNeeded(x, c) ==
    IF x.answer # "applied" /\ x.agent.target # NoTarget /\ c.keys
      THEN [x EXCEPT !.down = {}] ELSE x

\* The part of the Agent: emergency_release_profile.
ReleasedByAgent(x, c) ==
    IF x.agent.target # NoTarget /\ c.keys THEN [x EXCEPT !.down = {}] ELSE x

\* Mutant: what the Agent knows is forgotten even if a part has failed.
ReleaseForgets(x, c) ==
    LET y == ReleasedByAgent(ReleasedByWorker(x, c), c)
        z == IF c.worker /\ c.keys THEN y ELSE Faulty(y)
    IN  [z EXCEPT !.agent = Idle(@)]

\* release_emergency: both parts are tried whatever the other one does, and what the
\* Agent knows is forgotten only if both have succeeded.
Release(x, c) ==
    LET y == ReleasedByAgent(ReleasedByWorker(x, c), c)
        z == IF c.worker /\ c.keys THEN y ELSE Faulty(y)
    IN  IF y.answer = "applied" /\ c.keys THEN [z EXCEPT !.agent = Idle(@)] ELSE z

\* What release_emergency answers.  Without a profile it releases nothing and answers that
\* it has released, so such an answer does not count as a proof.
Reported(x, c) == ReleasedByWorker(x, c).answer = "applied" /\ c.keys

Succeeded(x, c) == Reported(x, c) /\ x.agent.target # NoTarget

Releasing(x) ==
    \E c \in Ways(x) :
        /\ Becomes(Release(x, c))
        /\ released' = Succeeded(x, c)
        /\ blocked' = ~Reported(x, c)

\* mark_uncertain; the journal then blocks the attempt.
Uncertain(x) ==
    LET y == [x EXCEPT !.agent.faulted = TRUE]
    IN  /\ \E c \in Ways(y) : Becomes(Release(y, c)) /\ released' = Succeeded(y, c)
        /\ blocked' = TRUE

-------------------------------------------------------------------------------
(***************************************************************************)
(* Requests                                                                *)
(***************************************************************************)

\* ensure_process
Spawned(x) ==
    IF x.server.alive THEN x
    ELSE [x EXCEPT !.server = NewServer, !.agent.attached = FALSE]

\* The Agent has the holds from the health in the answer and takes the events that
\* came with it.
Answered(x, answer) ==
    [x EXCEPT !.answer = answer, !.agent.held = x.server.held,
              !.server.behind = FALSE, !.server.event = "none",
              !.agent.terminal = @ \/ x.server.event # "none"]

\* An event is refused without a program and a session, or if keys may be down.
BadEvent(x) ==
    \/ x.server.event = "uncertain"
    \/ x.server.event # "none" /\ ~(x.agent.program /\ x.agent.session)

\* A request is to leave what `done` is.  The states in which the answer is clear: the
\* owner is stale, or the server has done it.
Settled(x, done) ==
    LET y == Spawned(x)
    IN  IF ~y.server.usable \/ BadEvent(y) THEN {}
        ELSE {IF y.server.behind THEN Answered(y, "refused") ELSE Answered(done, "applied")}

\* The states in which it is not: nobody answers, the events are refused, or the answer
\* is lost, with the request or without it.
Unsettled(x, done) ==
    LET y == Spawned(x)
        silent(z) == Faulty([z EXCEPT !.server.usable = FALSE])
    IN  {z \in {y} : ~y.server.usable}
          \cup {z \in {Answered(y, "refused")} : y.server.usable /\ BadEvent(y)}
          \cup {silent(z) : z \in {w \in {y} \cup {v \in {done} : ~y.server.behind} :
                                     y.faults < MaxFaults}}

\* An action of MAA fails: the server answers that it is uncertain, releases on its own
\* and accepts nothing more.
MaaFails(x) == Faulty([x EXCEPT !.server.mode = "faulted", !.server.held = {}])

Settle(x) ==
    /\ Becomes(x)
    /\ released' = (released /\ x.answer = "refused")
    /\ UNCHANGED blocked

-------------------------------------------------------------------------------
(***************************************************************************)
(* Attaching                                                               *)
(***************************************************************************)

\* DetachTarget when the target is replaced: it releases unless the stream has failed
\* or the owner is stale, and the process ends in any case.
Detached(x) ==
    Killed(IF x.server.alive /\ CanRelease(x.server) THEN [x EXCEPT !.down = {}] ELSE x)

Attached(x, t) ==
    [x EXCEPT !.server = [NewServer EXCEPT !.mode = "generic"],
              !.agent.target = t, !.agent.attached = TRUE]

Reuses(x, t) == x.agent.target = t /\ x.agent.attached /\ x.server.alive

\* attach: what it leaves, with whether it has succeeded.
Attachments(x, t) ==
    IF Reuses(x, t) THEN {[x EXCEPT !.answer = "applied"]}
    ELSE LET y == IF x.agent.target = t THEN x ELSE Detached(x)
         IN  {[Attached(y, t) EXCEPT !.answer = "applied"]}
                 \cup (IF y.faults < MaxFaults
                         THEN {Faulty([Killed(y) EXCEPT !.answer = "refused"])} ELSE {})

\* lock, start_task_target and rediscover_target.  The stream of the Agent has been
\* stopped, and input released, when the executor moves to another window.
Bind(t) ==
    /\ ~capturing /\ ~agent.session
    /\ \E x \in Attachments(Here, t) : Becomes(x)
    /\ UNCHANGED <<capturing, released, blocked>>

-------------------------------------------------------------------------------
(***************************************************************************)
(* Input                                                                   *)
(***************************************************************************)

InputAllowed(x) == x.server.alive /\ x.server.mode = "generic"

\* Opening a session needs a Worker that is trusted again.
Opened ==
    IF agent.session THEN {Here}
    ELSE {x \in Attachments(Here, agent.target) : ~agent.faulted}

InSession(x) == [x EXCEPT !.agent.session = TRUE, !.agent.expires = "set"]

\* The plan of input_frame_key_plan up to some point: keys go up before others go down.
PressedTo(x, h) == [x EXCEPT !.down = (@ \ (x.agent.held \ h)) \cup (h \ x.server.held),
                             !.server.held = h]

Partway(x, h) == {[x EXCEPT !.down = @ \ (x.agent.held \ h)], PressedTo(x, h)}

\* retain_input_lease_for_holds
Retained(x) == IF x.agent.held = {} THEN [x EXCEPT !.agent.expires = "none"] ELSE x

\* apply_task_input_frame
ApplyInputFrame(h) ==
    /\ agent.target # NoTarget /\ ~blocked
    /\ \E o \in Opened :
         IF o.answer = "refused" THEN Becomes(o) /\ UNCHANGED <<released, blocked>>
         ELSE LET x == InSession(o) IN
              \/ /\ h = x.agent.held     \* nothing to do
                 /\ Becomes(Retained(x)) /\ released' = FALSE /\ UNCHANGED blocked
              \/ /\ h # x.agent.held
                 /\ \/ LET done == IF InputAllowed(x) THEN PressedTo(Spawned(x), h)
                                                      ELSE Spawned(x)
                       IN  \/ \E y \in Settled(x, done) :
                                IF InputAllowed(x) /\ y.answer = "applied"
                                  THEN Settle(Retained(y))
                                  ELSE Settle([y EXCEPT !.answer = "refused"])
                           \/ \E y \in Unsettled(x, done) : Uncertain(y)
                    \/ /\ InputAllowed(x) /\ x.server.usable /\ ~x.server.behind
                       /\ x.faults < MaxFaults
                       /\ \E y \in Partway(x, h) : Uncertain(MaaFails(y))
    /\ UNCHANGED capturing

\* The lease runs out, and tick_input_safety finds it so.
LeaseExpires ==
    /\ agent.expires = "set"
    /\ agent' = [agent EXCEPT !.expires = "due"]
    /\ UNCHANGED <<server, down, capturing, released, blocked, faults>>

TickInputSafety == agent.expires = "due" /\ Releasing(Here) /\ UNCHANGED capturing

\* release_task_input, and local input in guard_local_input.
ReleaseTaskInput == Releasing(Here) /\ UNCHANGED capturing

\* close and close_with_progress end with detach_worker, which waits for the lock.
Close ==
    /\ agent.target # NoTarget /\ ~capturing
    /\ \E c \in Ways(Here) :
         LET x == Detached(Release(Here, c))
         IN  /\ Becomes([x EXCEPT !.agent.target = NoTarget, !.agent.faulted = FALSE])
             /\ released' = Succeeded(Here, c)
             /\ blocked' = ~Reported(Here, c)
    /\ UNCHANGED capturing

\* configure_worker after the profiles have changed, between two sessions.
Configure ==
    /\ ~agent.session /\ ~capturing
    /\ Becomes([Killed(Here) EXCEPT !.agent = [Idle(@) EXCEPT !.target = NoTarget]])
    /\ UNCHANGED <<capturing, released, blocked>>

\* ensure_worker_ready: a Worker that does not answer is ended, what it held is released,
\* and the attempt is blocked whatever the release has come to.
NotReady(x) == Uncertain(Killed(x))

EnsureReady ==
    /\ \/ /\ server.usable /\ ~server.behind /\ Becomes(Spawned(Here))
          /\ UNCHANGED <<released, blocked>>
       \/ server.alive /\ (server.behind \/ ~server.usable) /\ NotReady(Here)
       \/ faults < MaxFaults /\ NotReady(Faulty(Here))
    /\ UNCHANGED capturing

-------------------------------------------------------------------------------
(***************************************************************************)
(* Realtime programs                                                       *)
(***************************************************************************)

NoProgram(x) == [x EXCEPT !.agent.program = FALSE, !.agent.terminal = FALSE]

StartedProgram(x) == [x EXCEPT !.server.program = "on", !.server.mode = "realtime",
                               !.server.stream = "off", !.down = {}]

CanStart(s) == s.alive /\ s.mode = "generic" /\ s.held = {} /\ s.stream # "failed"

\* What is held is released first, and the session opened again.
HandsFree(x) ==
    IF x.agent.held = {} THEN {x}
    ELSE {[Release(x, c) EXCEPT !.agent.session = TRUE] : c \in {w \in Ways(x) : Reported(x, w)}}

ReleaseRefused(x) ==
    /\ x.agent.held # {}
    /\ \E c \in Ways(x) : ~Reported(x, c) /\ Becomes(Release(x, c))
    /\ released' = FALSE /\ blocked' = TRUE

\* The request, with nothing held.
Starts(r) ==
    LET x == [r EXCEPT !.agent.program = TRUE, !.agent.terminal = FALSE]
        done == IF CanStart(x.server) THEN StartedProgram(Spawned(x)) ELSE Spawned(x)
    IN  \/ \E y \in Settled(x, done) :
             IF CanStart(x.server) /\ y.answer = "applied"
               THEN Settle([y EXCEPT !.agent.expires = "none"])
               ELSE Settle(NoProgram([y EXCEPT !.answer = "refused"]))
        \/ \E y \in Unsettled(x, done) : Uncertain(y)

\* start_realtime_program
StartProgram ==
    /\ agent.target # NoTarget /\ ~blocked /\ ~agent.faulted
    /\ \E o \in Attachments(Here, agent.target) :
         IF o.answer = "refused" THEN Becomes(o) /\ UNCHANGED <<released, blocked>>
         ELSE \/ ReleaseRefused(InSession(o))
              \/ \E r \in HandsFree(InSession(o)) : Starts(r)
    /\ UNCHANGED capturing

\* The program holds and lets go of keys as it sees fit.
ProgramPresses ==
    /\ server.alive /\ server.program = "on"
    /\ \E h \in SUBSET Holds : h # down /\ down' = h
    /\ UNCHANGED <<server, agent, capturing, released, blocked, faults>>

\* The program ends by itself; its own release may fail.
ProgramEnds ==
    /\ server.alive /\ server.program = "on"
    /\ \/ /\ server' = [server EXCEPT !.program = "ended"]
          /\ down' = {} /\ UNCHANGED faults
       \/ /\ faults < MaxFaults /\ faults' = faults + 1
          /\ server' = [server EXCEPT !.program = "stuck"]
          /\ UNCHANGED down
    /\ UNCHANGED <<agent, capturing, released, blocked>>

\* finish_realtime_if_ready: the owner changes without an answer that would tell.
FinishProgram ==
    /\ server.alive /\ server.program \in {"ended", "stuck"}
    /\ server' = [server EXCEPT
                    !.mode = IF server.program = "ended" THEN "generic" ELSE "faulted",
                    !.event = IF server.program = "ended" THEN "released" ELSE "uncertain",
                    !.program = "off", !.behind = TRUE]
    /\ UNCHANGED <<down, agent, capturing, released, blocked, faults>>

\* renew_realtime_program and poll_realtime_program_events ask and change nothing else.
PollProgram ==
    /\ agent.program /\ ~agent.terminal
    /\ \/ \E y \in Settled(Here, Spawned(Here)) : Settle(y)
       \/ \E y \in Unsettled(Here, Spawned(Here)) : Uncertain(y)
    /\ UNCHANGED capturing

\* stop_realtime_program
StopProgram ==
    /\ agent.program
    /\ IF agent.terminal THEN Becomes(NoProgram(Here)) /\ UNCHANGED <<released, blocked>>
       ELSE LET stops == server.alive /\ server.mode = "realtime"
                done == IF stops
                          THEN [Here EXCEPT !.server = Emptied([@ EXCEPT !.stream = "off"]),
                                            !.down = {}]
                          ELSE Spawned(Here)
            IN  \/ \E y \in Settled(Here, done) :
                     IF stops /\ y.answer = "applied"
                       THEN Settle(NoProgram(y))
                       ELSE Settle([y EXCEPT !.answer = "refused"])
                \/ \E y \in Unsettled(Here, done) : Uncertain(y)
    /\ UNCHANGED capturing

-------------------------------------------------------------------------------
(***************************************************************************)
(* Capture                                                                 *)
(***************************************************************************)

\* start_capture
StartCapture ==
    /\ agent.target # NoTarget /\ ~capturing
    /\ \E o \in Attachments(Here, agent.target) :
         IF o.answer = "refused" THEN Becomes(o) /\ UNCHANGED <<capturing, released, blocked>>
         ELSE LET starts == o.server.mode = "generic" /\ o.server.stream = "off"
                  done == IF starts THEN [Spawned(o) EXCEPT !.server.stream = "on"]
                                    ELSE Spawned(o)
              IN  /\ \/ \E y \in Settled(o, done) :
                          Becomes(y) /\ UNCHANGED <<released, blocked>>
                     \/ \E y \in Unsettled(o, done) : Uncertain(y)
                  /\ capturing' = (starts /\ server'.stream = "on" /\ server'.usable)

\* next_frame: a frame of the stream says that the Worker works.
FrameArrives ==
    /\ capturing /\ server.alive /\ server.stream = "on"
    /\ agent' = [agent EXCEPT !.faulted = FALSE]
    /\ UNCHANGED <<server, down, capturing, released, blocked, faults>>

StreamFails ==
    /\ server.alive /\ server.stream = "on" /\ faults < MaxFaults
    /\ server' = [server EXCEPT !.stream = "failed"]
    /\ faults' = faults + 1
    /\ UNCHANGED <<down, agent, capturing, released, blocked>>

\* No frame comes, or the capture cannot be stopped: invalidate ends the Worker and the
\* keys of the profile go up, but the session stays; the executor hears of it, blocks the
\* attempt and releases (capture_failure_event).
Invalidated(x, c) ==
    LET y == Killed([x EXCEPT !.agent.faulted = TRUE])
    IN  IF c THEN [y EXCEPT !.down = {}] ELSE Faulty(y)

CaptureEnds ==
    /\ capturing /\ capturing' = FALSE
    /\ \/ /\ server.stream # "on" \/ ~server.alive \/ ~server.usable \/ server.behind
          /\ \E c \in BOOLEAN : (faults < MaxFaults \/ c) /\ Becomes(Invalidated(Here, c))
          /\ blocked' = TRUE
       \/ /\ server.alive /\ server.stream = "on" /\ server.usable /\ ~server.behind
          /\ Becomes([Here EXCEPT !.server.stream = "off"])
          /\ UNCHANGED blocked
    /\ UNCHANGED released

\* capture_once; a deadline that passes in the round trip costs the Worker, and so does
\* a frame that cannot be read afterwards, after which the caller releases.
CaptureOnce ==
    /\ agent.target # NoTarget /\ ~capturing /\ agent.expires # "due"
    /\ \E o \in Attachments(Here, agent.target) :
         IF o.answer = "refused" THEN Becomes(o) /\ UNCHANGED <<released, blocked>>
         ELSE \/ /\ o.server.mode = "generic"
                 /\ LET done == [Spawned(o) EXCEPT !.agent.faulted = FALSE]
                    IN  \/ \E y \in Settled(o, done) :
                             Becomes(y) /\ UNCHANGED <<released, blocked>>
                        \/ \E y \in Unsettled(o, done) : Uncertain(y)
              \/ /\ o.faults < MaxFaults
                 /\ Releasing(Faulty(Killed([o EXCEPT !.agent.faulted = TRUE])))
              \/ /\ o.server.mode = "generic" /\ o.faults < MaxFaults
                 /\ \E c \in BOOLEAN : Releasing(Faulty(Invalidated(o, c)))
    /\ UNCHANGED capturing

-------------------------------------------------------------------------------
Next ==
    \/ \E t \in Targets : Bind(t)
    \/ \E h \in SUBSET Holds : ApplyInputFrame(h)
    \/ LeaseExpires \/ TickInputSafety \/ ReleaseTaskInput \/ Close \/ Configure
    \/ EnsureReady
    \/ StartProgram \/ ProgramPresses \/ ProgramEnds \/ FinishProgram
    \/ PollProgram \/ StopProgram
    \/ StartCapture \/ FrameArrives \/ StreamFails \/ CaptureEnds \/ CaptureOnce

Spec == Init /\ [][Next]_vars

TypeOK ==
    /\ server \in Servers /\ down \subseteq Holds /\ agent \in Agents
    /\ {capturing, released, blocked} \subseteq BOOLEAN
    /\ faults \in 0 .. MaxFaults

\* Once a release has been reported as done, no key is down and nothing can press one
\* until input is asked for again (release_emergency).
ReleaseProven == released => down = {} /\ server.program # "on"

\* The ticks of the executor find a lease that has run out, and try again while they find
\* one.
Fairness == WF_vars(TickInputSafety)

FairSpec == Spec /\ Fairness

\* Once the lease of the held keys has run out they go up, whatever fails on the way, unless the target
\* is given up with a key down: the profile goes with it, and the release that follows
\* has nothing to release and reports success (detach_worker, release_emergency).
ExpiredKeysRise ==
    (agent.expires = "due" /\ down \cap agent.held # {} /\ server.program = "off")
        ~> (down = {} \/ agent.expires = "set" \/ agent.target = NoTarget)

-------------------------------------------------------------------------------
\* The inductive invariant: a process that is gone runs no program.
GoneRunsNothing == ~server.alive => server.program = "off"

IInv == TypeOK /\ GoneRunsNothing /\ ReleaseProven

===============================================================================
