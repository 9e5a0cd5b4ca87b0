------------------------------- MODULE MCAgent -------------------------------
(***************************************************************************)
(* Nine components of the Agent in one run: the idle close of a managed    *)
(* game and its process, the Worker platform, the music program, target    *)
(* capture, the frame ring, the command translator, the session that       *)
(* enrolment replaces, and telemetry. Their modules share no state, and    *)
(* what one asks of another is an action its module lets happen at any     *)
(* time; so a behaviour is one of one component, which "part" names, and   *)
(* the others keep their initial state.                                    *)
(***************************************************************************)
EXTENDS ManagedGame

CONSTANTS g,
          Processes, Nobody, MaxWindows, p1,
          Holds, Targets, NoTarget, MaxFaults,
          LaneCount, MaximumQueueDepth,
          Windows, NoWindow, MaxFrames, MaxGenerations,
          Sources, NoSource, MaxNumber, MaxPublic, MaxWorkers,
          Attempts, NoAttempt, BeginId, Uses, MaxSequence, MaxInput, MaxAccepts, a1, c1, c2,
          MaxEnrolments,
          Leases, AgentLeases, LongLeases, NoLease, Capacity, BatchSize, MaxEvents,
          MaxMishaps

VARIABLES
  part,
  gameProcs, gameManaged, gameBinding, gameUsed, gameDoing, gameClosed, gameEscaped,
  workerServer, workerDown, workerAgent, workerCapturing, workerReleased,
  workerBlocked, workerFaults,
  musicSeen, musicQueue, musicHeld, musicMirror, musicDown, musicEngine, musicSignals,
  musicOverflow, musicStale,
  captureBindings, captureCounter, captureCapture, capturePublished, captureBlocked,
  captureRepeated, captureAccepted,
  ringWorker, ringCapture, ringCounter, ringMap, ringSession, ringFaulted, ringSeen,
  wireOpen, wireLast, wireContract, wireDigests, wireInput, wireRunning, wireDone,
  wireHandled, wireAccepts, wireInputs,
  hubPointer, hubWhole, hubUsed, hubRegistration, hubWasWaiting, hubConfig, hubWanted,
  hubPhase, hubSession, hubFrame, hubLive, hubTaken,
  logBuffer, logSaved, logRooted, logActive, logLapsed, logGeneration, logLink,
  logWire, logLog, logEvents, logMishaps

processVars == <<gameProcs, gameManaged, gameBinding, gameUsed, gameDoing, gameClosed,
                 gameEscaped>>
workerVars == <<workerServer, workerDown, workerAgent, workerCapturing,
                workerReleased, workerBlocked, workerFaults>>
musicVars == <<musicSeen, musicQueue, musicHeld, musicMirror, musicDown, musicEngine,
               musicSignals, musicOverflow, musicStale>>
captureVars == <<captureBindings, captureCounter, captureCapture, capturePublished,
                 captureBlocked, captureRepeated, captureAccepted>>
ringVars == <<ringWorker, ringCapture, ringCounter, ringMap, ringSession, ringFaulted,
              ringSeen>>
wireVars == <<wireOpen, wireLast, wireContract, wireDigests, wireInput, wireRunning,
              wireDone, wireHandled, wireAccepts, wireInputs>>
hubVars == <<hubPointer, hubWhole, hubUsed, hubRegistration, hubWasWaiting, hubConfig,
             hubWanted, hubPhase, hubSession, hubFrame, hubLive, hubTaken>>
logVars == <<logBuffer, logSaved, logRooted, logActive, logLapsed, logGeneration,
             logLink, logWire, logLog, logEvents, logMishaps>>

\* Each process is another game.
MCGame(x) == IF x = p1 THEN "x" ELSE "y"

G == INSTANCE ManagedProcess WITH Game <- MCGame, procs <- gameProcs, managed <-
                                  gameManaged, binding <- gameBinding, used <-
                                  gameUsed, step <- gameDoing, closed <- gameClosed,
                                  escaped <- gameEscaped

W == INSTANCE WorkerPlatform WITH server <- workerServer, down <- workerDown, agent <-
                                  workerAgent, capturing <- workerCapturing, released
                                  <- workerReleased, blocked <- workerBlocked, faults
                                  <- workerFaults

M == INSTANCE MusicProgram WITH seen <- musicSeen, queue <- musicQueue, held <-
                                musicHeld, mirror <- musicMirror, down <- musicDown,
                                engine <- musicEngine, signals <- musicSignals,
                                overflow <- musicOverflow, stale <- musicStale

T == INSTANCE TargetCapture WITH bindings <- captureBindings, counter <-
                                 captureCounter, capture <- captureCapture, published
                                 <- capturePublished, blocked <- captureBlocked,
                                 repeated <- captureRepeated, accepted <-
                                 captureAccepted

R == INSTANCE FrameRing WITH worker <- ringWorker, capture <- ringCapture, counter <-
                             ringCounter, map <- ringMap, session <- ringSession,
                             faulted <- ringFaulted, seen <- ringSeen

\* Attempt a1 plays with keys and clicks, the others only start the target.
MCIds == [att \in Attempts |-> IF att = a1 THEN {c1, c2} ELSE {c1}]

MCAllows == [att \in Attempts |-> IF att = a1 THEN {4, 5} ELSE {1}]

C == INSTANCE CommandTranslator WITH Ids <- MCIds, Allows <- MCAllows, open <-
                                     wireOpen, last <- wireLast, contract <-
                                     wireContract, digests <- wireDigests, input <-
                                     wireInput, running <- wireRunning, done <-
                                     wireDone, handled <- wireHandled, accepts <-
                                     wireAccepts, inputs <- wireInputs

H == INSTANCE HubSession WITH MaxGenerations <- MaxEnrolments, pointer <- hubPointer, whole <-
                              hubWhole, used <- hubUsed, registration <-
                              hubRegistration, wasWaiting <- hubWasWaiting, config <-
                              hubConfig, wanted <- hubWanted, phase <- hubPhase,
                              session <- hubSession, frame <- hubFrame, live <-
                              hubLive, taken <- hubTaken

L == INSTANCE Telemetry WITH buffer <- logBuffer, saved <- logSaved, rooted <-
                             logRooted, active <- logActive, lapsed <- logLapsed,
                             generation <- logGeneration, link <- logLink, wire <-
                             logWire, log <- logLog, events <- logEvents, mishaps <-
                             logMishaps

\* What the proofs need to know of the constants: the bounds are numbers, and what
\* stands for nothing is none of the things it stands for.
ASSUME MCAgentAssumption ==
  /\ {MaxWindows, MaxFaults, MaxEnrolments, MaxSequence, MaxInput, MaxAccepts} \subseteq Nat
  /\ {MaxGenerations, MaxFrames, MaxNumber, MaxPublic, MaxWorkers} \subseteq Nat
  /\ {LaneCount, MaximumQueueDepth, Capacity} \subseteq Nat
  /\ NoWindow \notin Windows
  /\ NoAttempt \notin Attempts
  /\ NoLease \notin Leases /\ LongLeases \subseteq Leases
  /\ Nobody \notin Processes
  /\ Nobody \notin [process : Processes, window : 1 .. MaxWindows, owned : BOOLEAN]
  /\ Nobody \notin [process : Processes, window : 1 .. MaxWindows]

P(session, version, occupied) ==
  [game |-> g, session |-> session, version |-> version, enabled |-> TRUE, occupied |-> occupied]

MCPolicies == {P(1, 1, FALSE), P(1, 2, TRUE)}

MCProfile == [x \in Games |-> "p"]

MCInit ==
  /\ part \in {"game", "process", "worker", "music", "capture", "ring", "wire", "hub", "log"}
  /\ Init /\ G!Init /\ W!Init /\ M!Init /\ T!Init /\ R!Init /\ C!Init /\ H!Init /\ L!Init

\* What a step of one component leaves alone.
OnlyGame == UNCHANGED <<part, processVars, workerVars, musicVars, captureVars, ringVars, wireVars, hubVars, logVars>>

OnlyProcess == UNCHANGED <<part, vars, workerVars, musicVars, captureVars, ringVars, wireVars, hubVars, logVars>>

OnlyWorker == UNCHANGED <<part, vars, processVars, musicVars, captureVars, ringVars, wireVars, hubVars, logVars>>

OnlyMusic == UNCHANGED <<part, vars, processVars, workerVars, captureVars, ringVars, wireVars, hubVars, logVars>>

OnlyCapture == UNCHANGED <<part, vars, processVars, workerVars, musicVars, ringVars, wireVars, hubVars, logVars>>

OnlyRing == UNCHANGED <<part, vars, processVars, workerVars, musicVars, captureVars, wireVars, hubVars, logVars>>

OnlyWire == UNCHANGED <<part, vars, processVars, workerVars, musicVars, captureVars, ringVars, hubVars, logVars>>

OnlyHub == UNCHANGED <<part, vars, processVars, workerVars, musicVars, captureVars, ringVars, wireVars, logVars>>

OnlyLog == UNCHANGED <<part, vars, processVars, workerVars, musicVars, captureVars, ringVars, wireVars, hubVars>>

gameStep == part = "game" /\ Next /\ OnlyGame

processStep == part = "process" /\ G!Next /\ OnlyProcess

workerStep == part = "worker" /\ W!Next /\ OnlyWorker

musicStep == part = "music" /\ M!Next /\ OnlyMusic

captureStep == part = "capture" /\ T!Next /\ OnlyCapture

ringStep == part = "ring" /\ R!Next /\ OnlyRing

wireStep == part = "wire" /\ C!Next /\ OnlyWire

hubStep == part = "hub" /\ H!Next /\ OnlyHub

logStep == part = "log" /\ L!Next /\ OnlyLog

MCNext ==
  \/ gameStep \/ processStep \/ workerStep \/ musicStep \/ captureStep
  \/ ringStep \/ wireStep \/ hubStep \/ logStep

allVars == <<part, vars, processVars, workerVars, musicVars, captureVars, ringVars, wireVars, hubVars, logVars>>

\* The fairness of each component, as its module states and explains it. A behaviour is
\* one of one component, so that one conjunct may stand for an action of each.
In(name) == part = name /\ part' = name

partVars ==
  CASE part = "game" -> vars
    [] part = "worker" -> workerVars
    [] part = "hub" -> hubVars
    [] part = "log" -> logVars
    [] OTHER -> <<>>

MCFairness ==
  /\ WF_partVars(\/ In("worker") /\ W!TickInputSafety
                 \/ In("game") /\ Connect
                 \/ In("hub") /\ (H!FrameAttaches \/ H!Establish)
                 \/ In("log") /\ L!Progress)
  /\ WF_partVars(\/ In("game") /\ (CloseSucceeds \/ CloseFails)
                 \/ In("hub") /\ (H!Activate \/ H!RequestReconnect))
  /\ SF_partVars(\/ In("game") /\ ReportClose
                 \/ In("hub") /\ H!ReconnectWanted)
  /\ SF_partVars(\/ In("game") /\ (\E r \in link.acks : Acknowledge(r))
                 \/ In("hub") /\ H!EnrollmentWatch)

MCSpec == MCInit /\ [][MCNext]_allVars /\ MCFairness

\* The type invariants of the nine components.
TypesOK == TypeOK /\ G!TypeOK /\ W!TypeOK /\ M!TypeOK /\ T!TypeOK /\ R!TypeOK /\ C!TypeOK /\ H!TypeOK /\ L!TypeOK

\* CloseAccounted of ManagedGame, LaunchedIsHeld and ClosedIsGone of ManagedProcess: a close
\* is recorded and reported, a game that was closed is gone, and one the Agent has launched
\* does not outlive it (managed_game.rs, begin_close; execution.rs, start_task_target).
GamesAccounted == CloseAccounted /\ G!LaunchedIsHeld /\ G!ClosedIsGone

\* ReleaseProven of WorkerPlatform: a key the Agent has reported as released is
\* up in the Worker (worker_platform.rs, release_emergency).
ReleaseProven == W!ReleaseProven

\* ExpiredKeysRise of WorkerPlatform: keys whose input lease ran out go up
\* (worker_platform.rs, tick_input_safety).
ExpiredKeysRise == W!ExpiredKeysRise

\* FollowsTheScreen of MusicProgram: no transition the sampler saw is lost
\* while the program runs (music_engine.rs, row_loop).
FollowsTheScreen == M!FollowsTheScreen

\* ActsOnWhatItSaw of TargetCapture and of FrameRing: input goes to the window and is
\* decided on the newest frame the Hub has seen (execution.rs, execute_v3_input_frame),
\* that frame is whole, and it is the one the Worker knows by its number (frame_ring.rs,
\* publish; generic_controller.rs, require_source_frame).  Each names the frames of which the
\* code does not ensure it.
ActsOnWhatItSaw == T!ActsOnWhatItSaw /\ R!ActsOnWhatItSaw

\* InputsInOrder and ContractIsRunning of CommandTranslator: an input reaches the device
\* once and in order, under the contract of the attempt that runs (v3_adapter.rs,
\* translate_input_frame, accept_begin; control.rs, verify_command_sequence).
InputsInOrder == C!InputsInOrder /\ C!ContractIsRunning

\* PointerNamesWhole of HubSession: current.json names a complete generation, or one
\* tidied away between validation and replacement, which is never installed
\* (enrollment.rs, persist).
PointerNamesWhole == H!PointerNamesWhole

\* ReplacedSessionEnds of HubSession: a session whose enrolment was replaced
\* ends (runtime.rs, run_driver).
ReplacedSessionEnds == H!ReplacedSessionEnds

\* DetailWithinLease of Telemetry: a debug record lies within its diagnostic
\* lease (telemetry.rs, handle_revoke, prune).
DetailWithinLease == L!DetailWithinLease

\* QueueDrains of Telemetry: every queued record is settled or counted
\* (runtime.rs, run_telemetry_once).
QueueDrains == L!QueueDrains

==============================================================================
