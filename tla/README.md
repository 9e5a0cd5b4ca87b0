# FairyPam Agent: TLA+ models, checks and proofs

This directory is a verification development of the FairyPam Agent, a Windows
program that takes task commands from a Hub, drives a game through a Worker
process, and must never leave keys pressed, run a command twice, or tell the Hub
something that is not so.

## 1. The system

Processes and what they say to each other:

| Process | Source | Talks to |
|---|---|---|
| Agent | `bins/fairypam-agent` | Hub (control and frame streams), Worker (local pipe), Guardian (local pipe), Shell (local pipe) |
| Win32 Worker | `bins/fairypam-win32-worker` | Agent; it owns the device: keys, mouse, window, capture |
| Guardian | `bins/fairypam-agent-guardian` | starts the Agent, watches its heartbeats, releases what it held |
| Shell, Installer | `bins/fairypam-agent-shell`, `bins/fairypam-agent-installer` | the user, the service manager |

Components of the Agent and of the crates, with the state each keeps, its
operations, what is hard about it and what makes it correct:

| Component | State | Operations | Hard part | Correct when |
|---|---|---|---|---|
| Task attempt journal (`task_attempt.rs`) | active record, `loaded`, one append-only file per attempt | begin, inspect, replay, reject, prepare, recovery, complete, load, persist | crash between device and result, failed and torn appends, retries | a command runs once, is answered one way, and the file can be read back |
| Command handlers (`execution.rs`) | binding, capture, target generation, frame sequences | one handler per command, `reset_session`, `tick_safety`, capture and realtime failures | partial failure, clean-up without a command | every handler leaves journal and device in step |
| Control session (`runtime.rs`) | session, translator, senders | establish, command loop, health tick, clear | a session ends between any two commands | a session starts only on a released attempt |
| v3 translator (`v3_adapter.rs`) | active contract, digests | translate, accept_begin | a contract outlives its attempt | commands run only under their own contract |
| Managed game (`managed_game.rs`) | policies, closing gate, close receipt, activity | bind, configure, due, begin/fail/receipt/acknowledge close | persist fails, crash while closing, receipt overwritten | an occupied game is never closed, a receipt is reported until acknowledged |
| Managed process (`execution.rs`, `window.rs`, `process.rs`) | the managed record with its Job Object, the binding | start, take over, lock, rediscover, close, drop | games exit and change windows between two steps, the Agent dies | a launched game ends with its Agent, a closed one is gone |
| Worker platform (`worker_platform.rs`) | input lease, guard holds, Worker connection | input, capture, release, restart | Worker dies with keys down | holds are released before the lease is forgotten |
| Session supervisor (`core/supervisor.rs`) | cancellation tokens, back-offs | run_one_session, control and frame failure | the two streams fail in any order | gate closed and holds released before tasks end |
| Agent machine (`core/state.rs`) | connection, profile, target, capability | events and effects | stale capability after a change | no input without a fresh capability |
| Lease executor (`input/lease.rs`) | held actions, gate, expiry, guarded frame, sequence | apply, renew, tick, release, pulse, point | press fails between intent and commit | what is pressed is always known to the Guardian |
| Guardian (`guardian/monitor.rs`, `main.rs`) | committed and pending holds, heartbeat deadline, activation window | register, intent, commit, heartbeat, tick, release; supervise, promote, roll back | release fails, the Agent hangs, dies or is replaced | keys are up when the Agent is gone; a bad version is rolled back |
| Profile catalog (`profile_catalog.rs`) | staged and active versions on disk | stage, activate | crash between two renames | the active version is always a complete one |
| Suite activation (`agent-suite`, installer, `guardian/main.rs`) | `current.json`, `rollback-pending.json`, installed and staged versions, the Guardian's watch | install, undo, promote, roll back | three processes write two files, each may die in between | the active build and every fallback exist, a candidate is proved or rolled back |
| Transport (`agent-transport`) | latest-frame slot, back-off | publish, stream, verify | a stale generation, an overwritten frame | only the newest frame of this session is sent |
| Worker server, client, frame ring | holds, ring slots, the window of known frames | attach, capture, publish, read, release | two writers and a reader without a lock, a Worker that hangs or restarts | the frame an input acts on is the one the Hub saw, whole |
| Music program (`music_engine.rs`) | lanes seen, the bounded channel, keys held | sample, dispatch, stop | overflow, stale transitions, four reasons to stop | the keys follow the screen, or the program ends |
| Enrolment (`enrollment.rs`) | generations on disk, the pointer, the request for a new session | claim, validate, publish, retire | crashes, a second process that tidies | the pointer names a complete generation, a replaced session ends |
| Telemetry (`telemetry.rs`) | bounded queue, claims, receipts, diagnostic leases | record, batch, acknowledge, lease, revoke, expire | lost answers, failed writes, restarts | the queue drains, detail lies within its lease |
| Local control, Profile model, Shell's window | UI, signed documents | | I/O and pure checks | not modelled |

Interactions that matter: the session loop calls the executor under a mutex, and
the executor calls the journal and the platform; the platform calls the Worker;
the Guardian channel probes the executor's health with `try_lock` and never
waits for it; the supervisor's hooks call the executor when a stream ends; the
Guardian kills and restarts the Agent process, after which only files are left.

`PROJECT.json` lists every hazard this exposes the code to, at its line, with the
property that covers it or the reason why none does.

## 2. Modules

| Module | Models | Kind |
|---|---|---|
| `TaskLedger` | the journalled record, its result store, validation and the fold of `load_last` | operators |
| `TaskAttempt` | the journal with the handlers, the session loop and the crashes around it | state machine |
| `SideEffectGate` | what the journal promises the device: a command is let through at most once | abstract specification |
| `MCTaskAttempt` | payloads, kinds and symmetry of the small instances | TLC |
| `TaskAttemptProofs` | the inductive invariant and what follows from it | TLAPS |
| `JournalProofs` | answers, ledgers and slots of the journal | TLAPS |
| `GuardianMonitor` | what the Guardian remembers of its Agent: intents, holds, releases | operators |
| `Supervision` | Guardian, Agent processes, their pipe, catalogs and the keys held down | state machine |
| `MCSupervision` | two Agents, a button, a key and a catalog | TLC |
| `SupervisionProofs` | the inductive invariant of Guardian and Agents | TLAPS |
| `Activation` | the installer, the Guardians' watch over a candidate, and the files they share | state machine |
| `MCActivation` | up to three builds, two Guardians | TLC |
| `ActivationProofs` | the inductive invariant of the files, the installer and the Guardians | TLAPS |
| `AgentMachine` | the Agent's machine and the capability it issues | actions |
| `LeaseExecutor` | the lease executor, on top of `AgentMachine` and `GuardianMonitor` | state machine |
| `MCLease` | one key to hold, one to pulse, one button, two sessions | TLC |
| `LeaseProofs` | the inductive invariant of executor, Guardian and device | TLAPS |
| `ManagedGame` | idle close of a game, its file and its receipts | state machine |
| `ManagedProcess` | the process of the game, its Job Object and its windows | state machine |
| `WorkerPlatform` | input and capture through the Worker, and the Worker's side of it | state machine |
| `MusicProgram` | sampler and engine of the music program | state machine |
| `TargetCapture` | target generations, frame numbers and the input decided on them | state machine |
| `FrameRing` | the shared ring, its writers and reader, the maps of frame numbers | state machine |
| `CommandTranslator` | command sequence, contract, digests, input sequence | state machine |
| `HubSession` | the supervisor, its two streams, and enrolment | state machine |
| `Telemetry` | the record queue, batches, diagnostic leases | state machine |
| `MCAgent` | small instances of the nine modules from `ManagedGame` on | TLC |
| `WorkerProofs`, `FrameProofs` | the inductive invariants of `WorkerPlatform`, `MusicProgram`, `TargetCapture` and `FrameRing` | TLAPS |
| `AgentProofs` | those of the translator, the games, their processes, enrolment and telemetry; the theorems about `MCAgent` | TLAPS |

### TaskAttempt

The executor is behind a mutex, so handlers do not interleave with each other; a
handler is cut only where something outlives the process. `Prepare` appends the
intent, `Fire` drives the device, the `Complete` actions append the result and
answer. A `Crash` may come between any two of them, also inside a handler.

- `mem`, `loaded`: `TaskAttemptRuntime.active` and `.loaded`. `ledger`: the file of
  each attempt, as `load_last` rebuilds it. `session`, `contract`: an established
  control session and `Translator.active_contract`. `lease`, `capturing`,
  `binding`: `input_expires_at`, `CommandExecutor.capture` and `.binding`.
  `busy`, `executed`: the handler that is running. `fired`, `answered`: history.
- An append ends in one of four modes: `ok`; `lost` (nothing written, an error);
  `kept` (the line is on disk, `sync_all` fails); `torn` (part of the line).
- What is left out of a handler is a choice: the translator's checks are the choice
  between `Prepare` and `Reject`, the device's answer the choice of the outcome.
- `Kinds` are the commands the v3 translator produces. `complete_input_lease` and
  `complete_pulse` belong to v1 commands it never produces, and are not modelled.
  Sequence numbers only refuse commands; source frames, generations, error
  codes and the contract's text are not modelled. `recovered_active` is only
  read by the local status and is not modelled. A digest conflict is answered with an
  error about the digest, and is not counted among the answers of the command.

### Supervision

The Guardian, every Agent process it has started (an orphan of a Guardian that
died included) and the pipe between the two.

- `agents[s]`: the process in slot `s`. `run` is how far `run_standalone` has come,
  `thread` what the Guardian thread of `guardian_channel.rs` waits for, `pipe` the
  connection with the one message that can be on it. `connected`, `cancelled`,
  `profiles`, `active`, `staged`, `blocked` and `busy` are the parts of the runtime
  and of the executor that decide what may be pressed; `covers` is `release_set`.
- `guardian`: `phase` is where `run_supervisor` and `supervise_agent_inner` are
  (`grace`: in `stop_agent_with_grace`, between the two releases), `monitor` the
  record of `GuardianMonitor`, `snapshot` its local copy of the holds, `then` the
  outcome; `candidate` says that a pending activation is not promoted yet. `late` and
  `exit` are history.
- `pressed[s]`: the keys the Agent in slot `s` has pressed and nobody has let go of.
  A release lets go of a key whoever pressed it; one that fails lets go of none (a
  partial `SendInput` lets go of some, which the properties cannot tell apart).
- A stop is two steps, `StopAgent` and `Reap`, and the Agent runs on between them.
  Everything else the supervisor does in one turn of its loop is one step.
- There is no clock. A deadline may pass at any time: the connect wait, the
  heartbeat, the health window and the grace period are missed by a thread that is
  late enough. A kill always succeeds. A catalog that cannot be read is not modelled,
  nor is an activation or a rollback that fails on its files, nor a thread of the health
  probe that cannot be started (`guardian_channel.rs:145-153`): `SpawnAgent` has it run.

### Activation

One installer at a time (the mutex of `InstallTransaction`) and any number of
Guardians, which take no part in that mutex: `stop_shell` waits for the window of
the Shell and not for the Guardian, which its Shell waits for up to 7 s.

- `pointer` and `pending` are `current.json` and `rollback-pending.json`, each
  replaced atomically; `versions` and `staged` the directories `versions/<build>` and
  `versions/<build>.pending`.
- `installer`: the fields of `InstallActivation` and the step it has come to. Every
  file operation of `from_flat_payload`, `commit` and `rollback` is an action, every
  error path another one; it may die at any step.
- `guardians[g]`: how far `ActivationWatch` has come (`load`, `watch`, `promote`,
  `rollback`, `clear`; `plain` without a watch), the build it was started from, and
  whether a Shell holds its pipe (`owned`). One Shell runs in a session, so at most one
  Guardian is owned; the others are the Guardians of Shells that died or are closing.
- `torn` says that a mishap struck between the two files, `installer.before` and
  `.moved` what the last install found and whether a Guardian has interfered; the
  three are history.
- `from_flat_payload` reads the pointer twice, as bytes and parsed (installer
  `main.rs:349`, `363`); `ReadPointer` is one step. A Guardian that rolls back in between
  would make the two differ.
- The verification of trees, manifests and signatures is a check that may fail.
  The uninstaller, the directories of `provision` and the removal of the flat
  payload are not modelled beyond that; nor is a candidate whose files are damaged.

### AgentMachine and LeaseExecutor

Every operation of the executor takes `&mut self` and is one step; what may fail inside it is
a choice counted by `faults`. A call to the Guardian that fails was either lost or carried
out without an answer.

- `machine` is `Machine` with its context, `target` the window in front, `owed` a
  `ReleaseAll` the machine has asked for. Instants are the time left until them.
- `lease` are the fields of `LeaseExecutor`, `guardian` the record of `GuardianMonitor`,
  `pressed` what is down. `forgotten` is history and has three sources, one operator each: a
  hold that `execute_client_point` takes from the Guardian (`Displaced`), a pulse whose
  release failed (`PulseFails`), and the keys a guarded frame pressed before it failed, which
  are not among the holds (`Stray`). No commit and no other press adds to it. A key leaves it
  when it goes up, or when executor and Guardian both hold it again (`Astray`).
- A capability borrows the machine, so it is issued and used in the step of one operation
  (`Permitted`). The crate is used by its tests only; the binaries press through the
  Worker, which `WorkerPlatform` models.

### ManagedGame and ManagedProcess

`ManagedGame`: `state` is `PersistedState`, `disk` the file, `active` the policy of the
game the Hub has had started, `target` the profile of the executor's binding, `busy` the
close that is under way and `link` the connection with receipts and acknowledgements on
it. A write that fails leaves memory and disk apart, as `persist` does. A local launch or
`StopSession` moves the target without the lifecycle. The gate has room for one identity:
a close of another game replaces what it names (`begin_close`), and with it what is known of
the first close (`Displaced`). Binding to another Agent identity is left out.

`ManagedProcess`: `procs` are the processes of the games and the window each shows,
`managed` is `WindowsRuntimePlatform.managed`, `step` what the handler is waiting for. A start has
three steps (spawn, assign to the Job, wait for the window), a close two, and games
exit, appear and change windows between them. A record with a child holds its Job, which
kills it when the handle closes, also when the Agent dies. `escaped` names the processes of
an Agent that died between spawn and Job: the code has no answer to that.

### WorkerPlatform, MusicProgram, FrameRing, TargetCapture

- `WorkerPlatform`: the pipe has one request at a time. `server` is the Worker (arbiter,
  holds, program), `agent` the fields of the platform with the lease as `set` or `due`,
  `capturing` a capture thread that may hold the lock when a release wants it. The Worker
  may hang, answer late, die or be killed; the Agent may start anew beside it.
- `MusicProgram`: the sampler sends to a bounded channel, the engine looks in every round
  first whether it may go on. `overflow` and `stale` are the two ways a transition is lost
  on purpose. The keys that a batch leaves down (`Applied`) are stated by the last transition
  of every lane, as a set, and not by a loop over the batch.
- `FrameRing`: the writers and the reader of the ring are modelled store by store (pixels,
  header, number), in program order; `map` is `SourceFrameMap`, `worker.window`
  `SourceFrameWindow`. Releases, attachments and restarts come in between.
- `TargetCapture`: `bindings` are the target generations, `counter` the entry of
  `frame_sequences` that executor and capture thread share, `accepted` the last input.
  Rediscovery, failure and restart of a capture are actions of their own.

### CommandTranslator, HubSession, Telemetry

- `CommandTranslator`: the stream's sequence check, the translator of a session (new with
  each session) and of the journal only which commands have a result. A command that is
  not an input stands for all of its kind; the checks of fields are a choice.
- `HubSession`: the phases of `SessionSupervisor`, the registration thread step by step
  over the directory it shares with other processes, the permit of
  `reconnect_requested`.
- `Telemetry`: `buffer` is what `persist` writes, `saved` the file; one batch or its answer
  is on the wire. Every error ends the connection and with it every active lease. An
  answer may be lost, refuse records, or name an older batch (which is no step). The queue
  is the set of its records: they stand in it in the order of their ids (`Before`), since
  each takes the next sequence of the newest process and goes to the end. `LongLeases` are
  those that last longer than the seven days after which `prune` forgets a receipt; nothing
  in the Agent bounds a lease. Sent again after that, such a lease is applied anew with a
  later boundary, and what was written under it before lies outside: `DetailWithinLease`
  excepts these leases and the run has none of them. The theorems hold with any.

`MCAgent` puts these nine modules into one run. They share no state: what one asks of
another is an action that its module lets happen at any time, which is more than the code
does. A behaviour of the run is one of one component, named by `part`; the run is their
disjoint union and says nothing of their interleavings.

## 3. What the runs show

The runs of `MCTaskAttempt` check safety only and assume no fairness.
`CHECK_DEADLOCK` is on everywhere but in `installs` and `agent`, where a component may have
nothing left to do: the installs, the enrolments or the commands of the instance are used up.

| Run | Instance | Shows |
|---|---|---|
| `replay` | 2 attempts, 2 ids, begin, frame and inspect; appends `ok`, `torn`; crashes | `AtMostOnce`, `SessionOwnsLiveAttempt`, `OneLiveLedger`, `GateSpec` |
| `nocrash` | 1 attempt, 4 ids, five kinds, limits 3/0/0/1; `ok`, `torn`; no crash | `AnswersTrue`, `ResolvedBeforeNext`, `RecoveryReserve` |
| `cleanup` | 1 attempt, 3 ids, all kinds but frame and inspect; `ok`, `torn`; crashes | `LedgerReloads`, `AnswersAgree`, `TerminalIsFinal` |
| `v_finish` | 2 attempts; the finish append writes nothing | `AtMostOnce` fails |
| `v_true` | 2 attempts; crashes | `AnswersTrue` fails |
| `v_reload` | 1 attempt; the input cannot always be released | `LedgerReloads` fails |
| `supervised` | 2 Agent processes, one of which may be an orphan; a button, a key, a catalog to come; one crash of the Guardian | `HandedBackClean`, `HeldKeysGuarded`, `NoAgentLeftBehind`, `OrphanStops` |
| `v_expired` | the same | `HandedBackAfterReap` fails |
| `v_catalog` | the same, on a machine without a catalog | `InputCovered` fails |
| `installs` | a machine without FairyPam; 2 builds, 3 installs, 2 Guardians, 2 mishaps | `ActiveInstalled`, `FallbackInstalled`, `PendingMatches`, `FailedInstallUndone`, `Decided` |
| `lease` | a held key, a pulsed key, a button, 2 sessions, 2 windows, 2 failing calls | `HoldsGuarded`, `ControlEarned`, `AppliedOnce`, `LeftoversReleased` |
| `agent` | nine components, see below | their properties |

Each passing run also checks the type invariant of its modules, the runs of `MCTaskAttempt`
in `replay`.

The properties of `agent`, by component:

| Component, instance | Property |
|---|---|
| `ManagedGame`: 1 game, 2 policies, five writes that may fail, 1 lost connection or process | `CloseAccounted` (in `GamesAccounted`): a close for idleness is never forgotten, a failed one not repeated; `ReceiptDelivered` |
| `ManagedProcess`: 2 processes of 2 games, 1 window each | `LaunchedIsHeld`, `ClosedIsGone` (in `GamesAccounted`) |
| `WorkerPlatform`: 1 key, 2 windows, 2 faults | `ReleaseProven`, `ExpiredKeysRise` |
| `MusicProgram`: 2 lanes, a channel of 2 | `FollowsTheScreen` |
| `TargetCapture`: 2 windows, 2 generations, 2 frames | `ActsOnWhatItSaw` |
| `FrameRing`: 1 source, 3 frame numbers, 2 public ones, 2 Worker processes | `ActsOnWhatItSaw` |
| `CommandTranslator`: 2 attempts, 2 ids for one of them, command sequences to 1, inputs to 2, 2 accepted Begins | `InputsInOrder`, `ContractIsRunning` |
| `HubSession`: 3 generations | `PointerNamesWhole`, `ReplacedSessionEnds` |
| `Telemetry`: 1 lease, a queue of 2, batches of 1, 1 event, 1 mishap | `DetailWithinLease`, `QueueDrains` |

The bounds. Two slots hold an orphan and the Agent of the next Guardian; a second
orphan needs a second crash. A button is held by every release set and the key only
by those of a process that started with the catalog. One catalog after none is
enough for a release set to be older than the profiles.

`OrphanStops` is checked under `FairSpec`: weak fairness of the Guardian thread (it
beats every half second on a thread of its own), of `run_driver` (it waits for the
token beside everything else), of `GuardianChannel::stop`, and of the end of
`stop_agent_with_grace` (the Agent leaves or is killed). Nothing is assumed of the
Guardian's answers, of sessions or of tasks. An Agent that waits for the activation
of its suite is excluded, because a health report that fails ends the thread
without cancelling the runtime (`guardian_channel.rs:113`): such an orphan goes on.

The bounds of `lease`. Two generations are a session and the one after it. An authorization
and a lease last one unit of time, which passes at any step, so that either may run out
first. The Guardian's sequence runs to 4: an arming, a click inside it and a frame after it
each take a number. A button, a held and a pulsed key are the three ways to press. Two
failing calls are what the third gap of `HoldsGuarded` takes, a press that fails late and the
release after it; one strikes at every place of every operation.

The bounds of `agent`. Two windows, generations, frames and lanes are what it takes to take one
for the other. Three frame numbers come round once in a ring of two slots. Two faults let
the repair of the first fail. `MaxMishaps` and `MaxDrops` are 1: one mishap strikes at every
place. The instance of `CommandTranslator` reaches an input sequence that has restarted
with a Begin accepted again in a second session.

The bounds of `installs`. Three installs of two builds are a first install, a candidate
over it, and a reinstall of either over the undecided candidate; two Guardians are that of
the Shell and one that it did not wait for. `MaxMishaps` counts failing calls, processes that
die and Shells that close: the first strikes at every step of every interleaving, the
second lets the undo of the first fail as well. No symmetry is used, which is not sound for
liveness. The safety properties are proved for any number.

Fairness in `lease`: weak fairness of the tick of the executor and of the Guardian's check of
its deadline, which timers drive. Nothing is assumed of time, of the machine or of the caller.
Fairness in `agent`, by component. `WorkerPlatform`: the executor ticks. `ManagedGame`: the
Agent connects again, a close that has begun ends; strong fairness of reporting and of the
acknowledgement, which a connection lost again and again would otherwise starve.
`HubSession`: the frame session's back-off ends and the registration thread runs (weak); the
loop looks at the control stream before the frame stream, so a permit or a tick that is
there again and again is taken in the end (strong). `Telemetry`: the channel's next step is
taken (weak). Nothing is assumed of the Hub but that it answers in the end where a property is
about an answer. In one behaviour only one component moves, so `MCFairness` states the
conditions of several in one conjunct.

What the properties leave out, each because TLC has shown that the code leaves it open:

- `HoldsGuarded` says nothing of what is `forgotten`. Each of its three sources is a gap of
  the code: the click commits the button only, though what is held stays down
  (`lease.rs:598`); a pulse is never registered; and `apply_guarded_physical_frame` replaces
  the holds after its last key, so that after a late failure and a `release_all` that
  fails too, the commit of an empty frame leaves a key down that nobody knows of.
  `LeftoversReleased` promises nothing of such a key once the Guardian does not know it either.
- `SeesWholeFrames` says nothing of a frame that is read after the Worker has spent a number on
  a frame it did not publish, until it publishes the next one: the slot it writes may then
  be the one that is read.
- `ActsOnSeenFrame` needs frames that `SourceFrameMap` can tell apart: it does not know the
  source of a public number. It leaves out a number that another source has used too, and
  a frame that was bound after its Worker was replaced while the new Worker has
  published nothing, or frames of another source as well. The run has one source; with two
  TLC has checked the inductive invariant of `FrameRing` by itself (about a million states,
  more than fit beside the other components), and the proof covers any number.
- `ActsOnLatestFrame` leaves out the frames from before a failed capture took the counter
  with it (`repeated`): the numbers start again from 1 in the same generation, and an input that
  names one of them may mean either frame. `ActsOnSeenWindow` holds of these too.
- `FollowsTheScreen` says nothing once a transition was dropped as too old (`stale`): the
  program goes on, and the keys of its lane are what they were before. After an overflow it
  waits for the engine's next round, which ends the program.
- `PointerNamesWhole` leaves out one candidate: that which somebody has tidied away between its
  validation and the replacement of the pointer (`taken`). It is never installed
  (`config \notin taken`). A process that tidies at any other moment leaves nothing out.
- `ExpiredKeysRise` leaves out a target that is given up with a key down: `detach_worker` takes
  the profile with it, and the next release has nothing to release and reports success.
- `ReceiptDelivered` is met as well by a later receipt that takes the place of the first.
- `CloseAccounted` leaves out a close whose gate the close of another game has taken
  (`managed_game.rs:375`). It takes two games to see that; the instance has one game and five
  failing writes, and the proof covers any number of both.

`Decided` is checked under weak fairness of the installer and of each Guardian, the
start of a Guardian included: a Shell that was closed is started again. It excludes
machines whose two files were parted by a mishap (no Guardian starts on them), and
installs under which a Guardian has moved the pointer: TLC found that, when it rolls
back to the very build that is being reinstalled, a Shell may start on that build
before `rollback-pending.json` is written, and its Guardian then watches nothing.

The bounds of the journal. Two ids are the smallest number with a command on top of another, and
three let a third come after a resolved and an unresolved one; `nocrash` has a fourth, to
fill a journal of three. Two attempts are what it takes to leave one and come back to it.
Ids and attempts are symmetric. The history grows with ids only, so nothing else has to be
bounded. The ledger's limits are 8 where they are not the question, more than the ids there
are, and 3/0/0/1 where they are.

The runs that fail state what the code says of itself:

- `v_expired`: a forced stop releases again after the Agent is reaped
  (`forced_stop_releases_again_after_the_agent_is_reaped`). After an expired
  heartbeat `tick` has released and emptied the monitor, `stop_agent` notes
  nothing, and what the Agent presses in its grace period stays down.
- `v_catalog`: the Guardian has a new release set before the Agent accepts input from
  a new catalog (`runtime.rs:787`). When the session ends between the replacement of
  the pointer and `shutdown.cancel()`, `clear_target_session` loads the new catalog
  into the same process. So does a registration in an Agent that started without
  a valid enrolment.

- `v_finish`: `reject_terminal_reuse` says a terminal attempt cannot be started
  again. `complete_finish` keeps the terminal record in memory when its append
  fails; the next begin drops it, and a begin of the old attempt then finds a ledger
  that is not terminal and starts it with an empty journal.
- `v_true`: a prepared side effect becomes Uncertain after a restart
  (`unresolved_side_effect_becomes_uncertain_after_restart_without_replay`), unless
  the retry is refused by the translator, when `reject` records NotApplied.
- `v_reload`: a terminal attempt's clean-up can be retried after a restart
  (`incomplete_terminal_cleanup_can_be_inspected_and_retried`), unless a
  release came in between: it changes `input_state` and not `cleanup_complete`, and
  `load_last` refuses the line.

More limits of the code show in the model and are not stated anywhere in it. An append
that writes nothing leaves an answer in memory only: after a restart the same command may
be answered another way, so `AnswersAgree` is checked without `lost`. A `kept` begin that
is not retried leaves two live ledgers, and a `kept` line of a command that was answered
with an error can move a terminal attempt: `OneLiveLedger` and `TerminalIsFinal` are checked
without `kept`. A load that fails half-way leaves its record in memory and makes the next
load fail.

## 4. What is proved

`TaskAttemptProofs`, for any attempts, ids, payloads, kinds and limits, any way an
append may end, with and without crashes. The one assumption is
`"lost" \notin FinishModes`: the append of `complete_finish` never fails with
nothing written. `v_finish` shows that it is needed.

| Theorem | Says |
|---|---|
| `Invariance` | `Spec => []IInv` |
| `TypeCorrect` | `Spec => []TypeOK` |
| `CarriedOutOnce` | `Spec => []AtMostOnce` |
| `NoneOnTop` | `Spec => []ResolvedBeforeNext` |
| `GateImplemented` | `Spec => GateSpec`, the refinement |

The argument. A command that was carried out is *sealed*: the record of its attempt
is terminal, or has an unresolved side effect, or has an Applied result stored for
the command; each of them makes `prepare_inner` refuse or replay it. `AtMostOnce`
is not inductive, because it says nothing between two handlers. `IInv` adds that
(`SealInv`) the active record of a session seals every command of its attempt that
was carried out, and that the ledger of every other such attempt is closed:
terminal or unreadable; (`LedgerInv`) what was carried out or is in memory has a
ledger, and a record that is terminal in memory is closed on disk; (`HandlerInv`)
between intent and result the active record is the request's, with its intent
unresolved; (`LinkInv`) a session implies a loaded journal. The proof has one lemma
per action: a record operation keeps the seals (`Keeps`), an append keeps the
other attempts' ledgers, and a load finds the one record that has to be active.

`SupervisionProofs`, for any number of Agent processes, keys, catalogs and crashes of
the Guardian, with no assumption but the types of the constants.

| Theorem | Says |
|---|---|
| `Invariance` | `Spec => []IInv` |
| `TypeCorrect` | `Spec => []TypeOK` |
| `HandOver` | `Spec => []HandedBackClean` |
| `Guarding` | `Spec => []HeldKeysGuarded` |
| `NoOrphans` | `Spec => []NoAgentLeftBehind` |

The argument. `HandedBackClean` says nothing while an Agent runs, and
`HeldKeysGuarded` says nothing of the keys it may press next. `IInv` adds that
(`PipeInv`) a connection is that of the child, and the snapshot of a stop holds all
that the monitor holds; (`ProcessInv`) what the Guardian thread waits for goes with
how far the process has come, and a process that is not ready has pressed nothing;
(`GuardInv`) the release set the Agent has asked for is pending in the monitor between
the two requests, and from the second answer on the Guardian means to release all
of it. So a key is guarded before it can be pressed. Most steps of an Agent change its
own process only: `AgentStep` proves them together, from what `Follows` says of the
process before and after, `GraceStep` proves every stop, and `OffStep` every end.

`ActivationProofs`, for any builds, Guardians, installs and mishaps, with no assumption
but the types of the constants.

| Theorem | Says |
|---|---|
| `Invariance` | `Spec => []IInv` |
| `TypeCorrect` | `Spec => []TypeOK` |
| `ActiveStays` | `Spec => []ActiveInstalled` |
| `FallbackStays` | `Spec => []FallbackInstalled` |
| `FilesAgree` | `Spec => []PendingMatches` |
| `Undone` | `Spec => []FailedInstallUndone` |

The argument. Only an undo removes a version, and only one that its own install has
created. `FreshInv` says that such a version is nobody's fallback, is not pending any
more when it is removed, and is not active: the undo has restored the pointer
before, and no Guardian can move it there. `InstallInv` keeps what the transaction
has read true while it runs, `EmptyInv` says when nothing can be pending.
`MatchInv` says where the two files may disagree: between the two writes of an armed
install, and while a Guardian that has rolled back is about to clear the pending file.
`UndoInv` follows the pointer through an install nobody interferes with. One lemma
per action proves that it keeps all of them.

`JournalProofs`, for any attempts, ids, payloads, kinds and limits.

| Theorem | Says | Provided that |
|---|---|---|
| `SessionWorksOnTheLiveAttempt` | `Spec => []SessionOwnsLiveAttempt` | `Faithful` |
| `NoLedgerConflict` | `Spec => []OneLiveLedger` | `Faithful` |
| `OverForGood` | `Spec => TerminalIsFinal` | `Faithful` |
| `OneOutcome` | `Spec => []AnswersAgree` | `Faithful` |
| `NotAppliedIsTrue` | `Spec => []AnswersTrue` | `Faithful`, no crashes |
| `LoadsAgain` | `Spec => []LedgerReloads` | the finish append is not `lost`; input can be released |
| `SlotsReserved` | `Spec => []RecoveryReserve` | `Faithful` |

`Faithful` says that an append ends `ok` or `torn`, as in the runs of the same properties:
an append that fails with nothing written, or with the whole line, is what the end of section 3
says about `lost` and `kept`. `v_true` shows that crashes have to be excluded, and
`v_reload` that the input has to be releasable.

The argument. However many handlers there are, a step does one of six things to memory and
file (`Advances`): nothing, a load, a load that fails half-way, an update of the active record
with its append, the same under the name of a request, or the claim of a new attempt; a
crash is the seventh. `Progress` says what each handler's record may do: it keeps a terminal
state, adds at most the result of its current command, takes a slot its kind may take, and stays
fit for the validation of `load_last`. What is left is to prove the invariants for seven
cases. (`MirrorInv`) memory and file agree unless the file is torn, up to the
receipt of the last result; (`LiveInv`) no attempt but the one in memory is live; a step
forgets no result of a readable file (`Remembers`), and with it (`AnswerInv`) what the Hub was
told is what is stored; (`TrueInv`) what was carried out is under way or has a result that
says so; (`FitInv`) what would be refused by the validation is never written, and a lease or a
capture that is on belongs to an attempt that is not over (`QuietInv`); (`RoomInv`) the slots
taken are those of the kinds, and a command without a result still has one.

`LeaseProofs`, for any actions, sessions, windows, and any calls that fail.

| Theorem | Says |
|---|---|
| `Invariance` | `Spec => []IInv` |
| `TypeCorrect` | `Spec => []TypeOK` |
| `Guarded` | `Spec => []HoldsGuarded` |
| `Earned` | `Spec => []ControlEarned` |
| `FramesOnce` | `Spec => AppliedOnce` |

The argument. An operation is a chain of calls on one record (`Sound`), of which each may fail;
a lemma per call says that what is down stays guarded through it, and the operation follows
through its early returns (`Accepted`, `Declined`). `HoldsGuarded` is inductive with five
facts: (`HoldsKnown`) what is down is among the executor's holds, so that a commit which drops
a key comes after its release; (`GateInv`) behind an open gate the Guardian knows whatever a
guarded frame may press without asking it; (`WalkInv`) how far the machine has walked says what it has verified, which is
`ControlEarned` and more; (`SequenceInv`) the executor remembers the sequence applied last in
the newest session; (`RoomInv`) an open gate leaves a click its number.

`AgentProofs`, with `WorkerProofs` and `FrameProofs`, for any values of the constants of
`MCAgent` that are of their types.

| Theorem | Says |
|---|---|
| `Accounted` | `MCSpec => []GamesAccounted` |
| `Released` | `MCSpec => []ReleaseProven` |
| `OnWhatItSaw` | `MCSpec => []ActsOnWhatItSaw` |
| `InOrder` | `MCSpec => []InputsInOrder` |
| `PointerWhole` | `MCSpec => []PointerNamesWhole` |
| `Followed` | `MCSpec => []FollowsTheScreen` |
| `WithinLease` | `MCSpec => []DetailWithinLease` |
| `Typed` | `MCSpec => []TypesOK` |

The argument. A step of the run is for every component its own step or none
(`ComponentSteps`), so each component has an inductive invariant of its own, stated in its
module.

- Games: (`NamedInv`) a close that was done or has failed is named in memory and on disk, by
  the gate or by a receipt; (`GateInv`) the close under way is the one the gate names, on
  disk before the game is touched. A write that fails leaves the two apart only in what
  neither clause asks for.
- Processes: (`StepInv`) what the running handler found of the managed record still holds
  between its steps; (`LifeInv`) a process that is gone does not come back.
- Worker: every release is a chain of tries, and one that reports success leaves a *calm*
  Worker: nothing down, no program on. What comes after it either presses nothing or is an
  input that takes a lease first. The clause that a proof needs and no run would ask for is
  that a dead Worker runs no program (`GoneRunsNothing`).
- Frames: in `TargetCapture` the numbers of the latest generation grow in the order of their
  frames (`CounterInv`), because a capture that runs shares the counter of its generation
  (`RunningInv`), from the frame on that came after a failed capture took it (`repeated`). In
  `FrameRing`, unless a number was spent on an unpublished frame since the last published
  one, the frame being written is the one after that and goes to the other slot (`SlotInv`),
  so what the reader copies then is whole (`ReaderInv`); and the map has the number of the
  latest frame of every source, if no other one has used its public number, and of the
  Worker there is, unless the frame was bound late (`MatchedInv`).
- Translator: (`Spent`) every input that was carried out has a result in the journal, and
  those of the present Begin are of its contract with numbers already used up.
- Enrolment: (`CandidateInv`) the candidate that was validated is complete until somebody
  tidies it away, and newer than what the pointer names; what is complete was not tidied away.
- Music: (`HoldsDown`) while the program runs the keys that are down are those the engine
  holds. With it `FollowsTheScreen` is inductive: what the channel takes toggles the lanes
  that changed (`SentApplied`), a batch without a stale transition does to each lane what the
  channel did (`BatchApplied`), and what is stale or does not fit sets its flag.
- Telemetry: (`NumberedInv`) records and receipts of this process have a sequence that was
  given out; (`LeaseInv`) detail is written only under a lease whose receipt is `applied`, or
  `rejected` after a revoke that named it wrongly, and a lease that can still be applied has no
  detail of this process; (`SavedInv`) the file has what the next process needs of both.
  `Buffered` and `Filed` say this of any buffer and file, one lemma per operation on a buffer
  proves that it keeps them, and the steps follow from those. Pruning forgets a receipt
  only of a lease that has lapsed or is long.

The assumptions on constants, all of them evaluated by the runs: the bounds are numbers, the
sentinels are not members of the sets they stand beside, and `BusinessLimit` is at least 1
(98,304 in the code), since a begin takes a business slot without asking for one.

TLC only, not proved: the liveness properties, which are out of the prover's reach (so is
`ENABLED`, and with it fairness). Every invariant of a passing run is a theorem.

## 5. Plan

Done: the journal with its gate and proofs; Guardian, Agents and proofs; activation and proofs;
the lease executor with machine and monitor, and proofs; the nine components of `agent`, and
proofs for each of them.

Worth doing next: the hazards without a property (`PROJECT.json` says why for each) and the
parts of the components that are modelled partly. Liveness stays with TLC.

## 6. Not modelled

The Profile model and signatures (pure checks), the HTTP exchange and keys of enrolment, TLS
and gRPC set-up, message framing, log and span formats, the user interface of Shell and
installer, the MAA controllers and the switch of runtimes, and the system calls beneath
windows, capture and input, whose results are choices. Of the files of a profile generation
only the pointer is modelled. The back-offs are choices without a length. `PROJECT.json`
says for each component that is partly modelled what is left out.
