----------------------------- MODULE TaskAttempt ------------------------------
(***************************************************************************)
(* One Agent process that runs task commands under its attempt journal:    *)
(* TaskAttemptRuntime (bins/fairypam-agent/src/task_attempt.rs) together   *)
(* with the handlers of CommandExecutor (execution.rs) and the session     *)
(* loop (runtime.rs) that call it.                                         *)
(*                                                                         *)
(* The executor is behind a mutex and a handler holds it from its first    *)
(* check to its answer, so two handlers never interleave.  What does come  *)
(* between two steps of a handler is a crash of the process.  A handler is *)
(* therefore cut where it touches something that outlives the process: it  *)
(* appends an intent (Prepare), it drives the device (Fire), it appends    *)
(* the result and answers (the Complete actions).                          *)
(*                                                                         *)
(* An append ends in one of four ways:                                     *)
(*   ok    the line is in the file and persist returns Ok;                 *)
(*   lost  nothing is written and persist returns an error;                *)
(*   kept  the line is in the file and sync_all returns an error;          *)
(*   torn  part of the line is in the file and persist returns an error.   *)
(* A crash inside an append is a kept or a torn append, then a crash.      *)
(***************************************************************************)
EXTENDS TaskLedger

CONSTANTS
    NoRequest,       \* no handler is running
    PersistModes,    \* the ways an append may end
    FinishModes,     \* the ways the append of complete_finish may end
    ReleaseResults,  \* the results release_task_input may have
    Crashes,         \* whether the process may crash
    ReadFailures     \* whether reading a ledger may fail

Requests == [att : Attempts, id : CommandIds, pay : Payloads]

ASSUME EnvironmentAssumption ==
    /\ NoRequest \notin Requests
    /\ PersistModes \subseteq {"ok", "lost", "kept", "torn"}
    /\ FinishModes \subseteq {"ok", "lost", "kept", "torn"}
    /\ ReleaseResults \subseteq BOOLEAN
    /\ Crashes \in BOOLEAN
    /\ ReadFailures \in BOOLEAN

VARIABLES
    mem,        \* TaskAttemptRuntime.active
    loaded,     \* TaskAttemptRuntime.loaded
    ledger,     \* the file of each attempt
    session,    \* a control session with the Hub is established
    contract,   \* Translator.active_contract, by its attempt
    lease,      \* worker_platform's input_expires_at is set
    capturing,  \* CommandExecutor.capture is set
    binding,    \* CommandExecutor.binding is set: there is a target window
    busy,       \* the request whose handler is between intent and result
    executed,   \* the running handler has driven the device
    fired,      \* history: side-effect commands the device has carried out
    answered    \* history: the outcomes the Hub was given for each command

memory == <<mem, loaded>>
handler == <<busy, executed>>
devices == <<lease, capturing, binding>>
link == <<session, contract>>
history == <<fired, answered>>
vars == <<memory, ledger, link, devices, handler, history>>

Kind(q) == KindOf[q.pay]
Key(q) == <<q.att, q.id>>

TypeOK ==
    /\ mem \in AttemptRecords \cup {NoAttempt}
    /\ loaded \in BOOLEAN
    /\ ledger \in [Attempts -> Ledgers]
    /\ session \in BOOLEAN
    /\ contract \in Attempts \cup {NoAttempt}
    /\ lease \in BOOLEAN
    /\ capturing \in BOOLEAN
    /\ binding \in BOOLEAN
    /\ busy \in Requests \cup {NoRequest}
    /\ executed \in BOOLEAN
    /\ fired \in SUBSET (Attempts \X CommandIds)
    /\ answered \in [Attempts -> [CommandIds -> SUBSET Outcomes]]

Init ==
    /\ mem = NoAttempt
    /\ loaded = FALSE
    /\ ledger = [a \in Attempts |-> NoLedger]
    /\ session = FALSE
    /\ contract = NoAttempt
    /\ lease = FALSE
    /\ capturing = FALSE
    /\ binding = FALSE
    /\ busy = NoRequest
    /\ executed = FALSE
    /\ fired = {}
    /\ answered = [a \in Attempts |-> [c \in CommandIds |-> {}]]

-------------------------------------------------------------------------------
(***************************************************************************)
(* Reading and writing the ledger directory                                *)
(***************************************************************************)
\* persist(r), ending in this mode.
Persist(r, mode) ==
    ledger' = CASE mode = "lost" -> ledger
                [] mode = "torn" -> [ledger EXCEPT ![r.att] = TornLedger]
                [] OTHER         -> [ledger EXCEPT ![r.att] = Appended(@, r)]

\* The attempts a load puts back in memory.
LiveLedgers == {a \in Attempts : Loads(ledger[a]) /\ ~LocalResourcesReleased(ledger[a])}

\* load_active returns Ok.  A load that failed half-way has left its record in
\* memory, where a second load takes it for another attempt.
LoadsActive ==
    \/ loaded
    \/ /\ \A a \in Attempts : ledger[a] = NoLedger \/ Loads(ledger[a])
       /\ \/ LiveLedgers = {}
          \/ mem = NoAttempt /\ \E a \in LiveLedgers : LiveLedgers = {a}

\* Mutant: what load_active finds is not made the active attempt.
ActiveNotLoaded == mem

\* The active attempt once load_active has returned Ok.
ActiveLoaded ==
    IF loaded \/ LiveLedgers = {} THEN mem
    ELSE ledger[CHOOSE a \in LiveLedgers : TRUE]

\* A live attempt is put in memory before load_active meets what makes it fail:
\* another ledger, or the attempt a failed load has left in memory.
ReadBeforeFailure ==
    {a \in LiveLedgers : mem # NoAttempt \/ \E b \in Attempts \ {a} : ledger[b] # NoLedger}

\* load_active returns an error: what it has read so far stays in memory.
LoadFails ==
    /\ ~loaded
    /\ ~LoadsActive \/ ReadFailures
    /\ mem' \in {mem} \cup {ledger[a] : a \in ReadBeforeFailure}
    /\ loaded' = FALSE
    /\ UNCHANGED ledger

-------------------------------------------------------------------------------
(***************************************************************************)
(* What the operations make of the record                                  *)
(***************************************************************************)
\* emergency_finish, and the update of complete_finish.
FinishedRecord(r, released, stopped, running) ==
    [r EXCEPT !.astate = "Terminal",
              !.input = IF released THEN "Released" ELSE "Unknown",
              !.capture = IF stopped THEN "Stopped" ELSE "Unknown",
              !.target = IF running THEN "Running" ELSE "NotStarted",
              !.owned = FALSE,
              !.cleanup = released /\ stopped /\ ~Unresolved(r)]

\* mark_active_side_effect_uncertain
UncertainRecord(r, released) ==
    [r EXCEPT !.side = "Uncertain",
              !.input = IF released THEN "Released" ELSE "Unknown",
              !.cleanup = FALSE]

\* mark_input_released
InputReleasedRecord(r) == [r EXCEPT !.input = "Released", !.cleanup = FALSE]

\* Mutant: cleanup_complete is left as it was.
ConflictButClean(r) == [r EXCEPT !.side = "Uncertain"]

\* payload_digest_conflict
ConflictRecord(r) == [r EXCEPT !.side = "Uncertain", !.cleanup = FALSE]

\* inspect: the command is recorded as Applied and its result stored.
InspectedRecord(r, q) ==
    StoreCurrentResult([RecordCommand(r, q.id, q.pay) EXCEPT !.outcome = "Applied"])

\* Mutant: the result is current and not stored.
RejectedNotStored(r, q) == [RecordCommand(r, q.id, q.pay) EXCEPT !.outcome = "NotApplied"]

\* reject: the command is recorded as NotApplied and its result stored.
RejectedRecord(r, q) ==
    StoreCurrentResult([RecordCommand(r, q.id, q.pay) EXCEPT !.outcome = "NotApplied"])

\* prepare_inner: the command is recorded and its outcome is not known yet.
IntentRecord(r, q) ==
    LET recorded == [RecordCommand(r, q.id, q.pay) EXCEPT !.outcome = Unspecified]
    IN  IF Kind(q) \in SideEffectKinds
        THEN [recorded EXCEPT !.side = "IntentRecorded"]
        ELSE recorded

\* prepare_inner, for a command that was prepared and never completed.
InterruptedRecord(r, q) ==
    LET resolved == IF Kind(q) \in SideEffectKinds /\ r.side = "IntentRecorded"
                    THEN [r EXCEPT !.side = "Uncertain", !.outcome = "Uncertain"]
                    ELSE [r EXCEPT !.outcome = "NotApplied"]
    IN  StoreCurrentResult(resolved)

\* complete, for a side effect and for the rest, before the update of each kind.
EffectResolved(r, outcome) == [r EXCEPT !.outcome = outcome, !.side = outcome]
Resolved(r, outcome) == [r EXCEPT !.outcome = outcome]

StartedRecord(r, ok) ==
    IF ok THEN [EffectResolved(r, "Applied") EXCEPT
                    !.owned = TRUE, !.target = "Running", !.astate = "TargetReady"]
          ELSE [EffectResolved(r, "NotApplied") EXCEPT
                    !.owned = FALSE, !.target = "NotStarted"]

FrameRecord(r, outcome, holds) ==
    [EffectResolved(r, outcome) EXCEPT
        !.input = CASE outcome = "Uncertain"        -> "Unknown"
                    [] outcome = "Applied" /\ holds -> "Active"
                    [] OTHER                        -> "Released"]

CaptureRecord(r, running, ok) ==
    IF ~ok THEN Resolved(r, "NotApplied")
    ELSE IF running
         THEN [Resolved(r, "Applied") EXCEPT !.capture = "Running", !.astate = "Active"]
         ELSE [Resolved(r, "Applied") EXCEPT !.capture = "Stopped"]

CapturedFrameRecord(r, ok) ==
    IF ok THEN [Resolved(r, "Applied") EXCEPT !.capture = "Stopped", !.astate = "Active"]
          ELSE Resolved(r, "NotApplied")

ReleasedRecord(r, released) ==
    [Resolved(r, IF released THEN "Applied" ELSE "NotApplied") EXCEPT
        !.input = IF released THEN "Released" ELSE "Unknown"]

CompletedFinishRecord(r, released, stopped, running) ==
    LET finished == FinishedRecord(r, released, stopped, running)
    IN  Resolved(finished, IF finished.cleanup THEN "Applied" ELSE "Uncertain")

-------------------------------------------------------------------------------
(***************************************************************************)
(* Commands.  Every handler first matches the command against the active   *)
(* attempt (require_reference) and looks its id up in the journal.  A       *)
(* command that is refused with an error and leaves no trace is a stutter.  *)
(***************************************************************************)
Idle == busy = NoRequest

\* The handler may run: the session is up and the attempt is the active one.
Accepts(q) == session /\ Idle /\ mem # NoAttempt /\ mem.att = q.att

\* Mutant: a command without an outcome is replayed too.
KnownWithoutOutcome(r, q) ==
    \/ HasResult(r, q.id) /\ r.results[q.id].pay = q.pay
    \/ ~HasResult(r, q.id) /\ r.last = q.id /\ r.pay = q.pay

\* The id has an outcome for this payload: its stored result or the current one.
Known(r, q) ==
    \/ HasResult(r, q.id) /\ r.results[q.id].pay = q.pay
    \/ ~HasResult(r, q.id) /\ r.last = q.id /\ r.pay = q.pay /\ r.outcome # Unspecified

\* The outcome a known command is answered with.
KnownOutcome(r, q) == IF HasResult(r, q.id) THEN r.results[q.id].outcome ELSE r.outcome

\* The command was prepared, and neither completed nor overtaken.
Interrupted(r, q) ==
    ~HasResult(r, q.id) /\ r.last = q.id /\ r.pay = q.pay /\ r.outcome = Unspecified

New(r, q) == ~HasResult(r, q.id) /\ r.last # q.id

Answer(q, outcome) == answered' = [answered EXCEPT ![q.att][q.id] = @ \cup {outcome}]

\* The handler keeps the updated record in memory whatever the append did, and
\* answers only if the append succeeded.
Record(r, mode) == mem' = r /\ loaded' = loaded /\ Persist(r, mode)
AnswerIf(mode, q, outcome) ==
    IF mode = "ok" THEN Answer(q, outcome) ELSE UNCHANGED answered

\* Mutant: only the attempt in memory is looked at.
ClaimableInMemory(a) == mem # NoAttempt => ~(mem.att = a /\ mem.astate = "Terminal")

\* reject_terminal_reuse lets the attempt through.
Claimable(a) ==
    /\ mem # NoAttempt => ~(mem.att = a /\ mem.astate = "Terminal")
    /\ \/ ledger[a] = NoLedger
       \/ Loads(ledger[a]) /\ ledger[a].astate # "Terminal"

\* The id is known with another payload: payload_digest_conflict.  When it is
\* begin_v2 that finds out, it reports the receipt as a success, upon which the
\* session accepts the contract.
DigestConflict(q, mode) ==
    /\ Accepts(q)
    /\ KnownOtherPayload(mem, q.id, q.pay)
    /\ Kind(q) = "inspect" => HasResult(mem, q.id)
    /\ Record(ConflictRecord(mem), mode)
    /\ \/ UNCHANGED contract
       \/ /\ Kind(q) = "begin" /\ mode = "ok"
          /\ Claimable(q.att) /\ HasResult(mem, q.id)
          /\ contract' = q.att
    /\ UNCHANGED <<session, devices, handler, history>>

\* replay, and the same lookup in prepare_inner and reject: the Hub is given
\* the outcome the journal has.
Replay(q) ==
    /\ Accepts(q)
    /\ Kind(q) \in BusinessKinds \cup RecoveryKinds
    /\ Known(mem, q)
    /\ Answer(q, KnownOutcome(mem, q))
    /\ UNCHANGED <<memory, ledger, link, devices, handler, fired>>

\* begin_v2 of an attempt that is already active, by the same command.
BeginAgain(q) ==
    /\ Accepts(q)
    /\ Kind(q) = "begin"
    /\ Claimable(q.att)
    /\ ~LocalResourcesReleased(mem)
    /\ Known(mem, q)
    /\ contract' = q.att
    /\ UNCHANGED <<memory, ledger, session, devices, handler, history>>

\* Mutant: the active attempt is dropped whatever it holds.
BeginOverActive(q, mode) ==
    /\ session /\ Idle
    /\ Kind(q) = "begin"
    /\ Claimable(q.att)
    /\ LET claim == Claimed(q.att, q.id, q.pay)
       IN  /\ Persist(claim, mode)
           /\ mem' = IF mode = "ok" THEN claim ELSE NoAttempt
    /\ contract' = IF mode = "ok" THEN q.att ELSE contract
    /\ UNCHANGED <<loaded, session, devices, handler, history>>

\* begin_v2 of a new attempt.  The released attempt in memory is dropped first.
Begin(q, mode) ==
    /\ session /\ Idle
    /\ Kind(q) = "begin"
    /\ Claimable(q.att)
    /\ mem # NoAttempt => LocalResourcesReleased(mem)
    /\ LET claim == Claimed(q.att, q.id, q.pay)
       IN  /\ Persist(claim, mode)
           /\ mem' = IF mode = "ok" THEN claim ELSE NoAttempt
    /\ contract' = IF mode = "ok" THEN q.att ELSE contract
    /\ UNCHANGED <<loaded, session, devices, handler, history>>

InspectCapacity == BusinessLimit + InspectLimit

\* inspect of the active attempt.  It compares payloads of stored results only, so it may
\* take the id of a command that is still without one.
Inspect(q, mode) ==
    /\ Accepts(q)
    /\ Kind(q) = "inspect"
    /\ ~HasResult(mem, q.id)
    /\ CanRecord(mem, q.id, InspectCapacity)
    /\ Record(InspectedRecord(mem, q), mode)
    /\ UNCHANGED <<link, devices, handler, history>>

\* inspect when no attempt is active: the named ledger is read, and the attempt
\* stays out of memory unless the id turns out to be known with another payload.
InspectNamed(q, mode) ==
    /\ session /\ Idle
    /\ Kind(q) = "inspect"
    /\ mem = NoAttempt
    /\ Loads(ledger[q.att])
    /\ LET r == ledger[q.att]
       IN  \/ /\ HasResult(r, q.id) /\ r.results[q.id].pay # q.pay
              /\ Record(ConflictRecord(r), mode)
           \/ /\ ~HasResult(r, q.id)
              /\ CanRecord(r, q.id, InspectCapacity)
              /\ Persist(InspectedRecord(r, q), mode)
              /\ UNCHANGED memory
    /\ UNCHANGED <<link, devices, handler, history>>

\* command_rejection_event: the translator refused the command (no contract, a
\* capability, a bound, an expiry) and reject records that it was not applied.
Reject(q, mode) ==
    /\ Accepts(q)
    /\ ~HasResult(mem, q.id)
    /\ New(mem, q) \/ Interrupted(mem, q)
    /\ CanRecord(mem, q.id, BusinessLimit)
    /\ Record(RejectedRecord(mem, q), mode)
    /\ AnswerIf(mode, q, "NotApplied")
    /\ UNCHANGED <<link, devices, handler, fired>>

-------------------------------------------------------------------------------
(***************************************************************************)
(* Commands that reach the device or change the executor's resources       *)
(***************************************************************************)
CapacityFor(kind) ==
    CASE kind = "release" -> BusinessLimit + InspectLimit + ReleaseLimit
      [] kind = "finish"  -> BusinessLimit + InspectLimit + ReleaseLimit + FinishLimit
      [] OTHER            -> BusinessLimit

\* The append of the intent.  Only when it returned Ok does the handler go on.
Intend(q, mode) ==
    /\ Record(IntentRecord(mem, q), mode)
    /\ busy' = IF mode = "ok" THEN q ELSE NoRequest
    /\ UNCHANGED <<executed, link, devices, history>>

\* Mutant: a terminal attempt is not refused.
PrepareTerminal(q, mode) ==
    /\ Accepts(q)
    /\ Kind(q) \in BusinessKinds
    /\ contract = q.att
    /\ New(mem, q)
    /\ ~Unresolved(mem)
    /\ CanRecord(mem, q.id, BusinessLimit)
    /\ Kind(q) \in {"startCapture", "captureFrame"} => binding
    /\ Intend(q, mode)

\* prepare_inner for a business command, once the translator has found the
\* attempt's contract active.
Prepare(q, mode) ==
    /\ Accepts(q)
    /\ Kind(q) \in BusinessKinds
    /\ contract = q.att
    /\ New(mem, q)
    /\ mem.astate # "Terminal"
    /\ ~Unresolved(mem)
    /\ CanRecord(mem, q.id, BusinessLimit)
    /\ Kind(q) \in {"startCapture", "captureFrame"} => binding
    /\ Intend(q, mode)

\* prepare_recovery and prepare_finish: neither a terminal attempt nor an
\* unresolved side effect stops them, and no contract is asked for.
PrepareRecovery(q, mode) ==
    /\ Accepts(q)
    /\ Kind(q) \in RecoveryKinds
    /\ New(mem, q)
    /\ CanRecord(mem, q.id, CapacityFor(Kind(q)))
    /\ Intend(q, mode)

\* A recovery command that was interrupted is simply run again.
ResumeRecovery(q) ==
    /\ Accepts(q)
    /\ Kind(q) \in RecoveryKinds
    /\ Interrupted(mem, q)
    /\ busy' = q
    /\ UNCHANGED <<memory, ledger, link, devices, executed, history>>

\* A business command that was interrupted is resolved and never run again.
PrepareInterrupted(q, mode) ==
    /\ Accepts(q)
    /\ Kind(q) \in BusinessKinds
    /\ contract = q.att
    /\ Interrupted(mem, q)
    /\ LET r == InterruptedRecord(mem, q)
       IN  Record(r, mode) /\ AnswerIf(mode, q, r.outcome)
    /\ UNCHANGED <<link, devices, handler, fired>>

\* The device carries the command out.
Fire ==
    /\ ~Idle
    /\ Kind(busy) \in SideEffectKinds
    /\ Kind(busy) = "frame" => binding
    /\ ~executed
    /\ executed' = TRUE
    /\ fired' = fired \cup {Key(busy)}
    /\ UNCHANGED <<memory, ledger, link, devices, busy, answered>>

\* The handler returns an error between prepare and the device: there is no
\* profile, no target, or a capture that would not stop.
Abandon ==
    /\ ~Idle
    /\ Kind(busy) \in {"start", "frame", "startCapture"}
    /\ ~executed
    /\ busy' = NoRequest
    /\ capturing' = IF Kind(busy) = "startCapture" THEN FALSE ELSE capturing
    /\ UNCHANGED <<memory, ledger, link, lease, binding, executed, history>>

\* Mutant: the result is in memory only once its append has succeeded.
CompleteAfterAppend(r, mode) ==
    /\ Persist(StoreCurrentResult(r), mode)
    /\ mem' = IF mode = "ok" THEN StoreCurrentResult(r) ELSE mem
    /\ AnswerIf(mode, busy, r.outcome)
    /\ busy' = NoRequest
    /\ executed' = FALSE
    /\ UNCHANGED <<loaded, link, fired>>

\* complete: store the result, append it, answer.
Complete(r, mode) ==
    /\ Record(StoreCurrentResult(r), mode)
    /\ AnswerIf(mode, busy, r.outcome)
    /\ busy' = NoRequest
    /\ executed' = FALSE
    /\ UNCHANGED <<link, fired>>

CompleteStart(mode) ==
    /\ ~Idle /\ Kind(busy) = "start"
    /\ Complete(StartedRecord(mem, executed), mode)
    /\ binding' = (binding \/ executed)
    /\ UNCHANGED <<lease, capturing>>

\* input_frame_outcome: Ok is Applied, an error that leaves doubt is Uncertain.
CompleteFrame(outcome, holds, mode) ==
    /\ ~Idle /\ Kind(busy) = "frame"
    /\ outcome = "Applied" => executed
    /\ outcome = "NotApplied" => ~executed
    /\ binding
    /\ Complete(FrameRecord(mem, outcome, holds), mode)
    /\ lease' \in IF outcome = "Applied" /\ ~holds THEN {FALSE} ELSE BOOLEAN
    /\ UNCHANGED <<capturing, binding>>

CompleteCapture(ok, mode) ==
    /\ ~Idle /\ Kind(busy) \in {"startCapture", "stopCapture"}
    /\ Complete(CaptureRecord(mem, Kind(busy) = "startCapture", ok), mode)
    /\ \/ Kind(busy) = "startCapture" /\ capturing' = ok
       \/ Kind(busy) = "stopCapture" /\ ok /\ capturing' = FALSE
       \/ Kind(busy) = "stopCapture" /\ ~ok /\ capturing' \in {capturing, FALSE}
    /\ UNCHANGED <<lease, binding>>

\* capture_once is refused while a capture runs; when it fails the input is released.
CompleteCaptureFrame(ok, mode) ==
    /\ ~Idle /\ Kind(busy) = "captureFrame"
    /\ ok => ~capturing
    /\ Complete(CapturedFrameRecord(mem, ok), mode)
    /\ lease' \in IF ok \/ capturing THEN {lease} ELSE {FALSE, lease}
    /\ UNCHANGED <<capturing, binding>>

\* ReleaseAll releases everything; StopRealtimeProgram only stops the program,
\* and counts as not released when the program it names is not running.
CompleteRelease(released, mode) ==
    /\ ~Idle /\ Kind(busy) \in {"release", "stopRealtime"}
    /\ Kind(busy) = "release" => released \in ReleaseResults
    /\ Complete(ReleasedRecord(mem, released), mode)
    /\ lease' = IF Kind(busy) = "release" /\ released THEN FALSE ELSE lease
    /\ UNCHANGED <<capturing, binding>>

CompleteFinish(released, stopped, mode) ==
    /\ ~Idle /\ Kind(busy) = "finish"
    /\ released \in ReleaseResults
    /\ stopped \/ capturing
    /\ Complete(CompletedFinishRecord(mem, released, stopped, binding), mode)
    /\ lease' = IF released THEN FALSE ELSE lease
    /\ capturing' = FALSE
    /\ UNCHANGED binding

-------------------------------------------------------------------------------
(***************************************************************************)
(* What happens to the attempt without a command                           *)
(***************************************************************************)
\* ensure_worker_ready fails, at start-up or in the Guardian channel's health
\* probe: the input is released and the active attempt marked uncertain.
WorkerFails(released, mode) ==
    /\ Idle
    /\ released \in ReleaseResults
    /\ \/ LoadFails
       \/ /\ LoadsActive /\ loaded' = TRUE
          /\ LET r == ActiveLoaded
                 marked == UncertainRecord(r, released)
             IN  IF r = NoAttempt THEN mem' = r /\ UNCHANGED ledger
                 ELSE mem' = marked /\ Persist(marked, mode)
    /\ lease' = IF released THEN FALSE ELSE lease
    /\ UNCHANGED <<link, capturing, binding, handler, history>>

\* reset_session, and the handshake establish_session goes on with if it is Ok.
\* emergency_finish leaves the memory as it was when its append fails.
ResetSession(released, stopped, connected, mode) ==
    /\ Idle /\ ~session
    /\ released \in ReleaseResults
    /\ stopped \/ capturing
    /\ \/ LoadFails /\ session' = FALSE
       \/ /\ LoadsActive /\ loaded' = TRUE
          /\ LET r == ActiveLoaded
                 finished == FinishedRecord(r, released, stopped, binding)
             IN  IF r = NoAttempt \/ LocalResourcesReleased(r)
                 THEN /\ mem' = r /\ UNCHANGED ledger
                      /\ session' = (connected /\ released /\ stopped)
                 ELSE /\ mem' = IF mode = "ok" THEN finished ELSE r
                      /\ Persist(finished, mode)
                      /\ session' = (connected /\ released /\ stopped /\ mode = "ok")
    /\ lease' = IF released THEN FALSE ELSE lease
    /\ capturing' = FALSE
    /\ UNCHANGED <<contract, binding, handler, history>>

\* The control session ends.  The input is released on the way if it can be.
SessionLost ==
    /\ session /\ Idle
    /\ session' = FALSE
    /\ contract' = NoAttempt
    /\ lease' \in {lease, FALSE}
    /\ UNCHANGED <<memory, ledger, capturing, binding, handler, history>>

\* cancel_frame_pipeline: capture and input end, and the journal is not told.
FramePipelineLost ==
    /\ session /\ Idle
    /\ capturing' = FALSE
    /\ lease' \in {lease, FALSE}
    /\ UNCHANGED <<memory, ledger, link, binding, handler, history>>

\* An error of a safety tick ends the session.
EndSessionUnless(mode) ==
    /\ session' = (mode = "ok")
    /\ contract' = IF mode = "ok" THEN contract ELSE NoAttempt

\* tick_safety finds the input lease expired and has released the input.
LeaseExpired(mode) ==
    /\ session /\ Idle
    /\ lease /\ TRUE \in ReleaseResults
    /\ lease' = FALSE
    /\ IF mem = NoAttempt THEN UNCHANGED <<memory, ledger, link>>
       ELSE Record(InputReleasedRecord(mem), mode) /\ EndSessionUnless(mode)
    /\ UNCHANGED <<capturing, binding, handler, history>>

\* tick_safety finds the contract's deadline past.
ContractExpired(released, stopped, mode) ==
    /\ session /\ Idle
    /\ mem # NoAttempt /\ mem.astate # "Terminal"
    /\ released \in ReleaseResults
    /\ stopped \/ capturing
    /\ LET finished == FinishedRecord(mem, released, stopped, binding)
       IN  /\ Persist(finished, mode)
           /\ mem' = IF mode = "ok" THEN finished ELSE mem
    /\ lease' = IF released THEN FALSE ELSE lease
    /\ capturing' = FALSE
    /\ EndSessionUnless(mode)
    /\ UNCHANGED <<loaded, binding, handler, history>>

\* capture_failure_event: the failed capture worker is dropped and the input
\* released.  A stale target is looked for once more and the capture restarted.
CaptureFailure(uncertain, released, restarted, mode) ==
    /\ session /\ Idle
    /\ capturing
    /\ released \in ReleaseResults
    /\ ~released => uncertain
    /\ restarted => /\ ~uncertain /\ mode = "ok" /\ binding
                    /\ mem # NoAttempt /\ mem.owned
    /\ capturing' = restarted
    /\ lease' = IF released THEN FALSE ELSE lease
    /\ IF mem = NoAttempt THEN UNCHANGED <<memory, ledger, link>>
       ELSE /\ Record(IF uncertain THEN UncertainRecord(mem, released)
                                  ELSE InputReleasedRecord(mem), mode)
            /\ EndSessionUnless(mode)
    /\ UNCHANGED <<binding, handler, history>>

\* realtime_program_events: polling the program fails; the error is only logged.
RealtimeFailure(released, mode) ==
    /\ session /\ Idle
    /\ mem # NoAttempt
    /\ Record(UncertainRecord(mem, released), mode)
    /\ UNCHANGED <<link, devices, handler, history>>

\* LaunchTarget, LockTarget, EnumerateTargets, CloseTarget and the idle close
\* change the target while no attempt is active.
ChangeTarget ==
    /\ Idle /\ loaded
    /\ mem # NoAttempt => LocalResourcesReleased(mem)
    /\ binding' = ~binding
    /\ UNCHANGED <<memory, ledger, link, lease, capturing, handler, history>>

\* The process ends, also in the middle of a handler, and is started again.
Crash ==
    /\ Crashes
    /\ mem' = NoAttempt
    /\ loaded' = FALSE
    /\ session' = FALSE
    /\ contract' = NoAttempt
    /\ lease' = FALSE
    /\ capturing' = FALSE
    /\ binding' = FALSE
    /\ busy' = NoRequest
    /\ executed' = FALSE
    /\ UNCHANGED <<ledger, history>>

-------------------------------------------------------------------------------
Commands(q, mode) ==
    \/ DigestConflict(q, mode)
    \/ Replay(q)
    \/ BeginAgain(q)
    \/ Begin(q, mode)
    \/ Inspect(q, mode)
    \/ InspectNamed(q, mode)
    \/ Reject(q, mode)
    \/ Prepare(q, mode)
    \/ PrepareRecovery(q, mode)
    \/ ResumeRecovery(q)
    \/ PrepareInterrupted(q, mode)

Completions(mode) ==
    \/ CompleteStart(mode)
    \/ \E outcome \in Outcomes, holds \in BOOLEAN : CompleteFrame(outcome, holds, mode)
    \/ \E ok \in BOOLEAN :
          \/ CompleteCapture(ok, mode)
          \/ CompleteCaptureFrame(ok, mode)
          \/ CompleteRelease(ok, mode)

Background(mode) ==
    \/ \E released \in BOOLEAN : WorkerFails(released, mode) \/ RealtimeFailure(released, mode)
    \/ \E released, stopped, connected \in BOOLEAN :
          ResetSession(released, stopped, connected, mode)
    \/ \E released, stopped \in BOOLEAN :
          ContractExpired(released, stopped, mode)
    \/ \E uncertain, released, restarted \in BOOLEAN :
          CaptureFailure(uncertain, released, restarted, mode)
    \/ LeaseExpired(mode)

Next ==
    \/ \E mode \in PersistModes :
          \/ \E q \in Requests : Commands(q, mode)
          \/ Completions(mode)
          \/ Background(mode)
    \/ \E released, stopped \in BOOLEAN, mode \in FinishModes :
          CompleteFinish(released, stopped, mode)
    \/ Fire
    \/ Abandon
    \/ SessionLost
    \/ FramePipelineLost
    \/ ChangeTarget
    \/ Crash

Spec == Init /\ [][Next]_vars

-------------------------------------------------------------------------------
(***************************************************************************)
(* Properties                                                              *)
(***************************************************************************)
\* The running handler has recorded a side effect and not driven the device yet.
AboutToFire == busy # NoRequest /\ Kind(busy) \in SideEffectKinds /\ ~executed

\* A side effect is carried out at most once: whatever is retried, restarted or
\* lost, the handler that is about to drive the device (execution.rs, after
\* prepare) runs for a command the device has not carried out before.
AtMostOnce == AboutToFire => Key(busy) \notin fired

\* No side effect is started on top of an unresolved one: every command of the
\* attempt the device has carried out has its Applied result stored by the time
\* another is about to (the side_effect_uncertain check of prepare_inner).
ResolvedBeforeNext ==
    AboutToFire =>
        \A c \in CommandIds :
            <<busy.att, c>> \in fired =>
                /\ HasResult(mem, c)
                /\ mem.results[c].outcome = "Applied"

\* The Hub is never told two different outcomes for one logical command, over
\* retries, sessions and restarts (stored_result, store_current_result).
AnswersAgree ==
    \A a \in Attempts, c \in CommandIds : Cardinality(answered[a][c]) <= 1

\* The Hub is told NotApplied only for a command the device did not carry out
\* (reject, prepare_inner and complete).
AnswersTrue ==
    \A a \in Attempts, c \in CommandIds :
        "NotApplied" \in answered[a][c] => <<a, c>> \notin fired

\* Whatever is journalled can be read back after a restart: what persist wrote
\* in full passes the validation load_last runs on it.
LedgerReloads ==
    \A a \in Attempts : ledger[a] \in {NoLedger, TornLedger} \/ Valid(ledger[a])

\* At most one attempt is journalled as holding resources, so that load_active
\* finds no ledger conflict after a restart.
OneLiveLedger == \A a, b \in LiveLedgers : a = b

\* An established session works on the journal's own attempt: any other attempt
\* the journal holds is terminal and released (reset_session, begin_v2).
SessionOwnsLiveAttempt ==
    session => /\ loaded
               /\ \A a \in LiveLedgers : mem # NoAttempt /\ mem.att = a

\* The results of a journal leave the later kinds their slots.
Reserved(r) ==
    LET stored(kinds) ==
            Cardinality({c \in Recorded(r) : KindOf[r.results[c].pay] \in kinds})
    IN  /\ stored(BusinessKinds \cup {"begin"}) <= BusinessLimit
        /\ stored(Kinds \ RecoveryKinds) <= BusinessLimit + InspectLimit
        /\ stored(Kinds \ {"finish"}) <= BusinessLimit + InspectLimit + ReleaseLimit

\* Each kind of command leaves the kinds behind it their slots in the journal:
\* business commands those for inspecting, both of them those for releasing, and
\* all of them those for finishing (the limits of record_command).
RecoveryReserve == mem # NoAttempt => Reserved(mem)

\* A terminal attempt stays terminal in its ledger: no command and no retry
\* brings it back (reject_terminal_reuse and the Terminal check of prepare_inner).
TerminalIsFinal ==
    [][\A a \in Attempts :
         (ledger[a] \in AttemptRecords /\ ledger[a].astate = "Terminal")
         => (ledger'[a] = TornLedger \/ ledger'[a].astate = "Terminal")]_vars

\* The side effects of this module, as SideEffectGate sees them.
Pending == IF AboutToFire THEN {Key(busy)} ELSE {}

Gate == INSTANCE SideEffectGate WITH
            Effects <- Attempts \X CommandIds, pending <- Pending, done <- fired

\* The journal, its replays, its restarts and its resets implement the gate: a
\* command is let through to the device once and never again.
GateSpec == Gate!Spec

-------------------------------------------------------------------------------
(***************************************************************************)
(* The inductive invariant behind AtMostOnce and ResolvedBeforeNext        *)
(***************************************************************************)
AppliedStored(r, c) == HasResult(r, c) /\ r.results[c].outcome = "Applied"

\* Why a record will not let a command through that the device has carried out.
Sealed(r, c) == r.astate = "Terminal" \/ Unresolved(r) \/ AppliedStored(r, c)

\* The ledger of an attempt admits no new side effect.
Closed(file) == file # NoLedger /\ (file = TornLedger \/ file.astate = "Terminal")

\* A session implies a loaded journal, a handler implies a session.
LinkInv ==
    /\ session => loaded
    /\ ~Idle => session /\ mem # NoAttempt
    /\ executed => ~Idle /\ Kind(busy) \in SideEffectKinds

\* A ledger holds the records of its own attempt.  What is in memory or has been
\* carried out is in a ledger, and an attempt that is terminal in memory is
\* closed on disk.
LedgerInv ==
    /\ \A a \in Attempts : ledger[a] \in AttemptRecords => ledger[a].att = a
    /\ mem # NoAttempt => ledger[mem.att] # NoLedger
    /\ \A a \in Attempts, c \in CommandIds : <<a, c>> \in fired => ledger[a] # NoLedger
    /\ mem # NoAttempt /\ mem.astate = "Terminal" => Closed(ledger[mem.att])

\* Every command carried out is sealed: by the active record, if its attempt is
\* the one a session works on, or else by a closed ledger.
SealInv ==
    \A a \in Attempts, c \in CommandIds :
        <<a, c>> \in fired =>
            /\ session /\ mem # NoAttempt /\ mem.att = a => Sealed(mem, c)
            /\ loaded /\ (mem = NoAttempt \/ mem.att # a) => Closed(ledger[a])

\* Between intent and result the active record is the one of the request.
HandlerInv ==
    ~Idle =>
        /\ mem.att = busy.att
        /\ mem.last = busy.id
        /\ ~HasResult(mem, busy.id)
        /\ Kind(busy) \in BusinessKinds => mem.astate # "Terminal"
        /\ Kind(busy) \in SideEffectKinds =>
              /\ mem.side = "IntentRecorded"
              /\ \A c \in CommandIds :
                    <<busy.att, c>> \in fired =>
                        AppliedStored(mem, c) \/ (executed /\ c = busy.id)

IInv == TypeOK /\ LinkInv /\ LedgerInv /\ SealInv /\ HandlerInv

-------------------------------------------------------------------------------
(***************************************************************************)
(* The inductive invariants behind the other properties, under the ways to *)
(* append and to release that each of them is checked with                 *)
(***************************************************************************)
\* A known outcome is stored for the current command, an unknown one is not.
WellKept(r) ==
    IF r.outcome = Unspecified THEN ~HasResult(r, r.last)
    ELSE /\ HasResult(r, r.last)
         /\ r.results[r.last].pay = r.pay
         /\ r.results[r.last].outcome = r.outcome

\* A file says of its attempt what the record says.  Only a result's receipt may
\* differ: the file has the one of the last line for the current command.
Mirrors(r, file) ==
    /\ file \in AttemptRecords
    /\ file.att = r.att /\ file.astate = r.astate
    /\ file.last = r.last /\ file.pay = r.pay /\ file.outcome = r.outcome
    /\ file.input = r.input /\ file.capture = r.capture /\ file.target = r.target
    /\ \A c \in CommandIds :
          /\ HasResult(file, c) <=> HasResult(r, c)
          /\ HasResult(r, c) => /\ file.results[c].pay = r.results[c].pay
                                /\ file.results[c].outcome = r.results[c].outcome

\* Memory and file agree unless the file is torn.
MirrorInv ==
    /\ mem # NoAttempt =>
          /\ WellKept(mem)
          /\ ledger[mem.att] = TornLedger \/ Mirrors(mem, ledger[mem.att])
    /\ \A a \in Attempts : ledger[a] \in AttemptRecords => WellKept(ledger[a])

\* Only the attempt in memory is live.  Before the load at most one is, and a
\* load that has failed can only have left that one in memory.
LiveInv ==
    IF loaded THEN \A a \in LiveLedgers : mem # NoAttempt /\ mem.att = a
    ELSE OneLiveLedger /\ (mem # NoAttempt => mem.att \in LiveLedgers)

\* What the Hub was told of a command is what memory and file have stored for it.
Told(r, c, outcome) == HasResult(r, c) /\ r.results[c].outcome = outcome

AnswerInv ==
    \A a \in Attempts, c \in CommandIds :
        \A outcome \in answered[a][c] :
            /\ \/ ledger[a] = TornLedger
               \/ ledger[a] \in AttemptRecords /\ Told(ledger[a], c, outcome)
            /\ mem # NoAttempt /\ mem.att = a => Told(mem, c, outcome)
            /\ answered[a][c] = {outcome}

\* The results there may be when a command of this kind is recorded.
Slots(kind) == IF kind = "inspect" THEN InspectCapacity ELSE CapacityFor(kind)

\* The journal keeps its reserve, and a slot for a command that has no result yet.
Roomy(r) ==
    /\ IsFiniteSet(Recorded(r))
    /\ Reserved(r)
    /\ r.outcome = Unspecified => Cardinality(Recorded(r)) < Slots(KindOf[r.pay])

RoomInv ==
    /\ mem # NoAttempt => Roomy(mem)
    /\ \A a \in Attempts : ledger[a] \in AttemptRecords => Roomy(ledger[a])

\* A record that passes the validation of its own states, whatever the results.
Fit(r) ==
    /\ CleanupSound(r)
    /\ r.owned => r.target = "Running"
    /\ ~r.owned /\ r.target = "Running" => r.astate = "Terminal"
    /\ r.astate = "Terminal" /\ ~Unresolved(r) => r.input = "Released"

\* Nothing is held or captured that a terminal record would have to be told of.
QuietInv ==
    ~loaded \/ mem = NoAttempt \/ mem.astate = "Terminal" => ~lease /\ ~capturing

FitInv ==
    /\ mem # NoAttempt => Fit(mem)
    /\ \A a \in Attempts : ledger[a] \in AttemptRecords => Fit(ledger[a]) /\ Valid(ledger[a])
    /\ QuietInv

\* A command carried out is under way or has a result that says so.
Spent(r, c) == HasResult(r, c) /\ r.results[c].outcome # "NotApplied"
UnderWay(a, c) == executed /\ Key(busy) = <<a, c>>

TrueInv ==
    \A a \in Attempts, c \in CommandIds :
        <<a, c>> \in fired =>
            /\ \/ ledger[a] = TornLedger
               \/ ledger[a] \in AttemptRecords /\ Spent(ledger[a], c)
               \/ UnderWay(a, c)
            /\ mem # NoAttempt /\ mem.att = a => Spent(mem, c) \/ UnderWay(a, c)

===============================================================================
