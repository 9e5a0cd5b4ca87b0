------------------------------ MODULE TaskLedger ------------------------------
(***************************************************************************)
(* The record the Agent journals for one task attempt, and the append-only *)
(* file it is journalled in: the data half of                              *)
(* bins/fairypam-agent/src/task_attempt.rs (AttemptState,                  *)
(* StoredCommandResult, load_last).  Everything here is an operator over   *)
(* values; the state machine is module TaskAttempt.                        *)
(*                                                                         *)
(* Abstractions.  A payload digest is a function of the command's kind and *)
(* arguments, so a payload stands for its digest.  A file is the record    *)
(* load_last rebuilds from its lines: the last line, with the results the  *)
(* earlier lines leave behind.  Error codes, generations, sequence numbers,*)
(* source frames and the contract's text are left out.                     *)
(***************************************************************************)
EXTENDS Naturals, FiniteSets

CONSTANTS
    Attempts,       \* attempt ids
    CommandIds,     \* logical command ids of one attempt
    Payloads,       \* payloads, one per payload digest
    KindOf,         \* the command kind each payload is for
    BusinessLimit,  \* MAX_BUSINESS_COMMAND_RESULTS
    InspectLimit,   \* MAX_INSPECT_COMMAND_RESULTS
    ReleaseLimit,   \* MAX_RELEASE_COMMAND_RESULTS
    FinishLimit,    \* MAX_FINISH_COMMAND_RESULTS
    NoAttempt,      \* no attempt is active
    NoResult,       \* no result is stored under this command id
    NoLedger,       \* the attempt has no file
    TornLedger      \* a partial line was left in the file

\* The commands the v3 translator lets through to the journal.  A "frame" is
\* an input frame, a point click, a swipe, or the start or the renewal of a
\* realtime program: all of them run prepare(task, true) and
\* complete_input_frame.
BusinessKinds ==
    {"start", "frame", "startCapture", "captureFrame", "stopCapture", "stopRealtime"}
RecoveryKinds == {"release", "finish"}
Kinds == {"begin", "inspect"} \cup BusinessKinds \cup RecoveryKinds

\* The kinds whose handlers call prepare with side_effect = true.
SideEffectKinds == {"start", "frame"}

Outcomes == {"Applied", "NotApplied", "Uncertain"}
Unspecified == "Unspecified"

AttemptStates == {"Claimed", "TargetReady", "Active", "Terminal"}
SideEffectStates == {"None", "IntentRecorded", "Applied", "NotApplied", "Uncertain"}
InputStates == {"Released", "Active", "Unknown"}
CaptureStates == {"NotStarted", "Running", "Stopped", "Unknown"}
OwnedTargetStates == {"NotStarted", "Running"}

\* A stored result keeps the command's payload and outcome, the
\* cleanup_complete flag of its receipt, and whether that flag agrees with
\* the states of the same receipt (what StoredCommandResult::validate asks).
StoredResults ==
    [pay : Payloads, outcome : Outcomes, cleanup : BOOLEAN, sound : BOOLEAN]

AttemptRecords ==
    [att     : Attempts,
     astate  : AttemptStates,
     last    : CommandIds,                      \* last_command_id
     pay     : Payloads,                        \* last_command_payload_digest
     outcome : Outcomes \cup {Unspecified},     \* last_command_outcome
     results : [CommandIds -> StoredResults \cup {NoResult}],
     side    : SideEffectStates,
     input   : InputStates,
     capture : CaptureStates,
     target  : OwnedTargetStates,
     owned   : BOOLEAN,                         \* owned_target.is_some()
     cleanup : BOOLEAN]                         \* cleanup_complete

Ledgers == AttemptRecords \cup {NoLedger, TornLedger}

ASSUME LimitsAssumption ==
    /\ BusinessLimit \in Nat \ {0}
    /\ InspectLimit \in Nat
    /\ ReleaseLimit \in Nat
    /\ FinishLimit \in Nat

ASSUME KindAssumption == KindOf \in [Payloads -> Kinds]

ASSUME SentinelAssumption ==
    /\ NoAttempt \notin AttemptRecords
    /\ NoResult \notin StoredResults
    /\ NoLedger \notin AttemptRecords
    /\ TornLedger \notin AttemptRecords
    /\ NoLedger # TornLedger

(***************************************************************************)
(* AttemptState                                                            *)
(***************************************************************************)
\* Mutant: an uncertain side effect counts as resolved.
UnresolvedIntentOnly(r) == r.side = "IntentRecorded"

Unresolved(r) == r.side \in {"IntentRecorded", "Uncertain"}

\* local_resources_released: a terminal attempt that holds nothing.
LocalResourcesReleased(r) ==
    /\ r.astate = "Terminal"
    /\ r.input = "Released"
    /\ r.capture \in {"NotStarted", "Stopped"}
    /\ r.target \in {"NotStarted", "Running"}

\* What cleanup_complete has to say, as both validate functions compute it.
CleanupDue(r) == LocalResourcesReleased(r) /\ ~Unresolved(r)
CleanupSound(r) == r.cleanup = CleanupDue(r)

HasResult(r, c) == r.results[c] # NoResult
Recorded(r) == {c \in CommandIds : HasResult(r, c)}

CurrentResult(r) ==
    [pay |-> r.pay, outcome |-> r.outcome, cleanup |-> r.cleanup,
     sound |-> CleanupSound(r)]

\* store_current_result.  Its two error returns are out of reach: the caller
\* has compared digests, and record_command has kept the number of results
\* under the limit.
StoreCurrentResult(r) == [r EXCEPT !.results[r.last] = CurrentResult(r)]

\* Mutant: one result more than the limit.
CanRecordOneMore(r, c, limit) == HasResult(r, c) \/ Cardinality(Recorded(r)) <= limit

\* record_command.  Its check of the sequence number only refuses commands.
CanRecord(r, c, limit) == HasResult(r, c) \/ Cardinality(Recorded(r)) < limit

RecordCommand(r, c, p) == [r EXCEPT !.last = c, !.pay = p]

\* A digest conflict: the id is known, stored or current, with another digest.
KnownOtherPayload(r, c, p) ==
    \/ HasResult(r, c) /\ r.results[c].pay # p
    \/ ~HasResult(r, c) /\ r.last = c /\ r.pay # p

\* A record freshly claimed by begin: claimed stores the first result.
Claimed(a, c, p) ==
    StoreCurrentResult(
        [att |-> a, astate |-> "Claimed", last |-> c, pay |-> p,
         outcome |-> "Applied", results |-> [d \in CommandIds |-> NoResult],
         side |-> "None", input |-> "Released", capture |-> "NotStarted",
         target |-> "NotStarted", owned |-> FALSE, cleanup |-> FALSE])

(***************************************************************************)
(* The file                                                                *)
(***************************************************************************)
\* persist appends a snapshot without its results; load_last folds the lines,
\* and stores under the last command of each line whose outcome is known the
\* result that line describes.
Appended(file, r) ==
    IF file = TornLedger THEN TornLedger
    ELSE LET before == IF file = NoLedger THEN [c \in CommandIds |-> NoResult]
                                          ELSE file.results
             line == [r EXCEPT !.results = before]
         IN  IF r.outcome = Unspecified THEN line ELSE StoreCurrentResult(line)

\* AttemptState::validate and StoredCommandResult::validate, less the checks of
\* syntax and of the contract.
Valid(r) ==
    /\ \A c \in Recorded(r) : r.results[c].sound
    /\ r.outcome # Unspecified =>
          /\ HasResult(r, r.last)
          /\ r.results[r.last].pay = r.pay
          /\ r.results[r.last].outcome = r.outcome
    /\ CleanupSound(r)
    /\ r.owned => r.target = "Running"
    /\ ~r.owned /\ r.target = "Running" => r.astate = "Terminal"

\* load_last succeeds.
Loads(file) == file \notin {NoLedger, TornLedger} /\ Valid(file)

===============================================================================
