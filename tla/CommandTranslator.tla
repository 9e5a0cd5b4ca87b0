-------------------------- MODULE CommandTranslator --------------------------
(***************************************************************************)
(* What a command of the Hub passes before it is executed: the sequence    *)
(* check of the control stream (control.rs), the translator of the session *)
(* with the contract it has accepted, the digests of the commands it has   *)
(* let through and the last input sequence (v3_adapter.rs), and then the   *)
(* journal of the running attempt, here only the commands it has results   *)
(* for (TaskAttempt models it). The translator is new with each session,   *)
(* the journal is not.                                                     *)
(***************************************************************************)
EXTENDS Naturals, Sequences

CONSTANTS
  Attempts,      \* execution contracts, one for each attempt
  NoAttempt,
  Allows,        \* the capabilities each contract allows
  Ids,           \* the ids of the other commands of each attempt
  BeginId,       \* the id of an attempt's Begin
  Uses,          \* the sets of capabilities an input frame uses
  MaxSequence,   \* bound: the highest sequence of a session's commands
  MaxInput,      \* bound: the highest input sequence
  MaxAccepts     \* bound: the Begins accepted in a behaviour

VARIABLES
  open,       \* the control stream is up
  last,       \* ControlSession.last_sequence
  contract,   \* Translator.active_contract
  digests,    \* Translator.task_digests
  input,      \* Translator.last_input_sequence
  running,    \* the attempt the executor has active
  done,       \* the attempts that have ended
  handled,    \* the commands the journals hold a result for
  accepts,    \* history: how often a Begin has been accepted
  inputs      \* history: the inputs that reached the device

translator == <<contract, digests, input>>
journal == <<running, done, handled>>
history == <<accepts, inputs>>
vars == <<open, last, translator, journal, history>>

\* The task commands: a Begin, the commands without an input ("release" stands for
\* InspectAttempt too), a click or swipe, and a frame with the capabilities it uses.
Plain == [kind : {"target", "capture", "realtime", "release", "finish"},
          input : {0}, uses : {{}}]
Opening == [kind |-> "begin", input |-> 0, uses |-> {}]
Points == [kind : {"point"}, input : 1..MaxInput, uses : {{}}]
Frames == [kind : {"frame"}, input : 1..MaxInput, uses : Uses]
Payloads == Plain \cup Points \cup Frames \cup {Opening}

Requests ==
  [att : Attempts, id : {BeginId}, payload : {Opening}]
    \cup UNION {[att : {a}, id : Ids[a], payload : Payloads \ {Opening}] : a \in Attempts}

Keys == UNION {{a} \X (Ids[a] \cup {BeginId}) : a \in Attempts}

Key(q) == <<q.att, q.id>>

Empty == [k \in {} |-> NoAttempt]

TypeOK ==
  /\ open \in BOOLEAN
  /\ last \in 0..MaxSequence
  /\ contract \in Attempts \cup {NoAttempt}
  /\ DOMAIN digests \subseteq Keys
  /\ \A k \in DOMAIN digests : digests[k] \in Payloads
  /\ input \in 0..MaxInput
  /\ running \in Attempts \cup {NoAttempt}
  /\ done \subseteq Attempts
  /\ handled \subseteq Keys
  /\ accepts \in 0..MaxAccepts
  /\ inputs \in Seq([att : Attempts, id : UNION {Ids[a] : a \in Attempts}, input : 1..MaxInput, accept : 1..MaxAccepts])

Init ==
  /\ open = FALSE /\ last = 0
  /\ contract = NoAttempt /\ digests = Empty /\ input = 0
  /\ running = NoAttempt /\ done = {} /\ handled = {}
  /\ accepts = 0 /\ inputs = <<>>

------------------------------------------------------------------------------
\* The control stream.

NoTranslator == contract' = NoAttempt /\ digests' = Empty /\ input' = 0

\* receive_hub_hello: a verified hello opens the session; its translator is new.
Connect ==
  /\ ~open
  /\ open' = TRUE
  /\ last' = 0
  /\ NoTranslator
  /\ UNCHANGED <<journal, history>>

\* The stream ends, by itself or because a command names another session or has an
\* identity that does not fit its kind (verify_control_command). What the session
\* holds ends with it.
Disconnect ==
  /\ open
  /\ open' = FALSE
  /\ last' = 0
  /\ NoTranslator
  /\ UNCHANGED <<journal, history>>

\* verify_command_sequence: a task command may repeat the last sequence.
Sequenced(s, task) == s > last \/ (s = last /\ s > 0 /\ task)

\* message: the sequence of a verified command is the session's last.
Receive(s, task) ==
  /\ open
  /\ Sequenced(s, task)
  /\ last' = s

\* A replayed sequence is an error of the stream, which ends the session.
Replayed(s, task) ==
  /\ ~Sequenced(s, task)
  /\ Disconnect

------------------------------------------------------------------------------
\* The translator.

\* require_capability: the command is one of the accepted contract, which allows it.
Capable(q, capability) == q.att = contract /\ capability \in Allows[contract]

\* require_task_binding: a frame that only releases needs some input capability.
\* The capability looked for is the contract's first from 4 on.
Bound(q) ==
  /\ q.att = contract
  /\ Allows[contract] \cap (4..7) # {}

\* translate_input_frame.
TranslatesFrame(q) ==
  /\ contract # NoAttempt
  /\ q.payload.input > input
  /\ IF q.payload.uses = {} THEN Bound(q)
     ELSE \A capability \in q.payload.uses : Capable(q, capability)

\* ClientPointClick and ClientPointSwipe.
TranslatesPoint(q) == Capable(q, 5) /\ q.payload.input > input

\* The capability of the commands for the target, the capture and the program.
Needs == [target |-> 1, capture |-> 3, realtime |-> 8]

TranslatesDevice(q) == Capable(q, Needs[q.payload.kind])

\* Begin, Finish, Inspect and ReleaseAll name their attempt, whatever contract is held.
NeedsNoContract(q) == q.payload.kind \in {"begin", "release", "finish"}

\* The free function translate, by kind.
TranslatesKind(q) ==
  CASE q.payload.kind = "frame" -> TranslatesFrame(q)
    [] q.payload.kind = "point" -> TranslatesPoint(q)
    [] q.payload.kind \in DOMAIN Needs -> TranslatesDevice(q)
    [] OTHER -> NeedsNoContract(q)

\* Translator::translate: the digest of a command that has passed does not change.
Agrees(q) == Key(q) \in DOMAIN digests => digests[Key(q)] = q.payload

Translates(q) == Agrees(q) /\ TranslatesKind(q)

Remember(q) ==
  digests' = [k \in DOMAIN digests \cup {Key(q)} |->
                IF k \in DOMAIN digests THEN digests[k] ELSE q.payload]

\* Mutant: a click or a swipe spends no sequence.
SpendsFrames(q) == IF q.payload.kind = "frame" THEN q.payload.input ELSE input

\* An input that passes spends its sequence.
Spends(q) == IF q.payload.kind \in {"frame", "point"} THEN q.payload.input ELSE input

\* accept_begin: the executor has accepted the contract.
AcceptBegin(q) ==
  /\ contract' = q.att
  /\ digests' = [k \in {d \in DOMAIN digests : d[1] = q.att} \cup {Key(q)} |->
                   IF k = Key(q) THEN q.payload ELSE digests[k]]
  /\ input' = 0
  /\ accepts' = accepts + 1

------------------------------------------------------------------------------
\* The handlers of runtime.rs: a command is refused, or translated and executed.

\* reject: the journal of the attempt that runs keeps that the command was refused.
Journalled(k) == handled \cup {j \in {k} : j[1] = running}

\* command_rejection_event. Any command may be refused: its digest is not that of its
\* payload, it has expired, or its fields exceed their bounds. The journal keeps the
\* refusal unless it is full.
Refuse(k) ==
  /\ handled' \in {handled, Journalled(k)}
  /\ UNCHANGED <<open, translator, running, done, history>>

\* Mutant: the contract is the active one before the executor has accepted it.
BeginRefusedAccepts(q) ==
  /\ q.payload.kind = "begin"
  /\ Translates(q)
  /\ AcceptBegin(q)
  /\ UNCHANGED <<open, journal, inputs>>

\* A Begin the executor refuses: the catalog waits, a close runs, another attempt is
\* active, or this one has ended. It leaves no trace in the translator.
BeginRefused(q) ==
  /\ q.payload.kind = "begin"
  /\ Translates(q)
  /\ UNCHANGED <<open, translator, journal, history>>

\* begin_v2 claims a new attempt, or repeats a command the running one has a result for.
BeginAccepted(q) ==
  /\ q.payload.kind = "begin"
  /\ Translates(q)
  /\ \/ running = NoAttempt /\ q.att \notin done
     \/ running = q.att /\ Key(q) \in handled
  /\ running' = q.att
  /\ handled' = handled \cup {Key(q)}
  /\ accepts < MaxAccepts
  /\ AcceptBegin(q)
  /\ UNCHANGED <<open, done, inputs>>

\* Its handler runs a command when its attempt is active and has no result for it.
New(q) == q.att = running /\ Key(q) \notin handled

\* An input spends its sequence here, also when its handler turns it away before the
\* journal (a close runs, the source frame is stale) or answers from the journal.
Input(q) ==
  /\ q.payload.kind \in {"frame", "point"}
  /\ Translates(q)
  /\ Remember(q)
  /\ input' = Spends(q)
  /\ \/ /\ New(q)
        /\ handled' = Journalled(Key(q))
        /\ inputs' = Append(inputs, [att |-> q.att, id |-> q.id,
                                     input |-> q.payload.input, accept |-> accepts])
     \/ UNCHANGED <<handled, inputs>>
  /\ UNCHANGED <<open, contract, running, done, accepts>>

\* The other commands of an attempt.
Command(q) ==
  /\ q.payload.kind \in {"target", "capture", "realtime", "release"}
  /\ Translates(q)
  /\ Remember(q)
  /\ handled' \in {handled, Journalled(Key(q))}
  /\ UNCHANGED <<open, contract, input, running, done, history>>

\* FinishAttempt ends the attempt when its clean-up completes.
Finish(q) ==
  /\ q.payload.kind = "finish"
  /\ Translates(q)
  /\ Remember(q)
  /\ handled' = Journalled(Key(q))
  /\ \/ /\ New(q)
        /\ running' = NoAttempt
        /\ done' = done \cup {q.att}
     \/ UNCHANGED <<running, done>>
  /\ UNCHANGED <<open, contract, input, history>>

Task(q) == BeginRefused(q) \/ BeginAccepted(q) \/ Input(q) \/ Command(q) \/ Finish(q)

\* A command of the session (launch, close, configure, stop, release) leaves the
\* translator as it is.
SessionCommand == UNCHANGED <<open, translator, journal, history>>

TaskCommand == \E s \in 1..MaxSequence, q \in Requests : Receive(s, TRUE) /\ Task(q)

RefusedCommand == \E s \in 1..MaxSequence, k \in Keys : Receive(s, TRUE) /\ Refuse(k)

OtherCommand == \E s \in 1..MaxSequence : Receive(s, FALSE) /\ SessionCommand

OldCommand == \E s \in 1..MaxSequence, task \in BOOLEAN : Replayed(s, task)

Next == Connect \/ Disconnect \/ TaskCommand \/ RefusedCommand \/ OtherCommand \/ OldCommand

Spec == Init /\ [][Next]_vars

------------------------------------------------------------------------------

\* An input reaches the device once, whatever the Hub repeats and in whichever session,
\* and between two accepted Begins the inputs that reach it are all of the attempt
\* that was begun and in the order of their sequences (v3_adapter.rs,
\* translate_input_frame; execution.rs, execute_v3_input_frame).
InputsInOrder ==
  \A i, j \in DOMAIN inputs : i < j =>
    /\ <<inputs[i].att, inputs[i].id>> # <<inputs[j].att, inputs[j].id>>
    /\ inputs[i].accept = inputs[j].accept =>
         inputs[i].att = inputs[j].att /\ inputs[i].input < inputs[j].input

\* The contract that commands are held to is the one of the attempt that runs: a Begin
\* the executor refused changes nothing for the attempt it interrupts (v3_adapter.rs,
\* accept_begin; the test unaccepted_valid_begin_keeps_the_active_attempt_unchanged).
ContractIsRunning ==
  contract # NoAttempt /\ running # NoAttempt => contract = running

------------------------------------------------------------------------------
\* The inductive invariant.

\* An input that reached the device has a result; it was let through under a contract that
\* was accepted before, and if that is the contract still held, it is of the attempt begun
\* and its sequence is spent.
Spent ==
  \A i \in DOMAIN inputs :
    /\ <<inputs[i].att, inputs[i].id>> \in handled
    /\ inputs[i].accept <= accepts
    /\ inputs[i].accept = accepts /\ contract # NoAttempt =>
         inputs[i].att = contract /\ inputs[i].input <= input

\* A contract is held only after a Begin was accepted.
Accepted == contract # NoAttempt => accepts > 0

IInv == TypeOK /\ Accepted /\ Spent /\ InputsInOrder /\ ContractIsRunning

==============================================================================
