----------------------------- MODULE TargetCapture -----------------------------
(***************************************************************************)
(* The window of a task, its frames, and the input that is decided on one  *)
(* (bins/fairypam-agent/src/execution.rs, with the frame slot of           *)
(* crates/fairypam-agent-transport/src/frame.rs).                          *)
(*                                                                         *)
(* Every change of the binding is a new target generation.  The frames of  *)
(* an attempt are numbered by a counter that the executor keeps in a map   *)
(* and the capture thread shares; an input frame names the number of the   *)
(* frame the Hub has looked at, and is refused unless that is the latest.  *)
(* The binding moves, captures fail and start again, and the map is        *)
(* cleared, while frames are on their way to the Hub.                      *)
(***************************************************************************)
EXTENDS Naturals, Sequences, FiniteSets

CONSTANTS
    Windows, NoWindow,
    MaxGenerations, MaxFrames  \* bounds of the model

VARIABLES
    bindings,  \* the binding of every target generation so far
    counter,   \* the entry of the attempt in frame_sequences; 0 if there is none
    capture,   \* CaptureWorker with its plan
    published, \* the frames the Hub may have got
    blocked,   \* the attempt is blocked for recovery
    repeated,  \* how many frames were there when a failed capture took the counter with it
    accepted   \* the last input that was accepted

vars == <<bindings, counter, capture, published, blocked, repeated, accepted>>

\* order is the place among all frames, which no code knows.
Frames == [order : 1 .. MaxFrames, sequence : 1 .. MaxFrames,
           generation : 0 .. MaxGenerations, window : Windows]

NoInput == [frame |-> <<>>, window |-> NoWindow, latest |-> 0]

Inputs == [frame : Frames, window : Windows, latest : 1 .. MaxFrames] \cup {NoInput}

\* own is the counter of the thread once the map no longer has it.
Captures ==
    [state : {"none", "running", "lost", "failed"}, window : Windows \cup {NoWindow},
     generation : 0 .. MaxGenerations, shared : BOOLEAN, own : 0 .. MaxFrames,
     rediscovery : BOOLEAN]

NoCapture ==
    [state |-> "none", window |-> NoWindow, generation |-> 0, shared |-> FALSE,
     own |-> 0, rediscovery |-> FALSE]

Init ==
    /\ bindings = <<>> /\ counter = 0 /\ capture = NoCapture /\ published = {}
    /\ blocked = FALSE /\ repeated = 0 /\ accepted = NoInput

Generation(b) == Len(b)

Binding(b) == IF b = <<>> THEN NoWindow ELSE b[Len(b)]

Latest == Cardinality(published)

-------------------------------------------------------------------------------
\* set_binding: a binding that differs in anything is a new generation, and the counters
\* of the old one are dropped.  A window that has changed its title or size differs.
SetBinding(b, w) == Append(b, w)

\* The thread of a capture that goes on keeps the counter it has.
Orphaned(c) ==
    IF c.shared THEN [c EXCEPT !.shared = FALSE, !.own = counter] ELSE c

Rebind(w) ==
    /\ Generation(bindings) < MaxGenerations
    /\ bindings' = SetBinding(bindings, w)
    /\ counter' = 0

\* stop_capture: the capture is gone, but if it had failed this is an error, and the
\* command that stops it ends there.
Stopped == capture' = NoCapture

StopFails == capture.state \in {"lost", "failed"}

CommandStops ==
    /\ StopFails /\ Stopped
    /\ UNCHANGED <<bindings, counter, published, blocked, repeated, accepted>>

\* LockTarget and LaunchTarget stop the capture first.
LockTarget(w) ==
    /\ ~StopFails
    /\ Rebind(w) /\ Stopped
    /\ UNCHANGED <<published, blocked, repeated, accepted>>

\* StartTaskTarget and FocusTarget leave a capture running.
MoveTarget(w) ==
    /\ Rebind(w)
    /\ capture' = Orphaned(capture)
    /\ UNCHANGED <<published, blocked, repeated, accepted>>

\* CloseTarget goes on when the capture had failed, StopSession does not.
CloseTarget ==
    /\ Binding(bindings) # NoWindow
    /\ Rebind(NoWindow) /\ Stopped
    /\ UNCHANGED <<published, blocked, repeated, accepted>>

\* FinishTaskAttempt and reset_session: the next attempt has keys of its own.
FinishAttempt ==
    /\ Stopped /\ counter' = 0 /\ published' = {} /\ accepted' = NoInput
    /\ blocked' = FALSE /\ repeated' = 0
    /\ UNCHANGED bindings

-------------------------------------------------------------------------------
\* Mutant: the target may have moved since the Hub looked.
AnyGeneration(generation) == generation # 0

\* require_target_generation
Current(generation) == generation = Generation(bindings) /\ generation # 0

Running(b, rediscovery) ==
    [state |-> "running", window |-> Binding(b), generation |-> Generation(b),
     shared |-> TRUE, own |-> 0, rediscovery |-> rediscovery]

\* Mutant: a capture starts its frames at one.
StartCaptureAtOne ==
    /\ ~StopFails /\ Binding(bindings) # NoWindow
    /\ \E generation \in 1 .. MaxGenerations : Current(generation)
    /\ capture' = Running(bindings, TRUE) /\ counter' = 0
    /\ UNCHANGED <<bindings, published, blocked, repeated, accepted>>

\* StartCapture: the one before is stopped; the counter of the attempt goes on.
StartCapture ==
    /\ ~StopFails /\ Binding(bindings) # NoWindow
    /\ \E generation \in 1 .. MaxGenerations : Current(generation)
    /\ capture' \in {Running(bindings, TRUE), NoCapture}    \* start_capture may fail
    /\ UNCHANGED <<bindings, counter, published, blocked, repeated, accepted>>

StopCapture ==
    /\ capture.state = "running" /\ Stopped
    /\ UNCHANGED <<bindings, counter, published, blocked, repeated, accepted>>

Publish(sequence, generation, w) ==
    published' = published \cup
        {[order |-> Latest + 1, sequence |-> sequence, generation |-> generation, window |-> w]}

\* The thread has a frame.  While the frame session is attached again the slot accepts
\* nothing, and the number is spent.
FrameCaptured ==
    /\ capture.state = "running" /\ Latest < MaxFrames
    /\ LET next == 1 + IF capture.shared THEN counter ELSE capture.own
       IN  /\ next <= MaxFrames
           /\ IF capture.shared THEN counter' = next /\ UNCHANGED capture
              ELSE capture' = [capture EXCEPT !.own = next] /\ UNCHANGED counter
           /\ \/ Publish(next, capture.generation, capture.window)
              \/ UNCHANGED published
    /\ UNCHANGED <<bindings, blocked, repeated, accepted>>

\* CaptureFrame: one frame, and only without a capture.  If it fails the number may be spent.
CaptureFrame ==
    /\ capture.state = "none" /\ Binding(bindings) # NoWindow
    /\ counter < MaxFrames /\ Latest < MaxFrames
    /\ \/ /\ counter' = counter + 1 /\ UNCHANGED blocked
          /\ Publish(counter', Generation(bindings), Binding(bindings))
       \/ /\ counter' \in {counter, counter + 1} /\ blocked' \in {blocked, TRUE}
          /\ UNCHANGED published
    /\ UNCHANGED <<bindings, capture, repeated, accepted>>

\* The thread ends: no frame for too long, a window that is gone, or a Worker that fails.
CaptureFails ==
    /\ capture.state = "running"
    /\ capture' \in {[capture EXCEPT !.state = "lost"], [capture EXCEPT !.state = "failed"]}
    /\ UNCHANGED <<bindings, counter, published, blocked, repeated, accepted>>

-------------------------------------------------------------------------------
\* Mutant: the new capture has the plan of the old one.
RediscoveredOldPlan(b) == [Running(b, FALSE) EXCEPT !.generation = capture.generation]

\* restart_capture_after_rediscovery: the plan has the generation of the new binding.
Rediscovered(b) == Running(b, FALSE)

\* capture_failure_event gives up: the counter goes with the capture.
GiveUp(b) ==
    /\ bindings' = b /\ capture' = NoCapture /\ counter' = 0
    /\ repeated' = IF counter # 0 /\ b = bindings THEN Latest ELSE repeated

\* capture_failure_event: input is released; a target that may have moved is looked for
\* once, and the capture is built again on what is found.
CaptureFailureEvent ==
    /\ capture.state \in {"lost", "failed"}
    /\ blocked' \in (IF capture.state = "failed" THEN {TRUE} ELSE {blocked, TRUE})
    /\ \/ GiveUp(bindings)
       \/ /\ capture.state = "lost" /\ capture.rediscovery /\ Binding(bindings) # NoWindow
          /\ \/ /\ capture' = Rediscovered(bindings)    \* it has not moved
                /\ UNCHANGED <<bindings, counter, repeated>>
             \/ /\ Generation(bindings) < MaxGenerations
                /\ \E w \in Windows :
                    \/ /\ bindings' = SetBinding(bindings, w) /\ counter' = 0
                       /\ capture' = Rediscovered(bindings') /\ UNCHANGED repeated
                    \/ GiveUp(SetBinding(bindings, w))
    /\ UNCHANGED <<published, accepted>>

\* execute_v3_input_frame with a source frame: the number is the latest of the attempt, the
\* generation that of the binding.
InputFrame(frame) ==
    /\ ~blocked /\ frame \in published
    /\ counter # 0 /\ frame.sequence = counter
    /\ Binding(bindings) # NoWindow /\ Current(frame.generation)
    /\ accepted' = [frame |-> frame, window |-> Binding(bindings), latest |-> Latest]
    /\ UNCHANGED <<bindings, counter, capture, published, blocked, repeated>>

Next ==
    \/ CommandStops \/ CloseTarget \/ FinishAttempt
    \/ \E w \in Windows : LockTarget(w) \/ MoveTarget(w)
    \/ StartCapture \/ StopCapture \/ FrameCaptured \/ CaptureFrame
    \/ CaptureFails \/ CaptureFailureEvent
    \/ \E frame \in published : InputFrame(frame)

Spec == Init /\ [][Next]_vars

-------------------------------------------------------------------------------
TypeOK ==
    /\ bindings \in UNION {[1 .. n -> Windows \cup {NoWindow}] : n \in 0 .. MaxGenerations}
    /\ counter \in 0 .. MaxFrames /\ capture \in Captures /\ published \subseteq Frames
    /\ blocked \in BOOLEAN /\ repeated \in 0 .. MaxFrames /\ accepted \in Inputs

\* An input acts on the window the Hub has seen, however often the target has moved since
\* (require_target_generation, set_binding).
ActsOnSeenWindow == accepted # NoInput => accepted.frame.window = accepted.window

\* An input is decided on the latest frame of the attempt, unless it names one from before a
\* failed capture took the counter with it, whose number has come again
\* (ensure_current_source_frame).
ActsOnLatestFrame ==
    (accepted # NoInput /\ accepted.frame.order > repeated) =>
        \A frame \in published :
            (frame.order <= accepted.latest /\ frame.generation = accepted.frame.generation)
                => frame.order <= accepted.frame.order

\* A frame that names a generation shows the window that generation is bound to, also when
\* the capture was built again on another window.
FramesNameTheirWindow ==
    \A frame \in published : bindings[frame.generation] = frame.window

\* All three: input is applied to the window and the frame the Hub decided on.
ActsOnWhatItSaw == ActsOnSeenWindow /\ ActsOnLatestFrame /\ FramesNameTheirWindow

-------------------------------------------------------------------------------
\* The inductive invariant.

\* A capture that runs shows the window of its generation, and has the counter of the
\* attempt as long as that generation is the latest.
RunningInv ==
    capture.state = "running" =>
        /\ capture.generation \in 1 .. Len(bindings) /\ capture.window \in Windows
        /\ bindings[capture.generation] = capture.window
        /\ capture.shared <=> capture.generation = Len(bindings)

\* The frames are of the generations so far, and none is placed after the last.
PublishedInv ==
    /\ IsFiniteSet(published) /\ Latest <= MaxFrames
    /\ \A frame \in published :
        frame.generation \in 1 .. Len(bindings) /\ frame.order <= Latest

\* The frames of the latest generation that the counter in the map has numbered have numbers
\* up to it, in their order.
CounterInv ==
    \A frame \in published :
        (frame.generation = Len(bindings) /\ frame.order > repeated) =>
            /\ frame.sequence <= counter
            /\ \A other \in published :
                (other.generation = Len(bindings) /\ frame.order < other.order)
                    => frame.sequence < other.sequence

AcceptedInv == accepted.latest <= Latest

IInv ==
    /\ TypeOK /\ RunningInv /\ PublishedInv /\ CounterInv /\ AcceptedInv
    /\ ActsOnWhatItSaw

===============================================================================
