------------------------------- MODULE FrameRing -------------------------------
(***************************************************************************)
(* The frames between the Worker and the Agent: the ring in shared memory  *)
(* (bins/fairypam-win32-worker/src/frame_ring.rs, with its reader in       *)
(* crates/fairypam-agent-maa/src/worker_client.rs), and the two caches     *)
(* that tie an input to a frame: the map of the Agent from the numbers the *)
(* Hub knows to those of the Worker (SourceFrameMap), and the window of    *)
(* the frames the Worker accepts (SourceFrameWindow).                      *)
(*                                                                         *)
(* No lock is shared over the ring.  The writer fills the slot of a        *)
(* number, then its header, then stores the number; the reader loads the   *)
(* number, reads header and pixels, and loads the number again.  Stores    *)
(* become visible in program order, as on the only platform of the Worker. *)
(* The executor releases, restarts the Worker and attaches it again while  *)
(* the thread of a stream has a frame in its hands.                        *)
(***************************************************************************)
EXTENDS Naturals, FiniteSets

CONSTANTS
    Sources, NoSource,                \* capture sources of the Profile
    MaxNumber, MaxPublic, MaxWorkers  \* bounds of the model

VARIABLES
    worker,   \* the Worker process, its controller and the ring
    capture,  \* WorkerCapture, and the thread that reads for it
    counter,  \* frame_sequences: the last number given to the Hub, for each source
    map,      \* SourceFrameMap: the Worker's number of a public one, 0 if there is none
    session,  \* an input session is open on the Worker
    faulted,  \* the Worker has failed and no frame was read since
    seen      \* the latest frame of each source that the Hub has

vars == <<worker, capture, counter, map, session, faulted, seen>>

SLOT_COUNT == 2

\* payload is the set of the frames whose pixels the slot holds; released is the number
\* at the last release, skipped that a number was spent on a frame that is not published,
\* and none has been since.
Started(life) ==
    [life |-> life, alive |-> TRUE, number |-> 0, window |-> {}, published |-> 0,
     slots |-> [i \in 0 .. SLOT_COUNT - 1 |-> [header |-> 0, payload |-> {}]],
     writer |-> "idle", stream |-> "none", skipped |-> FALSE, released |-> 0]

Lost(w) == [Started(w.life) EXCEPT !.alive = FALSE]

NoCapture == [mode |-> "none", source |-> NoSource, after |-> 0, phase |-> "idle",
              life |-> 0, number |-> 0, payload |-> {}, clean |-> TRUE]

\* late is set when the Worker of the frame had been replaced before it was bound.
NoFrame == [public |-> 0, life |-> 0, number |-> 0, payload |-> {}, clean |-> TRUE,
            late |-> FALSE]

NoMap == [n \in 1 .. MaxPublic |-> 0]

Init ==
    /\ worker = Lost(Started(0)) /\ capture = NoCapture
    /\ counter = [s \in Sources |-> 0] /\ map = NoMap
    /\ session = FALSE /\ faulted = FALSE
    /\ seen = [s \in Sources |-> NoFrame]

-------------------------------------------------------------------------------
\* capture_once_with_progress of the controller: the number is spent.
Numbered(w) == [w EXCEPT !.number = @ + 1, !.window = @ \cup {w.number + 1}]

Skipped(w) == [Numbered(w) EXCEPT !.skipped = TRUE]

\* Mutant: one slot for all frames.
SlotOnly(number) == 0

Slot(number) == number % SLOT_COUNT

\* publish: pixels, header, number.
HalfWritten(w) == [w EXCEPT !.slots[Slot(w.number)].payload = @ \cup {w.number}]

PixelsWritten(w) == [w EXCEPT !.slots[Slot(w.number)].payload = {w.number}]

HeaderWritten(w) == [w EXCEPT !.slots[Slot(w.number)].header = w.number]

Stored(w) == [w EXCEPT !.published = w.number, !.skipped = FALSE]

Streaming(phase) == worker.alive /\ worker.stream = "running" /\ worker.writer = phase

\* The thread of the Worker's stream, capture_and_publish.  A reader that comes between
\* pixels and header gets what it gets before the last pixels: not the frame of its number.
StreamWrites ==
    /\ \/ /\ Streaming("idle") /\ worker.number < MaxNumber
          /\ worker' = [HalfWritten(Numbered(worker)) EXCEPT !.writer = "half"]
       \/ /\ Streaming("half")
          /\ worker' = [HeaderWritten(PixelsWritten(worker)) EXCEPT !.writer = "header"]
       \/ Streaming("header") /\ worker' = [Stored(worker) EXCEPT !.writer = "idle"]
    /\ UNCHANGED <<capture, counter, map, session, faulted, seen>>

\* The capture fails, or the encoding of a frame that has its number: the loop breaks.
StreamBreaks ==
    /\ Streaming("idle")
    /\ \/ worker' = [worker EXCEPT !.stream = "broken"]
       \/ /\ worker.number < MaxNumber
          /\ worker' = [Skipped(worker) EXCEPT !.stream = "broken"]
    /\ UNCHANGED <<capture, counter, map, session, faulted, seen>>

-------------------------------------------------------------------------------
\* next_after holds the lock of the Worker until it has a frame.
Reading == capture.phase = "copied"

\* next_after and the first half of read_sequence: the number is newer, and the header is the
\* one of the number.  A number that is replaced meanwhile fails the check that follows, so
\* the two loads and the copies between them are one step.
CopySlot ==
    /\ capture.mode = "stream" /\ capture.phase = "idle"
    /\ worker.alive /\ worker.published > capture.after
    /\ LET slot == worker.slots[Slot(worker.published)]
       IN  /\ slot.header = worker.published
           /\ capture' = [capture EXCEPT !.phase = "copied", !.number = worker.published,
                                         !.payload = slot.payload, !.clean = ~worker.skipped]
    /\ UNCHANGED <<worker, counter, map, session, faulted, seen>>

\* next_frame_sequence
NextPublic(source) ==
    /\ counter[source] < MaxPublic
    /\ counter' = [counter EXCEPT ![source] = @ + 1]

\* read_sequence loads the number again; with a frame, the thread takes the next public
\* number (next_frame_sequence).
CheckPublished ==
    /\ capture.phase = "copied"
    /\ \/ /\ worker.published = capture.number
          /\ NextPublic(capture.source)
          /\ capture' = [capture EXCEPT !.phase = "numbered", !.after = capture.number,
                                        !.life = worker.life]
          /\ faulted' = FALSE
       \/ /\ worker.published # capture.number
          /\ capture' = [capture EXCEPT !.phase = "idle", !.number = 0, !.payload = {}]
          /\ UNCHANGED <<counter, faulted>>
    /\ UNCHANGED <<worker, map, session, seen>>

\* bind_frame_sequence and publish, with the life of the Worker the frame is from.
BindFrame ==
    /\ capture.phase = "numbered"
    /\ LET public == counter[capture.source]
       IN  /\ map' = [map EXCEPT ![public] = capture.number]
           /\ seen' = [seen EXCEPT ![capture.source] =
                  [public |-> public, life |-> capture.life, number |-> capture.number,
                   payload |-> capture.payload, clean |-> capture.clean,
                   late |-> capture.life # worker.life]]
    /\ capture' = [NoCapture EXCEPT !.mode = capture.mode, !.source = capture.source,
                                    !.after = capture.after]
    /\ UNCHANGED <<worker, counter, session, faulted>>

\* next_frame with nothing newer at its deadline: invalidate ends the Worker.  The deadline is
\* that of one frame, and the thread takes the error for a failure.  Without a Worker there
\* is only the failure.
FrameLate ==
    /\ capture.mode = "stream" /\ capture.phase = "idle"
    /\ capture' = [NoCapture EXCEPT !.mode = "failed"]
    /\ \/ /\ worker.alive /\ worker.published <= capture.after
          /\ worker' = Lost(worker) /\ map' = NoMap /\ faulted' = TRUE
       \/ ~worker.alive /\ UNCHANGED <<worker, map, faulted>>
    /\ UNCHANGED <<counter, session, seen>>

-------------------------------------------------------------------------------
\* attach: the process that has this target is used again, or there is a new one.
Attached(moved) ==
    IF worker.alive /\ ~moved THEN worker ELSE Started(worker.life + 1)

MapAfterAttach(moved) == IF worker.alive /\ ~moved THEN map ELSE NoMap

CanAttach(moved) == ~Reading /\ ((worker.alive /\ ~moved) \/ worker.life < MaxWorkers)

\* The new process does not come up, or does not take the target.
AttachFails ==
    /\ ~Reading /\ worker.life < MaxWorkers
    /\ worker' = Lost(Started(worker.life + 1)) /\ map' = NoMap
    /\ UNCHANGED <<capture, counter, session, faulted, seen>>

\* StartCapture: the numbers of the reader begin at zero, whatever the ring still holds.
StartCapture(source, moved) ==
    /\ capture.mode = "none" /\ CanAttach(moved)
    /\ map' = NoMap
    /\ \/ /\ worker' = [Attached(moved) EXCEPT !.stream = "running"]
          /\ capture' = [NoCapture EXCEPT !.mode = "stream", !.source = source]
       \/ /\ worker' = Attached(moved) /\ UNCHANGED capture
    /\ UNCHANGED <<counter, session, faulted, seen>>

\* stop_capture of the Worker joins its thread.
StreamStopped(w) == [w EXCEPT !.stream = "none"]

\* The thread is joined, and the drop of its WorkerCapture stops the stream of the Worker,
\* which joins its own.  A stream that had broken is an error: the Worker goes.
StopCapture ==
    /\ capture.mode # "none" /\ capture.phase = "idle" /\ capture' = NoCapture
    /\ worker.writer = "idle"
    /\ IF capture.mode = "stream" /\ worker.stream = "broken"
       THEN worker' = Lost(worker) /\ map' = NoMap /\ faulted' = TRUE
       ELSE worker' = StreamStopped(worker) /\ UNCHANGED <<map, faulted>>
    /\ UNCHANGED <<counter, session, seen>>

\* CaptureOnce: nothing reads or writes beside it, so the frame the answer names is read whole.
Published(w) == Stored(HeaderWritten(PixelsWritten(Numbered(w))))

OnceRead(source, w) ==
    /\ NextPublic(source)
    /\ worker' = w /\ faulted' = FALSE
    /\ seen' = [seen EXCEPT ![source] =
           [public |-> counter'[source], life |-> w.life, number |-> w.number,
            payload |-> w.slots[Slot(w.number)].payload, clean |-> TRUE, late |-> FALSE]]
    /\ UNCHANGED <<session, capture>>

\* An answer that names the failure leaves the Worker; a frame that cannot be read ends it, and
\* a timeout does and releases.
OnceFails(w) ==
    /\ \/ worker' \in {w, Skipped(w)} /\ UNCHANGED <<session, faulted>>
       \/ worker' = Lost(w) /\ session' \in {session, FALSE} /\ faulted' = TRUE
    /\ UNCHANGED <<capture, counter, seen>>

CaptureFrame(source, moved) ==
    /\ capture.mode = "none" /\ CanAttach(moved)
    /\ LET w == Attached(moved)
       IN  /\ w.number < MaxNumber
           /\ \/ /\ OnceRead(source, Published(w))
                 /\ map' = [MapAfterAttach(moved) EXCEPT ![counter'[source]] = w.number + 1]
              \/ /\ OnceFails(w)
                 /\ map' = IF worker'.alive THEN MapAfterAttach(moved) ELSE NoMap

\* The first input of a session attaches; after a failure a frame must have been read.
OpenSession(moved) ==
    /\ ~session /\ ~faulted /\ CanAttach(moved)
    /\ session' = TRUE /\ worker' = Attached(moved) /\ map' = MapAfterAttach(moved)
    /\ UNCHANGED <<capture, counter, faulted, seen>>

\* ensure_current_source_frame
IsLatest(source) == seen[source].public # 0 /\ seen[source].public = counter[source]

\* runtime_source_frame: the map is not told the source.
RuntimeNumber(source) == map[counter[source]]

\* No other source has had a frame of this number.
OnlyOneNumbered(source) == \A other \in Sources \ {source} : counter[other] < counter[source]

OnlySource(source) == \A other \in Sources \ {source} : counter[other] = 0

\* SourceFrameWindow
Knows(w, number) == number \in w.window

\* An input with coordinates goes through: the Hub names its latest frame, the Agent has the
\* number of that in the Worker, and the Worker knows it.  It waits while a reader has the
\* lock, and changes nothing here.
Accepts(source) ==
    /\ session /\ ~Reading /\ worker.alive
    /\ IsLatest(source) /\ Knows(worker, RuntimeNumber(source))

-------------------------------------------------------------------------------
\* Mutant: a release keeps the frames the Worker knows.
ReleasedKeepsFrames(w) == [StreamStopped(w) EXCEPT !.released = w.number]

\* ReleaseAll in the Worker: the stream is joined, and no frame is known any more.
Released(w) == [StreamStopped(w) EXCEPT !.released = w.number, !.window = {}]

\* release_emergency: with the lock taken by a reader only the map is cleared, and this is an
\* error; a Worker that does not release, as with a stream that had broken, is ended.
ReleaseEmergency ==
    /\ map' = NoMap
    /\ \/ /\ Reading /\ UNCHANGED <<worker, session>>
       \/ /\ ~Reading /\ worker.alive /\ worker.writer = "idle" /\ worker.stream # "broken"
          /\ worker' = Released(worker) /\ session' = FALSE
       \/ /\ ~Reading /\ worker.alive /\ worker' = Lost(worker) /\ UNCHANGED session
       \/ /\ ~Reading /\ ~worker.alive /\ session' = FALSE /\ UNCHANGED worker
    /\ UNCHANGED <<capture, counter, faulted, seen>>

Next ==
    \/ StreamWrites \/ StreamBreaks
    \/ CopySlot \/ CheckPublished \/ BindFrame \/ FrameLate
    \/ AttachFails \/ StopCapture \/ ReleaseEmergency
    \/ \E moved \in BOOLEAN : OpenSession(moved)
    \/ \E source \in Sources :
        \E moved \in BOOLEAN : StartCapture(source, moved) \/ CaptureFrame(source, moved)

Spec == Init /\ [][Next]_vars

-------------------------------------------------------------------------------
TypeOK ==
    /\ worker.life \in 0 .. MaxWorkers /\ worker.published <= worker.number
    /\ worker.window \subseteq 1 .. worker.number
    /\ \A i \in DOMAIN worker.slots : worker.slots[i].payload \subseteq 1 .. worker.number
    /\ counter \in [Sources -> 0 .. MaxPublic] /\ map \in [1 .. MaxPublic -> 0 .. MaxNumber]
    /\ {session, faulted} \subseteq BOOLEAN
    /\ \A s \in Sources : seen[s].public <= counter[s]

\* A frame the Hub gets is whole, and the one its number names, unless it was read after the
\* Worker had spent a number without a frame and before it published the next one: two slots
\* are enough only for numbers without gaps (read_sequence).
SeesWholeFrames ==
    \A s \in Sources :
        (seen[s].public # 0 /\ seen[s].clean) => seen[s].payload = {seen[s].number}

\* An input with coordinates acts on no frame from before the last release, and on the one
\* the Hub named.  The second fails where SourceFrameMap cannot tell frames apart: another
\* source has had one of the same public number, or the frame was bound late, and its
\* Worker's successor has published none, or none of this source (runtime_source_frame).
ActsOnSeenFrame ==
    \A s \in Sources : Accepts(s) =>
        /\ RuntimeNumber(s) > worker.released
        /\ (OnlyOneNumbered(s) /\ (seen[s].late => worker.published # 0 /\ OnlySource(s))) =>
               /\ seen[s].life = worker.life
               /\ seen[s].number = RuntimeNumber(s)

\* Both: what an input is decided on is one frame, and still the Worker's.
ActsOnWhatItSaw == SeesWholeFrames /\ ActsOnSeenFrame

-------------------------------------------------------------------------------
\* The inductive invariant.

Workers ==
    [life : 0 .. MaxWorkers, alive : BOOLEAN, number : 0 .. MaxNumber,
     window : SUBSET (1 .. MaxNumber), published : 0 .. MaxNumber,
     slots : [0 .. SLOT_COUNT - 1 ->
                 [header : 0 .. MaxNumber, payload : SUBSET (1 .. MaxNumber)]],
     writer : {"idle", "half", "header"}, stream : {"none", "running", "broken"},
     skipped : BOOLEAN, released : 0 .. MaxNumber]

Captures ==
    [mode : {"none", "stream", "failed"}, source : Sources \cup {NoSource},
     after : 0 .. MaxNumber, phase : {"idle", "copied", "numbered"},
     life : 0 .. MaxWorkers, number : 0 .. MaxNumber,
     payload : SUBSET (1 .. MaxNumber), clean : BOOLEAN]

Frames ==
    [public : 0 .. MaxPublic, life : 0 .. MaxWorkers, number : 0 .. MaxNumber,
     payload : SUBSET (1 .. MaxNumber), clean : BOOLEAN, late : BOOLEAN]

ShapeInv == worker \in Workers /\ capture \in Captures /\ seen \in [Sources -> Frames]

\* What a slot holds.  Without a gap in the numbers the frame being written is the one
\* after the last published, and so goes to the other slot.
SlotInv(w) ==
    /\ w.writer # "idle" => w.stream = "running" /\ w.number > 0
    /\ w.writer = "header" => w.slots[Slot(w.number)].payload = {w.number}
    /\ ~w.skipped =>
           /\ w.number = IF w.writer = "idle" THEN w.published ELSE w.published + 1
           /\ w.published > 0 => w.slots[Slot(w.published)].payload = {w.published}

\* The Worker knows frames it has numbered since the last release.
WindowInv(w) == w.released <= w.number /\ w.window \subseteq (w.released + 1) .. w.number

\* The reader holds a whole frame, of a number the Worker has reached.  Its Worker may be
\* replaced only once the frame has a public number.
ReaderInv ==
    /\ capture.phase # "idle" => capture.mode = "stream"
    /\ capture.mode = "stream" => capture.source \in Sources
    /\ capture.phase = "copied" =>
           capture.number \in 1 .. worker.number
    /\ (capture.phase # "idle" /\ capture.clean) => capture.payload = {capture.number}
    /\ capture.phase = "numbered" =>
           /\ counter[capture.source] > 0 /\ capture.number > 0
           /\ worker.published = 0 \/ capture.life = worker.life

\* A stream of the Worker has its reader, and no number of an earlier Worker is in the map
\* when its first frame is published.
StreamInv ==
    worker.stream # "none" =>
        /\ worker.alive /\ capture.mode = "stream"
        /\ capture.phase = "numbered" => worker.published > 0
        /\ worker.published = 0 => map = NoMap

\* The map has the Worker's number of the latest frame, if no other source has one of the
\* same number; one that was bound late is of an earlier Worker as long as this one has
\* published none.
MatchedInv ==
    \A s \in Sources :
        (IsLatest(s) /\ map[counter[s]] # 0 /\ OnlyOneNumbered(s)) =>
            /\ seen[s].number = map[counter[s]]
            /\ \/ seen[s].life = worker.life
               \/ seen[s].late /\ (worker.published = 0 \/ ~OnlySource(s))

IInv ==
    /\ TypeOK /\ ShapeInv /\ SlotInv(worker) /\ WindowInv(worker)
    /\ ReaderInv /\ StreamInv /\ MatchedInv /\ SeesWholeFrames

================================================================================
