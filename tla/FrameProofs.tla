------------------------------ MODULE FrameProofs ------------------------------
(***************************************************************************)
(* Target capture and the frame ring keep their inductive invariants, for  *)
(* any windows and capture sources and any bounds on what is numbered.     *)
(* AgentProofs draws the theorem from them.                                *)
(***************************************************************************)
EXTENDS MCAgent, Sequences, FiniteSetTheorems, TLAPS

-------------------------------------------------------------------------------
LEMMA FrameBounds ==
  /\ MaxGenerations \in Nat /\ MaxFrames \in Nat /\ NoWindow \notin Windows
  /\ MaxNumber \in Nat /\ MaxPublic \in Nat /\ MaxWorkers \in Nat
<1>1. {MaxGenerations, MaxFrames, MaxNumber, MaxPublic, MaxWorkers} \subseteq Nat
  BY MCAgentAssumption DEF MCAgentAssumption
<1> QED
  BY <1>1, MCAgentAssumption DEF MCAgentAssumption

\* The instance of target capture brings its own finite sets.
LEMMA SameCardinality == \A S : T!Cardinality(S) = Cardinality(S)
BY DEF T!Cardinality, Cardinality

LEMMA SameFinite == \A S : T!IsFiniteSet(S) <=> IsFiniteSet(S)
BY DEF T!IsFiniteSet, IsFiniteSet

\* The windows a binding names, or that it names none.
Places == Windows \cup {NoWindow}

\* The bindings as a sequence.
BindingsOK(b) == b \in Seq(Places) /\ Len(b) \in 0 .. MaxGenerations

LEMMA BindingFacts == T!TypeOK => BindingsOK(captureBindings)
<1> SUFFICES ASSUME T!TypeOK PROVE BindingsOK(captureBindings)
  OBVIOUS
<1>1. PICK n \in 0 .. MaxGenerations : captureBindings \in [1 .. n -> Places]
  BY DEF T!TypeOK, Places
<1>2. n \in Nat
  BY FrameBounds
<1>3. captureBindings \in Seq(Places) /\ Len(captureBindings) = n
  BY <1>1, <1>2
<1> QED
  BY <1>3 DEF BindingsOK

LEMMA BindingType ==
  ASSUME NEW b, BindingsOK(b)
  PROVE b \in UNION {[1 .. n -> Windows \cup {NoWindow}] : n \in 0 .. MaxGenerations}
<1>1. b \in [1 .. Len(b) -> Places]
  BY DEF BindingsOK
<1> QED
  BY <1>1 DEF BindingsOK, Places

LEMMA SetBindingFacts ==
  ASSUME NEW b, BindingsOK(b), Len(b) < MaxGenerations, NEW w \in Places
  PROVE  /\ BindingsOK(T!SetBinding(b, w)) /\ Len(T!SetBinding(b, w)) = Len(b) + 1
         /\ \A i \in 1 .. Len(b) : T!SetBinding(b, w)[i] = b[i]
         /\ T!SetBinding(b, w)[Len(b) + 1] = w
         /\ T!Binding(T!SetBinding(b, w)) = w
<1>1. /\ T!SetBinding(b, w) \in Seq(Places) /\ Len(T!SetBinding(b, w)) = Len(b) + 1
      /\ \A i \in 1 .. Len(b) : T!SetBinding(b, w)[i] = b[i]
      /\ T!SetBinding(b, w)[Len(b) + 1] = w
  BY DEF BindingsOK, T!SetBinding
<1>2. T!SetBinding(b, w) # <<>>
  BY <1>1 DEF BindingsOK
<1> QED
  BY <1>1, <1>2, FrameBounds DEF BindingsOK, T!Binding

\* A target that is bound is the window of the latest generation.
LEMMA BoundFacts ==
  ASSUME NEW b, BindingsOK(b), T!Binding(b) # NoWindow
  PROVE  Len(b) \in 1 .. Len(b) /\ T!Binding(b) = b[Len(b)] /\ T!Binding(b) \in Windows
<1>1. b # <<>> /\ T!Binding(b) = b[Len(b)]
  BY DEF T!Binding
<1>2. Len(b) \in 1 .. Len(b)
  BY <1>1 DEF BindingsOK
<1> QED
  BY <1>1, <1>2 DEF BindingsOK, Places

LEMMA TargetCaptureFacts ==
  /\ T!NoCapture \in T!Captures /\ T!NoCapture.state # "running"
  /\ \A b, r : BindingsOK(b) /\ r \in BOOLEAN => T!Running(b, r) \in T!Captures
<1>1. T!NoCapture \in T!Captures /\ T!NoCapture.state # "running"
  BY FrameBounds DEF T!NoCapture, T!Captures
<1>2. ASSUME NEW b, NEW r \in BOOLEAN, BindingsOK(b) PROVE T!Running(b, r) \in T!Captures
  <2>1. T!Binding(b) \in Windows \cup {NoWindow}
    BY <1>2 DEF T!Binding, BindingsOK, Places
  <2> QED
    BY <1>2, <2>1, FrameBounds DEF T!Running, T!Captures, T!Generation, BindingsOK
<1> QED
  BY <1>1, <1>2

LEMMA RunningCaptureFacts ==
  ASSUME NEW b, BindingsOK(b), T!Binding(b) # NoWindow, NEW r \in BOOLEAN
  PROVE  /\ T!Running(b, r).generation \in 1 .. Len(b) /\ T!Running(b, r).window \in Windows
         /\ b[T!Running(b, r).generation] = T!Running(b, r).window
         /\ T!Running(b, r).shared /\ T!Running(b, r).generation = Len(b)
BY BoundFacts DEF T!Running, T!Generation

\* A frame that is published comes after all others.
Placed(sequence, generation, w) ==
  [order |-> T!Latest + 1, sequence |-> sequence, generation |-> generation, window |-> w]

LEMMA PublishFacts ==
  ASSUME T!IInv, T!Latest < MaxFrames,
         NEW sequence \in 1 .. MaxFrames, NEW generation \in 1 .. Len(captureBindings),
         NEW w \in Windows, T!Publish(sequence, generation, w)
  PROVE  /\ capturePublished' = capturePublished \cup {Placed(sequence, generation, w)}
         /\ capturePublished' \subseteq T!Frames /\ IsFiniteSet(capturePublished')
         /\ T!Latest' = T!Latest + 1 /\ T!Latest \in Nat
<1> DEFINE new == Placed(sequence, generation, w)
<1>1. capturePublished' = capturePublished \cup {new}
  BY DEF T!Publish, Placed
<1>2. IsFiniteSet(capturePublished) /\ T!Latest \in Nat
  BY FS_CardinalityType, SameCardinality, SameFinite DEF T!IInv, T!PublishedInv, T!Latest
<1>3. new \notin capturePublished
  <2>1. \A frame \in capturePublished : frame.order \in Nat /\ frame.order <= T!Latest
    BY FrameBounds DEF T!IInv, T!PublishedInv, T!TypeOK, T!Frames
  <2> QED
    BY <1>2, <2>1 DEF Placed
<1>4. new \in T!Frames
  <2>1. Len(captureBindings) \in 0 .. MaxGenerations
    BY BindingFacts DEF T!IInv, BindingsOK
  <2> QED
    BY <1>2, <2>1, FrameBounds DEF T!Frames, Placed
<1> HIDE DEF new
<1>5. /\ IsFiniteSet(capturePublished')
      /\ Cardinality(capturePublished') = Cardinality(capturePublished) + 1
  BY <1>1, <1>2, <1>3, FS_AddElement, SameCardinality, SameFinite
<1>6. capturePublished \subseteq T!Frames
  BY DEF T!IInv, T!TypeOK
<1> QED
  BY <1>1, <1>2, <1>4, <1>5, <1>6, SameCardinality DEF T!Latest, new

-------------------------------------------------------------------------------
\* The frames and inputs so far are typed.
LEMMA PublishedFacts ==
  ASSUME T!IInv
  PROVE  /\ T!Latest \in Nat /\ captureCounter \in Nat /\ Len(captureBindings) \in Nat
         /\ captureAccepted.latest \in Nat /\ captureRepeated \in Nat
         /\ \A frame \in capturePublished :
              /\ frame.order \in Nat /\ frame.sequence \in Nat /\ frame.sequence > 0
              /\ frame.generation \in Nat
<1>1. T!Latest \in Nat
  BY FS_CardinalityType, SameCardinality, SameFinite DEF T!IInv, T!PublishedInv, T!Latest
<1>2. Len(captureBindings) \in Nat
  BY BindingFacts, FrameBounds DEF T!IInv, BindingsOK
<1>3. captureCounter \in Nat /\ captureRepeated \in Nat /\ \A frame \in capturePublished :
              /\ frame.order \in Nat /\ frame.sequence \in Nat /\ frame.sequence > 0
              /\ frame.generation \in Nat
  BY FrameBounds DEF T!IInv, T!TypeOK, T!Frames
<1>4. captureAccepted.latest \in Nat
  BY FrameBounds DEF T!IInv, T!TypeOK, T!Inputs, T!NoInput
<1> QED
  BY <1>1, <1>2, <1>3, <1>4

\* A step that leaves the frames and the target: the counter may go on.
LEMMA KeepTargetStep ==
  ASSUME T!IInv,
         UNCHANGED <<captureBindings, capturePublished, captureRepeated, captureAccepted>>,
         captureCounter' \in 0 .. MaxFrames, captureCounter' >= captureCounter,
         captureCapture' \in T!Captures, T!RunningInv', captureBlocked' \in BOOLEAN
  PROVE  T!IInv'
<1>1. T!TypeOK'
  BY DEF T!IInv, T!TypeOK
<1>2. T!PublishedInv' /\ T!AcceptedInv' /\ T!ActsOnWhatItSaw'
  BY DEF T!IInv, T!PublishedInv, T!AcceptedInv, T!ActsOnWhatItSaw, T!ActsOnSeenWindow,
         T!ActsOnLatestFrame, T!FramesNameTheirWindow, T!Latest
<1>3. T!CounterInv'
  BY PublishedFacts, FrameBounds DEF T!IInv, T!CounterInv
<1> QED
  BY <1>1, <1>2, <1>3 DEF T!IInv

\* A step that moves the target: no frame is of the new generation.
LEMMA MoveStep ==
  ASSUME T!IInv, T!Generation(captureBindings) < MaxGenerations, NEW w \in Places,
         captureBindings' = T!SetBinding(captureBindings, w), UNCHANGED <<capturePublished,
             captureRepeated, captureAccepted>>,
         captureCounter' = 0, captureCapture' \in T!Captures, T!RunningInv',
         captureBlocked' \in BOOLEAN
  PROVE  T!IInv'
<1>1. /\ BindingsOK(captureBindings') /\ Len(captureBindings') = Len(captureBindings) + 1
      /\ \A i \in 1 .. Len(captureBindings) : captureBindings'[i] = captureBindings[i]
  BY BindingFacts, SetBindingFacts DEF T!IInv, T!Generation
<1>2. T!TypeOK'
  <2>1. captureCounter' \in 0 .. MaxFrames
    BY FrameBounds
  <2>2. captureBindings' \in UNION {[1 .. n -> Windows \cup {NoWindow}] :
            n \in 0 .. MaxGenerations}
    BY <1>1, BindingType
  <2> QED
    BY <2>1, <2>2 DEF T!IInv, T!TypeOK
<1>3. T!PublishedInv' /\ T!AcceptedInv'
  BY <1>1, PublishedFacts DEF T!IInv, T!PublishedInv, T!AcceptedInv, T!Latest
<1>4. T!CounterInv'
  BY <1>1, PublishedFacts DEF T!IInv, T!PublishedInv, T!CounterInv
<1>5. T!ActsOnSeenWindow' /\ T!ActsOnLatestFrame'
  BY DEF T!IInv, T!ActsOnWhatItSaw, T!ActsOnSeenWindow, T!ActsOnLatestFrame
<1>6. T!FramesNameTheirWindow'
  BY <1>1 DEF T!IInv, T!PublishedInv, T!ActsOnWhatItSaw, T!FramesNameTheirWindow
<1> QED
  BY <1>2, <1>3, <1>4, <1>5, <1>6 DEF T!IInv, T!ActsOnWhatItSaw

\* A frame is published, the last so far; of the latest generation only with a new number.
LEMMA PublishStep ==
  ASSUME T!IInv, UNCHANGED <<captureBindings, captureRepeated, captureAccepted>>,
         T!Latest < MaxFrames,
         NEW sequence \in 1 .. MaxFrames, NEW generation \in 1 .. Len(captureBindings),
         NEW w \in Windows, T!Publish(sequence, generation, w),
         captureBindings[generation] = w,
         captureCounter' \in 0 .. MaxFrames, captureCounter' >= captureCounter,
         generation = Len(captureBindings) =>
             sequence > captureCounter /\ sequence <= captureCounter',
         captureCapture' \in T!Captures, T!RunningInv', captureBlocked' \in BOOLEAN
  PROVE  T!IInv'
<1> DEFINE new == Placed(sequence, generation, w)
<1>1. /\ capturePublished' = capturePublished \cup {new}
      /\ capturePublished' \subseteq T!Frames /\ IsFiniteSet(capturePublished')
      /\ T!Latest' = T!Latest + 1
  BY PublishFacts
<1>2. /\ new.order = T!Latest + 1 /\ new.sequence = sequence /\ new.generation = generation
      /\ new.window = w
  BY DEF Placed
<1> HIDE DEF new
<1>3. T!TypeOK'
  BY <1>1 DEF T!IInv, T!TypeOK
<1>4. T!PublishedInv' /\ T!AcceptedInv'
  BY <1>1, <1>2, PublishedFacts, FrameBounds, SameFinite
     DEF T!IInv, T!PublishedInv, T!AcceptedInv
<1>5. T!CounterInv'
  <2>1. ASSUME NEW f \in capturePublished', f.generation = Len(captureBindings),
               f.order > captureRepeated
        PROVE  f.sequence <= captureCounter'
    <3>1. CASE f \in capturePublished
      BY <2>1, <3>1, PublishedFacts, FrameBounds DEF T!IInv, T!CounterInv
    <3> QED
      BY <1>1, <1>2, <2>1, <3>1
  <2>2. ASSUME NEW f \in capturePublished', NEW h \in capturePublished',
               f.generation = Len(captureBindings), f.order > captureRepeated,
               h.generation = Len(captureBindings), f.order < h.order
        PROVE  f.sequence < h.sequence
    <3>1. CASE f \in capturePublished /\ h \in capturePublished
      BY <2>2, <3>1 DEF T!IInv, T!CounterInv
    <3>2. CASE f \in capturePublished /\ h = new
      <4>1. f.sequence <= captureCounter /\ sequence > captureCounter
        BY <1>2, <2>2, <3>2 DEF T!IInv, T!CounterInv
      <4> QED
        BY <1>2, <3>2, <4>1, PublishedFacts
    <3>3. CASE f = new
      <4>1. h.order <= T!Latest + 1
        BY <1>1, <1>2, PublishedFacts DEF T!IInv, T!PublishedInv
      <4> QED
        BY <1>1, <1>2, <2>2, <3>3, <4>1, PublishedFacts
    <3> QED
      BY <1>1, <2>2, <3>1, <3>2, <3>3
  <2> QED
    BY <2>1, <2>2 DEF T!CounterInv
<1>6. T!ActsOnSeenWindow' /\ T!FramesNameTheirWindow'
  BY <1>1, <1>2 DEF T!IInv, T!ActsOnWhatItSaw, T!ActsOnSeenWindow, T!FramesNameTheirWindow
<1>7. T!ActsOnLatestFrame'
  <2>1. ~(new.order <= captureAccepted.latest)
    BY <1>2, PublishedFacts DEF T!IInv, T!AcceptedInv
  <2> QED
    BY <1>1, <2>1 DEF T!IInv, T!ActsOnWhatItSaw, T!ActsOnLatestFrame
<1> QED
  BY <1>3, <1>4, <1>5, <1>6, <1>7 DEF T!IInv, T!ActsOnWhatItSaw

-------------------------------------------------------------------------------
LEMMA CaptureInit == T!Init => T!IInv
<1> SUFFICES ASSUME T!Init PROVE T!IInv
  OBVIOUS
<1>1. /\ captureBindings = <<>> /\ captureCounter = 0 /\ captureCapture = T!NoCapture
      /\ capturePublished = {}
      /\ captureBlocked = FALSE /\ captureRepeated = 0 /\ captureAccepted = T!NoInput
  BY DEF T!Init
<1>2. captureBlocked \in BOOLEAN /\ captureRepeated \in 0 .. MaxFrames
  <2>1. captureBlocked \in BOOLEAN
    BY ONLY <1>1, Zenon
  <2> QED
    BY <1>1, <2>1, FrameBounds
<1>3. BindingsOK(captureBindings)
  BY <1>1, FrameBounds DEF BindingsOK
<1>4. T!TypeOK
  <2>1. captureBindings \in UNION {[1 .. n -> Windows \cup {NoWindow}] : n \in 0 .. MaxGenerations}
    BY <1>3, BindingType
  <2>2. /\ captureCounter \in 0 .. MaxFrames /\ captureCapture \in T!Captures
        /\ capturePublished \subseteq T!Frames
    BY <1>1, TargetCaptureFacts, FrameBounds
  <2>3. captureAccepted \in T!Inputs
    BY <1>1 DEF T!Inputs
  <2> QED
    BY <1>2, <2>1, <2>2, <2>3 DEF T!TypeOK
<1>5. IsFiniteSet(capturePublished) /\ T!Latest = 0 /\ captureAccepted.latest = 0
  BY <1>1, FS_EmptySet, SameCardinality, SameFinite DEF T!Latest, T!NoInput
<1> QED
  BY <1>1, <1>4, <1>5, TargetCaptureFacts, SameFinite, FrameBounds
     DEF T!IInv, T!RunningInv, T!PublishedInv, T!CounterInv, T!AcceptedInv,
     T!ActsOnWhatItSaw, T!ActsOnSeenWindow, T!ActsOnLatestFrame, T!FramesNameTheirWindow

LEMMA CaptureStopsStep == ASSUME T!IInv, T!CommandStops \/ T!StopCapture PROVE T!IInv'
<1>1. /\ captureCapture' = T!NoCapture /\ captureCounter' \in 0 .. MaxFrames
      /\ captureCounter' >= captureCounter
      /\ captureBlocked' \in BOOLEAN
      /\ UNCHANGED <<captureBindings, capturePublished, captureRepeated, captureAccepted>>
  BY PublishedFacts DEF T!CommandStops, T!StopCapture, T!Stopped, T!IInv, T!TypeOK
<1> QED
  BY <1>1, TargetCaptureFacts, KeepTargetStep DEF T!RunningInv

LEMMA LockStep == ASSUME T!IInv, NEW w \in Windows, T!LockTarget(w) PROVE T!IInv'
<1>1. /\ T!Rebind(w) /\ captureCapture' = T!NoCapture /\ captureBlocked' \in BOOLEAN
      /\ UNCHANGED <<capturePublished, captureRepeated, captureAccepted>>
  BY DEF T!LockTarget, T!Stopped, T!IInv, T!TypeOK
<1> QED
  BY <1>1, TargetCaptureFacts, MoveStep DEF T!Rebind, T!RunningInv, Places

LEMMA CloseTargetStep == ASSUME T!IInv, T!CloseTarget PROVE T!IInv'
<1>1. /\ T!Rebind(NoWindow) /\ captureCapture' = T!NoCapture /\ captureBlocked' \in BOOLEAN
      /\ UNCHANGED <<capturePublished, captureRepeated, captureAccepted>>
  BY DEF T!CloseTarget, T!Stopped, T!IInv, T!TypeOK
<1> QED
  BY <1>1, TargetCaptureFacts, MoveStep DEF T!Rebind, T!RunningInv, Places

\* A capture that goes on after the target has moved no longer has the counter.
LEMMA MoveTargetStep == ASSUME T!IInv, NEW w \in Windows, T!MoveTarget(w) PROVE T!IInv'
<1>1. /\ T!Rebind(w) /\ captureCapture' = T!Orphaned(captureCapture)
      /\ captureBlocked' \in BOOLEAN
      /\ UNCHANGED <<capturePublished, captureRepeated, captureAccepted>>
  BY DEF T!MoveTarget, T!IInv, T!TypeOK
<1>2. captureCapture \in T!Captures /\ captureCounter \in 0 .. MaxFrames
  BY DEF T!IInv, T!TypeOK
<1>3. /\ captureCapture' \in T!Captures /\ ~captureCapture'.shared
      /\ captureCapture'.state = captureCapture.state
      /\ captureCapture'.generation = captureCapture.generation
      /\ captureCapture'.window = captureCapture.window
  BY <1>1, <1>2 DEF T!Orphaned, T!Captures
<1>4. /\ Len(captureBindings') = Len(captureBindings) + 1
      /\ \A i \in 1 .. Len(captureBindings) : captureBindings'[i] = captureBindings[i]
  BY <1>1, BindingFacts, SetBindingFacts DEF T!Rebind, T!Generation, T!IInv, Places
<1>5. T!RunningInv'
  BY <1>3, <1>4, PublishedFacts DEF T!IInv, T!RunningInv
<1> QED
  BY <1>1, <1>3, <1>5, MoveStep DEF T!Rebind, Places

LEMMA FinishTargetStep == ASSUME T!IInv, T!FinishAttempt PROVE T!IInv'
<1>1. /\ captureCapture' = T!NoCapture /\ captureCounter' = 0 /\ capturePublished' = {}
      /\ captureAccepted' = T!NoInput
      /\ captureBlocked' = FALSE /\ captureRepeated' = 0 /\ UNCHANGED captureBindings
  BY DEF T!FinishAttempt, T!Stopped
<1>2. captureBlocked' \in BOOLEAN /\ captureRepeated' \in 0 .. MaxFrames
  <2>1. captureBlocked' \in BOOLEAN
    BY ONLY <1>1, Zenon
  <2> QED
    BY <1>1, <2>1, FrameBounds
<1>3. T!TypeOK'
  BY <1>1, <1>2, TargetCaptureFacts, FrameBounds DEF T!IInv, T!TypeOK, T!Inputs
<1>4. IsFiniteSet(capturePublished') /\ T!Latest' = 0 /\ captureAccepted'.latest = 0
  BY <1>1, FS_EmptySet, SameCardinality, SameFinite DEF T!Latest, T!NoInput
<1> QED
  BY <1>1, <1>3, <1>4, TargetCaptureFacts, SameFinite, FrameBounds
     DEF T!IInv, T!RunningInv, T!PublishedInv, T!CounterInv, T!AcceptedInv,
     T!ActsOnWhatItSaw, T!ActsOnSeenWindow, T!ActsOnLatestFrame, T!FramesNameTheirWindow

LEMMA StartTargetStep == ASSUME T!IInv, T!StartCapture PROVE T!IInv'
<1>1. /\ captureCapture' \in {T!Running(captureBindings, TRUE), T!NoCapture}
      /\ T!Binding(captureBindings) # NoWindow
      /\ UNCHANGED <<captureBindings, captureCounter, capturePublished, captureBlocked,
             captureRepeated, captureAccepted>>
  BY DEF T!StartCapture
<1>2. BindingsOK(captureBindings) /\ T!Running(captureBindings, TRUE) \in T!Captures
  BY BindingFacts, TargetCaptureFacts DEF T!IInv
<1>3. T!RunningInv'
  BY <1>1, <1>2, TargetCaptureFacts, RunningCaptureFacts DEF T!RunningInv
<1>4. /\ captureCounter' \in 0 .. MaxFrames /\ captureCounter' >= captureCounter
      /\ captureBlocked' \in BOOLEAN
  BY <1>1, PublishedFacts DEF T!IInv, T!TypeOK
<1> QED
  BY <1>1, <1>2, <1>3, <1>4, TargetCaptureFacts, KeepTargetStep

LEMMA FailsStep == ASSUME T!IInv, T!CaptureFails PROVE T!IInv'
<1>1. /\ captureCapture' \in T!Captures /\ captureCapture'.state # "running"
      /\ UNCHANGED <<captureBindings, captureCounter, capturePublished, captureBlocked,
             captureRepeated, captureAccepted>>
  BY DEF T!CaptureFails, T!IInv, T!TypeOK, T!Captures
<1>2. /\ captureCounter' \in 0 .. MaxFrames /\ captureCounter' >= captureCounter
      /\ captureBlocked' \in BOOLEAN
  BY <1>1, PublishedFacts DEF T!IInv, T!TypeOK
<1> QED
  BY <1>1, <1>2, KeepTargetStep DEF T!RunningInv

LEMMA FrameCapturedStep == ASSUME T!IInv, T!FrameCaptured PROVE T!IInv'
<1> DEFINE next == 1 + IF captureCapture.shared THEN captureCounter ELSE captureCapture.own
<1>1. /\ captureCapture.state = "running" /\ T!Latest < MaxFrames /\ next <= MaxFrames
      /\ IF captureCapture.shared THEN captureCounter' = next /\ UNCHANGED captureCapture
         ELSE captureCapture' = [captureCapture EXCEPT !.own = next] /\ UNCHANGED captureCounter
      /\ T!Publish(next, captureCapture.generation, captureCapture.window)
         \/ UNCHANGED capturePublished
      /\ UNCHANGED <<captureBindings, captureBlocked, captureRepeated, captureAccepted>>
  BY DEF T!FrameCaptured
<1>2. /\ captureCapture \in T!Captures /\ captureCapture.own \in Nat
      /\ captureCapture.shared \in BOOLEAN
      /\ captureCounter \in Nat /\ MaxFrames \in Nat
  BY PublishedFacts, FrameBounds DEF T!IInv, T!TypeOK, T!Captures
<1>3. next \in 1 .. MaxFrames
  BY <1>1, <1>2
<1>4. /\ captureCounter' \in 0 .. MaxFrames /\ captureCounter' >= captureCounter
      /\ captureCapture.shared => next > captureCounter /\ next <= captureCounter'
  BY <1>1, <1>2, <1>3 DEF T!IInv, T!TypeOK
<1>5. /\ captureCapture' \in T!Captures /\ captureCapture'.state = "running"
      /\ captureCapture'.shared = captureCapture.shared
      /\ captureCapture'.generation = captureCapture.generation
      /\ captureCapture'.window = captureCapture.window
  BY <1>1, <1>2, <1>3 DEF T!Captures
<1> HIDE DEF next
<1>6. /\ captureCapture.generation \in 1 .. Len(captureBindings)
      /\ captureCapture.window \in Windows
      /\ captureBindings[captureCapture.generation] = captureCapture.window
      /\ captureCapture.shared <=> captureCapture.generation = Len(captureBindings)
  BY <1>1 DEF T!IInv, T!RunningInv
<1>7. T!RunningInv'
  BY <1>1, <1>5, <1>6 DEF T!RunningInv
<1>8. captureBlocked' \in BOOLEAN
  BY <1>1 DEF T!IInv, T!TypeOK
<1>9. CASE T!Publish(next, captureCapture.generation, captureCapture.window)
  BY <1>1, <1>3, <1>4, <1>5, <1>6, <1>7, <1>8, <1>9, PublishStep
<1>10. CASE UNCHANGED capturePublished
  BY <1>1, <1>4, <1>5, <1>7, <1>8, <1>10, KeepTargetStep
<1> QED
  BY <1>1, <1>9, <1>10

LEMMA TargetFrameStep == ASSUME T!IInv, T!CaptureFrame PROVE T!IInv'
<1>1. /\ captureCapture.state = "none" /\ T!Binding(captureBindings) # NoWindow
      /\ captureCounter < MaxFrames /\ T!Latest < MaxFrames
      /\ UNCHANGED <<captureBindings, captureCapture, captureRepeated, captureAccepted>>
      /\ \/ /\ captureCounter' = captureCounter + 1 /\ UNCHANGED captureBlocked
            /\ T!Publish(captureCounter', T!Generation(captureBindings),
                   T!Binding(captureBindings))
         \/ /\ captureCounter' \in {captureCounter, captureCounter + 1}
            /\ captureBlocked' \in {captureBlocked, TRUE}
            /\ UNCHANGED capturePublished
  BY DEF T!CaptureFrame
<1>2. T!RunningInv' /\ captureCapture' \in T!Captures
  BY <1>1 DEF T!IInv, T!TypeOK, T!RunningInv
<1>3. captureCounter' \in 0 .. MaxFrames /\ captureCounter' >= captureCounter
  <2>1. captureCounter \in Nat /\ MaxFrames \in Nat /\ captureCounter < MaxFrames
    BY <1>1, PublishedFacts, FrameBounds
  <2>2. captureCounter' = captureCounter \/ captureCounter' = captureCounter + 1
    BY <1>1
  <2> QED
    BY <2>1, <2>2
<1>4. captureBlocked' \in BOOLEAN
  BY <1>1 DEF T!IInv, T!TypeOK
<1>5. /\ Len(captureBindings) \in 1 .. Len(captureBindings)
      /\ T!Binding(captureBindings) = captureBindings[Len(captureBindings)]
      /\ T!Binding(captureBindings) \in Windows
  BY <1>1, BindingFacts, BoundFacts DEF T!IInv
<1>6. CASE /\ captureCounter' = captureCounter + 1
           /\ T!Publish(captureCounter', T!Generation(captureBindings),
                  T!Binding(captureBindings))
  <2>1. captureCounter' \in 1 .. MaxFrames /\ captureCounter' > captureCounter
    BY <1>3, <1>6, PublishedFacts
  <2> QED
    BY <1>1, <1>2, <1>3, <1>4, <1>5, <1>6, <2>1, PublishedFacts, PublishStep DEF T!Generation
<1>7. CASE UNCHANGED capturePublished
  BY <1>1, <1>2, <1>3, <1>4, <1>7, KeepTargetStep
<1> QED
  BY <1>1, <1>6, <1>7

LEMMA GiveUpStep ==
  ASSUME T!IInv, captureBlocked' \in BOOLEAN, UNCHANGED <<capturePublished, captureAccepted>>,
         T!GiveUp(captureBindings)
  PROVE  T!IInv'
<1>1. /\ UNCHANGED captureBindings /\ captureCapture' = T!NoCapture /\ captureCounter' = 0
      /\ captureRepeated' = IF captureCounter # 0 THEN T!Latest ELSE captureRepeated
  BY DEF T!GiveUp
<1>2. T!RunningInv' /\ captureCapture' \in T!Captures
  BY <1>1, TargetCaptureFacts DEF T!RunningInv
<1>3. CASE captureCounter = 0
  BY <1>1, <1>2, <1>3, KeepTargetStep, FrameBounds
<1>4. CASE captureCounter # 0
  <2>1. captureRepeated' = T!Latest /\ T!Latest \in 0 .. MaxFrames /\ T!Latest' = T!Latest
    BY <1>1, <1>4, PublishedFacts DEF T!IInv, T!PublishedInv, T!Latest
  <2>2. T!TypeOK'
    BY <1>1, <1>2, <2>1, FrameBounds DEF T!IInv, T!TypeOK
  <2>3. T!CounterInv'
    BY <1>1, <2>1, PublishedFacts DEF T!IInv, T!PublishedInv, T!CounterInv
  <2>4. T!PublishedInv' /\ T!AcceptedInv'
    BY <1>1, <2>1 DEF T!IInv, T!PublishedInv, T!AcceptedInv
  <2>5. T!ActsOnLatestFrame'
    <3>1. captureAccepted # T!NoInput =>
              captureAccepted.frame \in T!Frames /\ captureAccepted.latest <= T!Latest
      BY DEF T!IInv, T!AcceptedInv, T!TypeOK, T!Inputs
    <3> QED
      BY <1>1, <2>1, <3>1, PublishedFacts, FrameBounds DEF T!ActsOnLatestFrame, T!Frames, T!IInv, T!PublishedInv
  <2> QED
    BY <1>1, <1>2, <2>2, <2>3, <2>4, <2>5 DEF T!IInv,
       T!ActsOnWhatItSaw, T!ActsOnSeenWindow, T!FramesNameTheirWindow
<1> QED
  BY <1>3, <1>4

LEMMA FailureEventStep == ASSUME T!IInv, T!CaptureFailureEvent PROVE T!IInv'
<1>1. captureBlocked' \in BOOLEAN /\ UNCHANGED <<capturePublished, captureAccepted>>
  BY DEF T!CaptureFailureEvent, T!IInv, T!TypeOK
<1>2. \/ T!GiveUp(captureBindings)
      \/ /\ T!Binding(captureBindings) # NoWindow
         /\ captureCapture' = T!Rediscovered(captureBindings)
         /\ UNCHANGED <<captureBindings, captureCounter, captureRepeated>>
      \/ /\ T!Generation(captureBindings) < MaxGenerations
         /\ \E w \in Windows :
             \/ /\ captureBindings' = T!SetBinding(captureBindings, w) /\ captureCounter' = 0
                /\ captureCapture' = T!Rediscovered(captureBindings')
                /\ UNCHANGED captureRepeated
             \/ T!GiveUp(T!SetBinding(captureBindings, w))
  BY DEF T!CaptureFailureEvent
<1>3. CASE T!GiveUp(captureBindings)
  BY <1>1, <1>3, GiveUpStep
<1>4. CASE /\ T!Binding(captureBindings) # NoWindow
           /\ captureCapture' = T!Rediscovered(captureBindings)
           /\ UNCHANGED <<captureBindings, captureCounter, captureRepeated>>
  <2>1. captureCapture' = T!Running(captureBindings, FALSE) /\ BindingsOK(captureBindings)
    BY <1>4, BindingFacts DEF T!Rediscovered, T!IInv
  <2>2. captureCapture' \in T!Captures /\ T!RunningInv'
    BY <1>4, <2>1, TargetCaptureFacts, RunningCaptureFacts DEF T!RunningInv
  <2>3. captureCounter' \in 0 .. MaxFrames /\ captureCounter' >= captureCounter
    BY <1>4, PublishedFacts DEF T!IInv, T!TypeOK
  <2> QED
    BY <1>1, <1>4, <2>2, <2>3, KeepTargetStep
<1>5. ASSUME T!Generation(captureBindings) < MaxGenerations, NEW w \in Windows,
             captureBindings' = T!SetBinding(captureBindings, w), captureCounter' = 0,
             captureCapture' = T!Rediscovered(captureBindings'), UNCHANGED captureRepeated
      PROVE  T!IInv'
  <2>1. BindingsOK(captureBindings') /\ T!Binding(captureBindings') = w
    BY <1>5, BindingFacts, SetBindingFacts DEF T!IInv, Places, T!Generation
  <2>2. captureCapture' = T!Running(captureBindings', FALSE)
    BY <1>5 DEF T!Rediscovered
  <2>3. captureCapture' \in T!Captures
    BY <2>1, <2>2, TargetCaptureFacts
  <2>4. T!RunningInv'
    <3>1. w # NoWindow
      BY <1>5, FrameBounds
    <3> QED
      BY <2>1, <2>2, <3>1, RunningCaptureFacts DEF T!RunningInv
  <2> QED
    BY <1>1, <1>5, <2>3, <2>4, MoveStep DEF T!IInv, T!TypeOK, Places
<1>6. ASSUME T!Generation(captureBindings) < MaxGenerations, NEW w \in Windows,
             T!GiveUp(T!SetBinding(captureBindings, w))
      PROVE  T!IInv'
  <2>1. /\ captureBindings' = T!SetBinding(captureBindings, w) /\ captureCapture' = T!NoCapture
        /\ captureCounter' = 0
        /\ captureRepeated' =
               IF captureCounter # 0 /\ T!SetBinding(captureBindings, w) = captureBindings
               THEN T!Latest ELSE captureRepeated
    BY <1>6 DEF T!GiveUp
  <2>2. T!SetBinding(captureBindings, w) # captureBindings
    BY <1>6, PublishedFacts, BindingFacts, SetBindingFacts DEF T!IInv, Places, T!Generation
  <2> QED
    BY <1>1, <1>6, <2>1, <2>2, TargetCaptureFacts, MoveStep DEF T!RunningInv, Places
<1> QED
  BY <1>2, <1>3, <1>4, <1>5, <1>6

\* The input is decided on the frame with the number of the counter, the last of its
\* generation.
LEMMA InputFrameStep ==
  ASSUME T!IInv, NEW frame \in capturePublished, T!InputFrame(frame)
  PROVE  T!IInv'
<1>1. /\ captureCounter # 0 /\ frame.sequence = captureCounter
      /\ T!Binding(captureBindings) # NoWindow
      /\ frame.generation = Len(captureBindings)
      /\ captureAccepted' = [frame |-> frame, window |-> T!Binding(captureBindings),
             latest |-> T!Latest]
      /\ UNCHANGED <<captureBindings, captureCounter, captureCapture, capturePublished,
             captureBlocked, captureRepeated>>
  BY DEF T!InputFrame, T!Current, T!Generation
<1>2. /\ T!Binding(captureBindings) = captureBindings[Len(captureBindings)]
      /\ T!Binding(captureBindings) \in Windows
  BY <1>1, BindingFacts, BoundFacts DEF T!IInv
<1>3. frame \in T!Frames /\ frame.window = captureBindings[Len(captureBindings)]
  BY <1>1 DEF T!IInv, T!TypeOK, T!ActsOnWhatItSaw, T!FramesNameTheirWindow
<1>4. T!Latest \in 1 .. MaxFrames
  <2>1. frame.order >= 1 /\ frame.order <= T!Latest /\ frame.order \in Nat
    BY <1>3, PublishedFacts, FrameBounds DEF T!IInv, T!PublishedInv, T!Frames
  <2> QED
    BY <2>1, PublishedFacts DEF T!IInv, T!PublishedInv
<1>5. T!TypeOK'
  <2>1. captureAccepted' \in T!Inputs
    BY <1>1, <1>2, <1>3, <1>4 DEF T!Inputs
  <2> QED
    BY <1>1, <2>1 DEF T!IInv, T!TypeOK
<1>6. T!RunningInv' /\ T!PublishedInv' /\ T!CounterInv' /\ T!FramesNameTheirWindow'
  BY <1>1
     DEF T!IInv, T!RunningInv, T!PublishedInv, T!CounterInv, T!ActsOnWhatItSaw,
         T!FramesNameTheirWindow, T!Latest
<1>7. T!Latest' = T!Latest /\ captureAccepted'.latest = T!Latest /\ captureAccepted'.frame = frame
      /\ captureAccepted'.window = T!Binding(captureBindings)
  BY <1>1 DEF T!Latest
<1>8. T!AcceptedInv' /\ T!ActsOnSeenWindow'
  BY <1>2, <1>3, <1>7, PublishedFacts DEF T!AcceptedInv, T!ActsOnSeenWindow
<1>9. ASSUME frame.order > captureRepeated,
             NEW f \in capturePublished, f.generation = Len(captureBindings)
      PROVE  f.order <= frame.order
  <2>1. CASE f.order <= captureRepeated
    BY <1>9, <2>1, PublishedFacts
  <2>2. CASE f.order > captureRepeated
    <3>1. f.sequence <= frame.sequence
      BY <1>1, <1>9, <2>2 DEF T!IInv, T!CounterInv
    <3>2. frame.order < f.order => frame.sequence < f.sequence
      BY <1>1, <1>9 DEF T!IInv, T!CounterInv
    <3> QED
      BY <3>1, <3>2, PublishedFacts
  <2> QED
    BY <1>9, <2>1, <2>2, PublishedFacts
<1>10. T!ActsOnLatestFrame'
  BY <1>1, <1>7, <1>9 DEF T!ActsOnLatestFrame
<1> QED
  BY <1>5, <1>6, <1>8, <1>10 DEF T!IInv, T!ActsOnWhatItSaw

\* Every operation of the executor, and every frame of a capture, keeps the invariant.
LEMMA CaptureStep == T!IInv /\ T!Next => T!IInv'
BY CaptureStopsStep, CloseTargetStep, FinishTargetStep, LockStep, MoveTargetStep, StartTargetStep,
   FrameCapturedStep, TargetFrameStep, FailsStep, FailureEventStep, InputFrameStep DEF T!Next

LEMMA CaptureStutter == T!IInv /\ UNCHANGED captureVars => T!IInv'
BY
   DEF captureVars, T!IInv, T!TypeOK, T!RunningInv, T!PublishedInv, T!CounterInv, T!AcceptedInv,
       T!Latest,
       T!ActsOnWhatItSaw, T!ActsOnSeenWindow, T!ActsOnLatestFrame, T!FramesNameTheirWindow

-------------------------------------------------------------------------------
\* What holds of the Worker by itself.
WorkerWhole(w) ==
  /\ w \in R!Workers /\ R!SlotInv(w) /\ R!WindowInv(w)
  /\ w.published <= w.number /\ w.window \subseteq 1 .. w.number
  /\ \A i \in 0 .. R!SLOT_COUNT - 1 : w.slots[i].payload \subseteq 1 .. w.number

SlotRecords ==
  [0 .. R!SLOT_COUNT - 1 -> [header : 0 .. MaxNumber, payload : SUBSET (1 .. MaxNumber)]]

LEMMA SlotFacts ==
  /\ \A n \in Nat : R!Slot(n) \in 0 .. R!SLOT_COUNT - 1
  /\ \A n \in Nat : R!Slot(n + 1) # R!Slot(n)
BY DEF R!Slot, R!SLOT_COUNT

LEMMA RingTypes ==
  ASSUME NEW w \in R!Workers
  PROVE  /\ w.life \in 0 .. MaxWorkers /\ w.life \in Nat /\ w.number \in 0 .. MaxNumber
         /\ w.number \in Nat
         /\ w.published \in 0 .. MaxNumber /\ w.published \in Nat
         /\ w.released \in 0 .. MaxNumber /\ w.released \in Nat
         /\ w.slots \in SlotRecords /\ w.window \in SUBSET (1 .. MaxNumber)
         /\ w.skipped \in BOOLEAN
BY FrameBounds DEF R!Workers, SlotRecords

LEMMA NewWorkerFacts ==
  ASSUME NEW life \in 0 .. MaxWorkers
  PROVE  /\ WorkerWhole(R!Started(life)) /\ R!Started(life).life = life /\ R!Started(life).alive
         /\ R!Started(life).number = 0 /\ R!Started(life).published = 0
         /\ R!Started(life).stream = "none"
         /\ R!Started(life).writer = "idle"
<1>1. [i \in 0 .. R!SLOT_COUNT - 1 |-> [header |-> 0, payload |-> {}]] \in SlotRecords
  BY FrameBounds DEF SlotRecords
<1>2. R!Started(life) \in R!Workers
  BY <1>1, FrameBounds DEF R!Started, R!Workers, SlotRecords
<1> QED
  BY <1>2 DEF R!Started, WorkerWhole, R!SlotInv, R!WindowInv

LEMMA LostWorkerFacts ==
  ASSUME NEW w, WorkerWhole(w)
  PROVE  /\ WorkerWhole(R!Lost(w)) /\ R!Lost(w).life = w.life /\ ~R!Lost(w).alive
         /\ R!Lost(w).number = 0 /\ R!Lost(w).published = 0 /\ R!Lost(w).stream = "none"
         /\ R!Lost(w).writer = "idle"
<1>1. WorkerWhole(R!Started(w.life)) /\ R!Started(w.life).life = w.life
      /\ R!Started(w.life).number = 0 /\ R!Started(w.life).published = 0
      /\ R!Started(w.life).stream = "none" /\ R!Started(w.life).writer = "idle"
  BY NewWorkerFacts, RingTypes DEF WorkerWhole
<1> DEFINE s == R!Started(w.life)
<1>2. R!Lost(w) = [s EXCEPT !.alive = FALSE]
  BY DEF R!Lost
<1>3. s \in R!Workers
  BY <1>1 DEF WorkerWhole
<1> HIDE DEF s
<1>4. R!Lost(w) \in R!Workers /\ R!Lost(w).alive = FALSE
  BY <1>2, <1>3 DEF R!Workers
<1>5. /\ R!Lost(w).life = s.life /\ R!Lost(w).number = s.number /\ R!Lost(w).window = s.window
      /\ R!Lost(w).published = s.published /\ R!Lost(w).slots = s.slots
      /\ R!Lost(w).writer = s.writer /\ R!Lost(w).stream = s.stream
      /\ R!Lost(w).skipped = s.skipped /\ R!Lost(w).released = s.released
  BY <1>2, <1>3 DEF R!Workers
<1>6. WorkerWhole(s) /\ s.life = w.life /\ s.number = 0 /\ s.published = 0 /\ s.stream = "none" /\ s.writer = "idle"
  BY <1>1 DEF s
<1> QED
  BY <1>4, <1>5, <1>6 DEF WorkerWhole, R!SlotInv, R!WindowInv

LEMMA StreamStoppedFacts ==
  ASSUME NEW w, WorkerWhole(w), w.writer = "idle"
  PROVE  /\ WorkerWhole(R!StreamStopped(w)) /\ R!StreamStopped(w).stream = "none"
         /\ R!StreamStopped(w).life = w.life /\ R!StreamStopped(w).number = w.number
         /\ R!StreamStopped(w).published = w.published /\ R!StreamStopped(w).alive = w.alive
         /\ R!StreamStopped(w).writer = "idle"
BY DEF R!StreamStopped, WorkerWhole, R!Workers, R!SlotInv, R!WindowInv

LEMMA StreamRunsFacts ==
  ASSUME NEW w, WorkerWhole(w),
         NEW v, v = [w EXCEPT !.stream = "running"]
  PROVE  /\ WorkerWhole(v) /\ v.stream = "running" /\ v.life = w.life /\ v.number = w.number
         /\ v.published = w.published /\ v.alive = w.alive
BY DEF WorkerWhole, R!Workers, R!SlotInv, R!WindowInv

LEMMA BrokenFacts ==
  ASSUME NEW w, WorkerWhole(w), w.writer = "idle",
         NEW v, v = [w EXCEPT !.stream = "broken"]
  PROVE  /\ WorkerWhole(v) /\ v.stream = "broken" /\ v.life = w.life /\ v.number = w.number
         /\ v.published = w.published /\ v.alive = w.alive /\ v.writer = "idle"
BY DEF WorkerWhole, R!Workers, R!SlotInv, R!WindowInv

LEMMA WorkerReleasedFacts ==
  ASSUME NEW w, WorkerWhole(w), w.writer = "idle"
  PROVE  /\ WorkerWhole(R!Released(w)) /\ R!Released(w).stream = "none"
         /\ R!Released(w).life = w.life /\ R!Released(w).number = w.number
         /\ R!Released(w).published = w.published /\ R!Released(w).writer = "idle"
<1>1. w \in R!Workers /\ w.number \in Nat /\ w.released <= w.number
  BY RingTypes DEF WorkerWhole, R!WindowInv
<1>2. R!Released(w) = [w EXCEPT !.stream = "none", !.released = w.number, !.window = {}]
  BY <1>1 DEF R!Released, R!StreamStopped, R!Workers
<1> DEFINE v == R!Released(w)
<1>3. /\ v \in R!Workers /\ v.released = w.number /\ v.window = {} /\ v.stream = "none"
      /\ v.life = w.life /\ v.number = w.number /\ v.skipped = w.skipped /\ v.writer = "idle"
      /\ v.published = w.published /\ v.slots = w.slots
  BY <1>1, <1>2 DEF R!Workers
<1> HIDE DEF v
<1>4. R!WindowInv(v) /\ v.window \subseteq 1 .. v.number
  BY <1>1, <1>3 DEF R!WindowInv
<1>5. R!SlotInv(v)
  BY <1>3 DEF WorkerWhole, R!SlotInv
<1> QED
  BY <1>3, <1>4, <1>5 DEF WorkerWhole, v

\* A number that is spent, with what is still to be written.
LEMMA NumberedFacts ==
  ASSUME NEW w, WorkerWhole(w), w.number < MaxNumber
  PROVE  /\ R!Numbered(w) \in R!Workers /\ R!Numbered(w).number = w.number + 1
         /\ R!WindowInv(R!Numbered(w)) /\ R!Numbered(w).published <= w.number
         /\ R!Numbered(w).window \subseteq 1 .. w.number + 1
         /\ R!Numbered(w).slots = w.slots /\ R!Numbered(w).published = w.published
         /\ R!Numbered(w).writer = w.writer /\ R!Numbered(w).stream = w.stream
         /\ R!Numbered(w).life = w.life /\ R!Numbered(w).alive = w.alive
         /\ R!Numbered(w).skipped = w.skipped
         /\ \A i \in 0 .. R!SLOT_COUNT - 1 : w.slots[i].payload \subseteq 1 .. w.number + 1
<1>1. w \in R!Workers /\ w.number + 1 \in 1 .. MaxNumber /\ w.number \in Nat
  BY RingTypes, FrameBounds DEF WorkerWhole
<1>2. R!Numbered(w) \in R!Workers
  <2>1. w.window \cup {w.number + 1} \in SUBSET (1 .. MaxNumber)
    BY <1>1, RingTypes
  <2>2. R!Numbered(w) = [w EXCEPT !.number = w.number + 1,
            !.window = w.window \cup {w.number + 1}]
    BY <1>1 DEF R!Numbered, R!Workers
  <2> DEFINE known == w.window \cup {w.number + 1}
             next == w.number + 1
  <2>3. known \in SUBSET (1 .. MaxNumber) /\ next \in 0 .. MaxNumber
    BY <1>1, <2>1, FrameBounds
  <2>4. R!Numbered(w) = [w EXCEPT !.number = next, !.window = known]
    BY <2>2
  <2> HIDE DEF known, next
  <2> QED
    BY <1>1, <2>3, <2>4 DEF R!Workers
<1>3. /\ R!Numbered(w).number = w.number + 1
      /\ R!Numbered(w).window = w.window \cup {w.number + 1}
      /\ R!Numbered(w).slots = w.slots /\ R!Numbered(w).published = w.published
      /\ R!Numbered(w).writer = w.writer /\ R!Numbered(w).stream = w.stream
      /\ R!Numbered(w).life = w.life /\ R!Numbered(w).alive = w.alive
      /\ R!Numbered(w).skipped = w.skipped /\ R!Numbered(w).released = w.released
  BY <1>1 DEF R!Numbered, R!Workers
<1>4. /\ w.published <= w.number /\ w.window \subseteq 1 .. w.number
      /\ w.released <= w.number /\ w.window \subseteq w.released + 1 .. w.number
  BY DEF WorkerWhole, R!WindowInv
<1>5. \A i \in 0 .. R!SLOT_COUNT - 1 : w.slots[i].payload \subseteq 1 .. w.number
  BY DEF WorkerWhole
<1>6. 1 .. w.number \subseteq 1 .. w.number + 1 /\ w.number + 1 \in 1 .. w.number + 1
  BY <1>1
<1>7. w.window \cup {w.number + 1} \subseteq (w.released + 1) .. w.number + 1
  BY <1>1, <1>4, RingTypes
<1>8. w.window \cup {w.number + 1} \subseteq 1 .. w.number + 1
  BY <1>1, <1>4
<1>9. R!WindowInv(R!Numbered(w))
  BY <1>1, <1>3, <1>4, <1>7, RingTypes DEF R!WindowInv
<1> QED
  BY <1>1, <1>2, <1>3, <1>4, <1>5, <1>6, <1>8, <1>9

LEMMA SkippedFacts ==
  ASSUME NEW w, WorkerWhole(w), w.writer = "idle", w.number < MaxNumber
  PROVE  /\ WorkerWhole(R!Skipped(w)) /\ R!Skipped(w).published = w.published
         /\ R!Skipped(w).life = w.life
         /\ R!Skipped(w).alive = w.alive /\ R!Skipped(w).stream = w.stream
         /\ R!Skipped(w).writer = "idle"
         /\ R!Skipped(w).number = w.number + 1
<1> DEFINE v == R!Numbered(w)
<1>1. /\ v \in R!Workers /\ R!WindowInv(v) /\ v.published <= w.number /\ v.number = w.number + 1
      /\ v.published = w.published
      /\ v.window \subseteq 1 .. v.number /\ v.slots = w.slots /\ v.writer = "idle"
      /\ \A i \in 0 .. R!SLOT_COUNT - 1 : v.slots[i].payload \subseteq 1 .. v.number
      /\ v.life = w.life /\ v.alive = w.alive /\ v.stream = w.stream
  BY NumberedFacts
<1>2. R!Skipped(w) = [v EXCEPT !.skipped = TRUE]
  BY DEF R!Skipped
<1> HIDE DEF v
<1>3. v.published <= v.number
  BY <1>1, RingTypes DEF WorkerWhole
<1> QED
  BY <1>1, <1>2, <1>3 DEF WorkerWhole, R!Workers, R!SlotInv, R!WindowInv

\* The pixels and the header of a number that is spent.
LEMMA WrittenFacts ==
  ASSUME NEW w \in R!Workers, w.number > 0
  PROVE  /\ R!HalfWritten(w) \in R!Workers /\ R!PixelsWritten(w) \in R!Workers
         /\ R!HeaderWritten(w) \in R!Workers
         /\ R!HalfWritten(w) = [w EXCEPT !.slots = R!HalfWritten(w).slots]
         /\ R!PixelsWritten(w) = [w EXCEPT !.slots = R!PixelsWritten(w).slots]
         /\ R!HeaderWritten(w) = [w EXCEPT !.slots = R!HeaderWritten(w).slots]
         /\ R!PixelsWritten(w).slots[R!Slot(w.number)].payload = {w.number}
         /\ \A i \in 0 .. R!SLOT_COUNT - 1 :
              /\ R!HeaderWritten(w).slots[i].payload = w.slots[i].payload
              /\ i # R!Slot(w.number) => R!PixelsWritten(w).slots[i].payload = w.slots[i].payload
              /\ i # R!Slot(w.number) => R!HalfWritten(w).slots[i].payload = w.slots[i].payload
              /\ R!HalfWritten(w).slots[i].payload \subseteq w.slots[i].payload \cup {w.number}
<1> DEFINE j == R!Slot(w.number)
           t == w.slots[j]
           halves == [w.slots EXCEPT ![j] = [t EXCEPT !.payload = t.payload \cup {w.number}]]
           pixels == [w.slots EXCEPT ![j] = [t EXCEPT !.payload = {w.number}]]
           headers == [w.slots EXCEPT ![j] = [t EXCEPT !.header = w.number]]
<1>1. j \in 0 .. R!SLOT_COUNT - 1 /\ w.slots \in SlotRecords /\ w.number \in 1 .. MaxNumber
  BY SlotFacts, RingTypes
<1> HIDE DEF j
<1>2. t \in [header : 0 .. MaxNumber, payload : SUBSET (1 .. MaxNumber)]
  BY <1>1 DEF SlotRecords
<1>3. {[t EXCEPT !.payload = t.payload \cup {w.number}], [t EXCEPT !.payload = {w.number}],
       [t EXCEPT !.header = w.number]}
         \subseteq [header : 0 .. MaxNumber, payload : SUBSET (1 .. MaxNumber)]
  BY <1>1, <1>2, FrameBounds
<1>4. halves \in SlotRecords /\ pixels \in SlotRecords /\ headers \in SlotRecords
  BY <1>1, <1>3 DEF SlotRecords
<1>5. /\ R!HalfWritten(w) = [w EXCEPT !.slots = halves]
      /\ R!PixelsWritten(w) = [w EXCEPT !.slots = pixels]
      /\ R!HeaderWritten(w) = [w EXCEPT !.slots = headers]
  BY <1>1 DEF R!HalfWritten, R!PixelsWritten, R!HeaderWritten, j, R!Workers
<1>6. /\ pixels[j].payload = {w.number}
      /\ \A i \in 0 .. R!SLOT_COUNT - 1 :
           /\ headers[i].payload = w.slots[i].payload
           /\ i # j => pixels[i].payload = w.slots[i].payload
           /\ i # j => halves[i].payload = w.slots[i].payload
           /\ halves[i].payload \subseteq w.slots[i].payload \cup {w.number}
  BY <1>1, <1>2 DEF SlotRecords
<1> HIDE DEF halves, pixels, headers
<1>7. /\ R!HalfWritten(w).slots = halves /\ R!PixelsWritten(w).slots = pixels
      /\ R!HeaderWritten(w).slots = headers
      /\ R!HalfWritten(w) \in R!Workers /\ R!PixelsWritten(w) \in R!Workers
      /\ R!HeaderWritten(w) \in R!Workers
  BY <1>4, <1>5 DEF R!Workers, SlotRecords
<1> QED
  BY <1>5, <1>6, <1>7 DEF j

\* The first pixels of the next frame.
LEMMA BeginsFacts ==
  ASSUME NEW w, WorkerWhole(w), w.writer = "idle", w.stream = "running", w.number < MaxNumber,
         NEW v, v = [R!HalfWritten(R!Numbered(w)) EXCEPT !.writer = "half"]
  PROVE  /\ WorkerWhole(v) /\ v.number = w.number + 1 /\ v.life = w.life /\ v.alive = w.alive
         /\ v.published = w.published /\ v.stream = "running"
<1> DEFINE n == R!Numbered(w)
           h == R!HalfWritten(n)
<1>1. w \in R!Workers /\ w.number \in Nat /\ w.published \in Nat /\ w.published <= w.number
  BY RingTypes DEF WorkerWhole
<1>2. /\ n \in R!Workers /\ n.number = w.number + 1 /\ R!WindowInv(n) /\ n.published = w.published
      /\ n.window \subseteq 1 .. w.number + 1 /\ n.slots = w.slots /\ n.stream = w.stream
      /\ n.life = w.life /\ n.alive = w.alive /\ n.skipped = w.skipped
      /\ \A i \in 0 .. R!SLOT_COUNT - 1 : w.slots[i].payload \subseteq 1 .. w.number + 1
  BY NumberedFacts
<1> HIDE DEF n
<1>3. /\ h \in R!Workers /\ h = [n EXCEPT !.slots = h.slots]
      /\ \A i \in 0 .. R!SLOT_COUNT - 1 :
           /\ i # R!Slot(n.number) => h.slots[i].payload = n.slots[i].payload
           /\ h.slots[i].payload \subseteq n.slots[i].payload \cup {n.number}
  BY <1>1, <1>2, WrittenFacts
<1> HIDE DEF h
<1>4. v = [h EXCEPT !.writer = "half"]
  BY DEF h, n
<1>5. /\ v \in R!Workers /\ v.writer = "half" /\ v.slots = h.slots /\ v.number = w.number + 1
      /\ v.released = n.released /\ v.window = n.window /\ v.published = w.published
      /\ v.life = w.life /\ v.alive = w.alive /\ v.skipped = w.skipped /\ v.stream = "running"
  <2>1. /\ h.number = n.number /\ h.released = n.released /\ h.window = n.window
        /\ h.published = n.published /\ h.life = n.life /\ h.alive = n.alive
        /\ h.skipped = n.skipped /\ h.stream = n.stream
    BY <1>2, <1>3 DEF R!Workers
  <2>2. v \in R!Workers /\ v.writer = "half" /\ v.slots = h.slots
    BY <1>3, <1>4 DEF R!Workers
  <2>3. /\ v.number = h.number /\ v.released = h.released /\ v.window = h.window
        /\ v.published = h.published /\ v.life = h.life /\ v.alive = h.alive
        /\ v.skipped = h.skipped /\ v.stream = h.stream
    BY <1>3, <1>4 DEF R!Workers
  <2> QED
    BY <1>2, <2>1, <2>2, <2>3
<1>6. R!WindowInv(v) /\ v.published <= v.number /\ v.window \subseteq 1 .. v.number
  BY <1>1, <1>2, <1>5 DEF R!WindowInv
<1>7. ASSUME NEW i \in 0 .. R!SLOT_COUNT - 1 PROVE v.slots[i].payload \subseteq 1 .. v.number
  <2>1. v.slots[i].payload \subseteq w.slots[i].payload \cup {v.number}
    BY <1>2, <1>3, <1>5
  <2>2. w.slots[i].payload \subseteq 1 .. v.number /\ v.number \in 1 .. v.number
    BY <1>1, <1>2, <1>5
  <2> QED
    BY <2>1, <2>2
<1>8. R!SlotInv(v)
  <2>1. ASSUME ~v.skipped PROVE v.number = v.published + 1
    BY <1>5, <2>1 DEF WorkerWhole, R!SlotInv
  <2>2. ASSUME ~v.skipped, v.published > 0
        PROVE  v.slots[R!Slot(v.published)].payload = {v.published}
    <3>1. w.slots[R!Slot(w.published)].payload = {w.published}
      BY <1>5, <2>2 DEF WorkerWhole, R!SlotInv
    <3>2. R!Slot(w.published) \in 0 .. R!SLOT_COUNT - 1 /\ R!Slot(w.published) # R!Slot(n.number)
      BY <1>1, <1>2, <1>5, <2>1, <2>2, SlotFacts
    <3> QED
      BY <1>2, <1>3, <1>5, <3>1, <3>2
  <2>3. v.number > 0
    BY <1>1, <1>5
  <2> QED
    BY <1>5, <2>1, <2>2, <2>3 DEF R!SlotInv
<1> QED
  BY <1>5, <1>6, <1>7, <1>8 DEF WorkerWhole

\* The other pixels, and the header.
LEMMA PixelsFacts ==
  ASSUME NEW w, WorkerWhole(w), w.number > 0,
         NEW v, v = R!HeaderWritten(R!PixelsWritten(w))
  PROVE  /\ v \in R!Workers /\ v = [w EXCEPT !.slots = v.slots]
         /\ v.slots[R!Slot(w.number)].payload = {w.number}
         /\ \A i \in 0 .. R!SLOT_COUNT - 1 :
              /\ i # R!Slot(w.number) => v.slots[i].payload = w.slots[i].payload
              /\ v.slots[i].payload \subseteq 1 .. w.number
<1> DEFINE p == R!PixelsWritten(w)
<1>1. w \in R!Workers /\ w.number \in Nat
  BY RingTypes DEF WorkerWhole
<1>2. /\ p \in R!Workers /\ p = [w EXCEPT !.slots = p.slots]
      /\ p.slots[R!Slot(w.number)].payload = {w.number}
      /\ \A i \in 0 .. R!SLOT_COUNT - 1 :
           i # R!Slot(w.number) => p.slots[i].payload = w.slots[i].payload
  BY <1>1, WrittenFacts
<1> HIDE DEF p
<1>3. p.number = w.number
  BY <1>1, <1>2 DEF R!Workers
<1>4. /\ R!HeaderWritten(p) \in R!Workers
      /\ R!HeaderWritten(p) = [p EXCEPT !.slots = R!HeaderWritten(p).slots]
      /\ \A i \in 0 .. R!SLOT_COUNT - 1 : R!HeaderWritten(p).slots[i].payload = p.slots[i].payload
  BY <1>2, <1>3, WrittenFacts
<1>5. v = R!HeaderWritten(p)
  BY DEF p
<1>6. v = [w EXCEPT !.slots = v.slots]
  BY <1>1, <1>2, <1>4, <1>5 DEF R!Workers
<1>7. R!Slot(w.number) \in 0 .. R!SLOT_COUNT - 1
  BY <1>1, SlotFacts
<1>8. ASSUME NEW i \in 0 .. R!SLOT_COUNT - 1 PROVE v.slots[i].payload \subseteq 1 .. w.number
  <2>1. CASE i = R!Slot(w.number)
    BY <1>1, <1>2, <1>4, <1>5, <2>1
  <2>2. CASE i # R!Slot(w.number)
    BY <1>2, <1>4, <1>5, <2>2 DEF WorkerWhole
  <2> QED
    BY <2>1, <2>2
<1> QED
  BY <1>2, <1>4, <1>5, <1>6, <1>7, <1>8

LEMMA HeaderFacts ==
  ASSUME NEW w, WorkerWhole(w), w.writer = "half",
         NEW v, v = [R!HeaderWritten(R!PixelsWritten(w)) EXCEPT !.writer = "header"]
  PROVE  /\ WorkerWhole(v) /\ v.number = w.number /\ v.life = w.life /\ v.alive = w.alive
         /\ v.published = w.published /\ v.stream = w.stream
<1> DEFINE h == R!HeaderWritten(R!PixelsWritten(w))
<1>1. /\ w \in R!Workers /\ w.number \in Nat /\ w.published \in Nat /\ w.number > 0
      /\ w.stream = "running"
  BY RingTypes DEF WorkerWhole, R!SlotInv
<1>2. /\ h \in R!Workers /\ h = [w EXCEPT !.slots = h.slots]
      /\ h.slots[R!Slot(w.number)].payload = {w.number}
      /\ \A i \in 0 .. R!SLOT_COUNT - 1 :
           /\ i # R!Slot(w.number) => h.slots[i].payload = w.slots[i].payload
           /\ h.slots[i].payload \subseteq 1 .. w.number
  BY <1>1, PixelsFacts
<1> HIDE DEF h
<1>3. v = [h EXCEPT !.writer = "header"]
  BY DEF h
<1>4. /\ v \in R!Workers /\ v.writer = "header" /\ v.slots = h.slots /\ v.number = w.number
      /\ v.released = w.released /\ v.window = w.window /\ v.published = w.published
      /\ v.life = w.life /\ v.alive = w.alive /\ v.skipped = w.skipped /\ v.stream = w.stream
  <2>1. /\ h.number = w.number /\ h.released = w.released /\ h.window = w.window
        /\ h.published = w.published /\ h.life = w.life /\ h.alive = w.alive
        /\ h.skipped = w.skipped /\ h.stream = w.stream
    BY <1>1, <1>2 DEF R!Workers
  <2>2. v \in R!Workers /\ v.writer = "header" /\ v.slots = h.slots
    BY <1>2, <1>3 DEF R!Workers
  <2>3. /\ v.number = h.number /\ v.released = h.released /\ v.window = h.window
        /\ v.published = h.published /\ v.life = h.life /\ v.alive = h.alive
        /\ v.skipped = h.skipped /\ v.stream = h.stream
    BY <1>2, <1>3 DEF R!Workers
  <2> QED
    BY <2>1, <2>2, <2>3
<1>5. R!WindowInv(v) /\ v.published <= v.number /\ v.window \subseteq 1 .. v.number
  BY <1>4 DEF WorkerWhole, R!WindowInv
<1>6. R!SlotInv(v)
  <2>1. ASSUME ~v.skipped PROVE v.number = v.published + 1
    BY <1>4, <2>1 DEF WorkerWhole, R!SlotInv
  <2>2. ASSUME ~v.skipped, v.published > 0
        PROVE  v.slots[R!Slot(v.published)].payload = {v.published}
    <3>1. w.slots[R!Slot(w.published)].payload = {w.published}
      BY <1>4, <2>2 DEF WorkerWhole, R!SlotInv
    <3>2. R!Slot(w.published) \in 0 .. R!SLOT_COUNT - 1 /\ R!Slot(w.published) # R!Slot(w.number)
      BY <1>1, <1>4, <2>1, <2>2, SlotFacts
    <3> QED
      BY <1>2, <1>4, <3>1, <3>2
  <2> QED
    BY <1>1, <1>2, <1>4, <2>1, <2>2 DEF R!SlotInv
<1> QED
  BY <1>2, <1>4, <1>5, <1>6 DEF WorkerWhole

LEMMA StoredFacts ==
  ASSUME NEW w, WorkerWhole(w), w.writer = "header",
         NEW v, v = [R!Stored(w) EXCEPT !.writer = "idle"]
  PROVE  /\ WorkerWhole(v) /\ v.number = w.number /\ v.life = w.life /\ v.alive = w.alive
         /\ v.published = w.number /\ v.stream = w.stream
<1>1. w \in R!Workers /\ w.number \in Nat /\ w.number \in 0 .. MaxNumber
  BY RingTypes DEF WorkerWhole
<1>2. v = [w EXCEPT !.published = w.number, !.skipped = FALSE, !.writer = "idle"]
  BY <1>1 DEF R!Stored, R!Workers
<1>3. /\ v \in R!Workers /\ v.writer = "idle" /\ v.slots = w.slots /\ v.number = w.number
      /\ v.released = w.released /\ v.window = w.window /\ v.published = w.number
      /\ v.life = w.life /\ v.alive = w.alive /\ v.stream = w.stream
  BY <1>1, <1>2 DEF R!Workers
<1> QED
  BY <1>1, <1>3 DEF WorkerWhole, R!SlotInv, R!WindowInv

\* CaptureOnce, where no stream is beside it.
LEMMA OnceFacts ==
  ASSUME NEW w, WorkerWhole(w), w.writer = "idle", w.number < MaxNumber,
         NEW v, v = R!Published(w)
  PROVE  /\ WorkerWhole(v) /\ v.number = w.number + 1 /\ v.life = w.life /\ v.alive = w.alive
         /\ v.published = v.number /\ v.stream = w.stream
         /\ v.slots[R!Slot(v.number)].payload = {v.number}
<1> DEFINE n == R!Numbered(w)
           h == R!HeaderWritten(R!PixelsWritten(n))
<1>1. w \in R!Workers /\ w.number \in Nat /\ w.published \in Nat /\ w.published <= w.number
  BY RingTypes DEF WorkerWhole
<1>2. /\ n \in R!Workers /\ n.number = w.number + 1 /\ R!WindowInv(n)
      /\ n.window \subseteq 1 .. w.number + 1 /\ n.slots = w.slots /\ n.writer = "idle"
      /\ n.stream = w.stream /\ n.life = w.life /\ n.alive = w.alive
      /\ \A i \in 0 .. R!SLOT_COUNT - 1 : w.slots[i].payload \subseteq 1 .. w.number + 1
  BY NumberedFacts
<1> HIDE DEF n
<1> DEFINE p == R!PixelsWritten(n)
<1>3. n.number > 0 /\ n.number \in Nat /\ n.number \in 0 .. MaxNumber
  BY <1>1, <1>2, RingTypes
<1>4. /\ p \in R!Workers /\ p = [n EXCEPT !.slots = p.slots]
      /\ p.slots[R!Slot(n.number)].payload = {n.number}
      /\ \A i \in 0 .. R!SLOT_COUNT - 1 :
           i # R!Slot(n.number) => p.slots[i].payload = n.slots[i].payload
  BY <1>2, <1>3, WrittenFacts
<1>5. h = R!HeaderWritten(p)
  OBVIOUS
<1> HIDE DEF p, h
<1>6. p.number = n.number
  BY <1>2, <1>4 DEF R!Workers
<1>7. /\ h \in R!Workers /\ h = [p EXCEPT !.slots = h.slots]
      /\ \A i \in 0 .. R!SLOT_COUNT - 1 : h.slots[i].payload = p.slots[i].payload
  BY <1>3, <1>4, <1>5, <1>6, WrittenFacts
<1>8. v = [h EXCEPT !.published = h.number, !.skipped = FALSE]
  BY DEF R!Published, R!Stored, h, p, n
<1>9. /\ v \in R!Workers /\ v.writer = "idle" /\ v.slots = h.slots /\ v.number = w.number + 1
      /\ v.released = n.released /\ v.window = n.window /\ v.published = v.number
      /\ v.life = w.life /\ v.alive = w.alive /\ v.stream = w.stream
  <2>1. /\ h.writer = n.writer /\ h.number = n.number /\ h.released = n.released
        /\ h.window = n.window /\ h.life = n.life /\ h.alive = n.alive
        /\ h.stream = n.stream
    BY <1>2, <1>4, <1>7 DEF R!Workers
  <2>2. h.number = w.number + 1 /\ h.number \in 0 .. MaxNumber
    BY <1>2, <1>3, <2>1
  <2>3. /\ v \in R!Workers /\ v.published = h.number /\ v.slots = h.slots
        /\ v.writer = h.writer /\ v.number = h.number /\ v.released = h.released
        /\ v.window = h.window /\ v.life = h.life /\ v.alive = h.alive
        /\ v.stream = h.stream
    BY <1>7, <1>8, <2>2 DEF R!Workers
  <2> QED
    BY <1>2, <2>1, <2>2, <2>3
<1>10. R!Slot(n.number) \in 0 .. R!SLOT_COUNT - 1
  BY <1>3, SlotFacts
<1>11. v.slots[R!Slot(v.number)].payload = {v.number}
  BY <1>2, <1>4, <1>7, <1>9, <1>10
<1>12. ASSUME NEW i \in 0 .. R!SLOT_COUNT - 1 PROVE v.slots[i].payload \subseteq 1 .. v.number
  <2>1. CASE i = R!Slot(n.number)
    BY <1>2, <1>3, <1>9, <1>11, <2>1
  <2>2. CASE i # R!Slot(n.number)
    BY <1>2, <1>4, <1>7, <1>9, <2>2
  <2> QED
    BY <2>1, <2>2
<1>13. R!WindowInv(v) /\ v.published <= v.number /\ v.window \subseteq 1 .. v.number
  BY <1>2, <1>3, <1>9 DEF R!WindowInv
<1> QED
  BY <1>9, <1>11, <1>12, <1>13 DEF WorkerWhole, R!SlotInv


-------------------------------------------------------------------------------
\* The rest of the state is typed, and no number given to the Hub is ahead of the counter.
ReaderTypes ==
  /\ ringCapture \in R!Captures /\ ringSeen \in [Sources -> R!Frames]
  /\ ringCounter \in [Sources -> 0 .. MaxPublic] /\ ringMap \in [1 .. MaxPublic -> 0 .. MaxNumber]
  /\ ringSession \in BOOLEAN /\ ringFaulted \in BOOLEAN
  /\ \A s \in Sources : ringSeen[s].public <= ringCounter[s]

LEMMA RingParts ==
  R!IInv <=> /\ WorkerWhole(ringWorker) /\ ReaderTypes /\ R!ReaderInv /\ R!StreamInv
             /\ R!MatchedInv /\ R!SeesWholeFrames
<1>1. ringWorker \in R!Workers =>
          ringWorker.life \in 0 .. MaxWorkers /\ DOMAIN ringWorker.slots = 0 .. R!SLOT_COUNT - 1
  BY DEF R!Workers
<1> QED
  BY <1>1 DEF R!IInv, R!TypeOK, R!ShapeInv, WorkerWhole, ReaderTypes

LEMMA RingNextParts ==
  ASSUME WorkerWhole(ringWorker'), ReaderTypes', R!ReaderInv', R!StreamInv', R!MatchedInv',
         R!SeesWholeFrames'
  PROVE  R!IInv'
<1>1. ringWorker' \in R!Workers =>
          ringWorker'.life \in 0 .. MaxWorkers /\ DOMAIN ringWorker'.slots = 0 .. R!SLOT_COUNT - 1
  BY DEF R!Workers
<1> QED
  BY <1>1 DEF R!IInv, R!TypeOK, R!ShapeInv, WorkerWhole, ReaderTypes

LEMMA NoMapFacts ==
  /\ R!NoMap \in [1 .. MaxPublic -> 0 .. MaxNumber]
  /\ \A n \in 1 .. MaxPublic : R!NoMap[n] = 0
BY FrameBounds DEF R!NoMap

LEMMA NoCaptureFacts ==
  /\ R!NoCapture \in R!Captures /\ R!NoCapture.mode = "none" /\ R!NoCapture.phase = "idle"
  /\ [R!NoCapture EXCEPT !.mode = "failed"] \in R!Captures
  /\ \A s \in Sources : [R!NoCapture EXCEPT !.mode = "stream", !.source = s] \in R!Captures
<1>1. 0 \in 0 .. MaxNumber /\ 0 \in 0 .. MaxWorkers
  BY FrameBounds
<1>2. R!NoCapture \in R!Captures /\ R!NoCapture.mode = "none" /\ R!NoCapture.phase = "idle"
  BY <1>1 DEF R!NoCapture, R!Captures
<1>3. /\ [R!NoCapture EXCEPT !.mode = "failed"] \in R!Captures
      /\ \A s \in Sources : [R!NoCapture EXCEPT !.mode = "stream", !.source = s] \in R!Captures
  BY <1>2 DEF R!Captures
<1> QED
  BY <1>2, <1>3

\* The numbers of the latest frame.
LEMMA LatestFacts ==
  ASSUME ReaderTypes, NEW s \in Sources, R!IsLatest(s)
  PROVE  ringCounter[s] \in 1 .. MaxPublic /\ ringMap[ringCounter[s]] \in 0 .. MaxNumber
<1>1. ringCounter[s] \in 0 .. MaxPublic /\ ringCounter[s] # 0
  BY DEF ReaderTypes, R!IsLatest
<1>2. ringCounter[s] \in 1 .. MaxPublic
  BY <1>1, FrameBounds
<1> QED
  BY <1>2 DEF ReaderTypes

\* The map stays matched where it is cleared, or the Worker stays and has published a frame
\* if the map has one.
LEMMA MatchedKept ==
  ASSUME R!IInv, UNCHANGED <<ringCounter, ringSeen>>,
         \/ ringMap' = R!NoMap
         \/ /\ ringMap' = ringMap /\ ringWorker'.life = ringWorker.life
            /\ \/ ringWorker'.published = 0
               \/ ringWorker.published # 0
               \/ ringMap = R!NoMap
  PROVE  R!MatchedInv'
<1> SUFFICES ASSUME NEW s \in Sources,
                    R!IsLatest(s)', ringMap'[ringCounter'[s]] # 0, R!OnlyOneNumbered(s)'
             PROVE  /\ ringSeen'[s].number = ringMap'[ringCounter'[s]]
                    /\ \/ ringSeen'[s].life = ringWorker'.life
                       \/ ringSeen'[s].late /\ (ringWorker'.published = 0 \/ ~R!OnlySource(s)')
  BY DEF R!MatchedInv
<1>1. R!IsLatest(s) /\ R!OnlyOneNumbered(s)
  BY DEF R!IsLatest, R!OnlyOneNumbered
<1>2. ringCounter[s] \in 1 .. MaxPublic
  BY <1>1, LatestFacts, RingParts
<1>3. ringMap' # R!NoMap
  BY <1>2, NoMapFacts
<1>4. /\ ringMap' = ringMap /\ ringMap # R!NoMap /\ ringWorker'.life = ringWorker.life
      /\ ringWorker.published = 0 => ringWorker'.published = 0
  BY <1>3
<1>5. /\ ringSeen[s].number = ringMap[ringCounter[s]]
      /\ \/ ringSeen[s].life = ringWorker.life
         \/ ringSeen[s].late /\ (ringWorker.published = 0 \/ ~R!OnlySource(s))
  BY <1>1, <1>4, RingParts DEF R!MatchedInv
<1> QED
  BY <1>4, <1>5 DEF R!OnlySource

\* A step of the Worker, and of the session: capture and frames stay.
LEMMA RingWorkerStep ==
  ASSUME R!IInv, UNCHANGED <<ringCapture, ringCounter, ringSeen>>, WorkerWhole(ringWorker'),
         ringSession' \in BOOLEAN, ringFaulted' \in BOOLEAN, ringMap' \in {ringMap, R!NoMap},
         ringCapture.phase = "copied" => ringWorker'.number >= ringWorker.number,
         ringCapture.phase = "numbered" =>
             ringWorker'.published = 0
                 \/ (ringWorker.published # 0 /\ ringWorker'.life = ringWorker.life),
         R!StreamInv', R!MatchedInv'
  PROVE  R!IInv'
<1>1. ReaderTypes' /\ R!SeesWholeFrames'
  BY RingParts, NoMapFacts DEF ReaderTypes, R!SeesWholeFrames
<1>2. R!ReaderInv'
  <2>1. WorkerWhole(ringWorker) /\ R!ReaderInv
    BY RingParts
  <2>2. ringCapture.phase = "copied" => ringCapture.number \in 1 .. ringWorker'.number
    BY <2>1, RingTypes DEF R!ReaderInv, WorkerWhole
  <2> QED
    BY <2>1, <2>2 DEF R!ReaderInv
<1> QED
  BY <1>1, <1>2, RingNextParts

LEMMA StreamWritesStep == ASSUME R!IInv, R!StreamWrites PROVE R!IInv'
<1>1. /\ WorkerWhole(ringWorker) /\ ReaderTypes /\ R!StreamInv /\ ringWorker \in R!Workers
      /\ ringWorker.number \in Nat /\ ringWorker.published \in Nat
      /\ ringWorker.published <= ringWorker.number /\ ringWorker.alive /\ ringWorker.stream = "running"
      /\ UNCHANGED <<ringCapture, ringCounter, ringMap, ringSession, ringFaulted, ringSeen>>
  BY RingParts, RingTypes DEF R!StreamWrites, R!Streaming, WorkerWhole
<1>2. /\ ringCapture.mode = "stream"
      /\ ringCapture.phase = "numbered" => ringWorker.published > 0
      /\ ringWorker.published = 0 => ringMap = R!NoMap
  BY <1>1 DEF R!StreamInv
<1>3. /\ WorkerWhole(ringWorker') /\ ringWorker'.life = ringWorker.life
      /\ ringWorker'.alive /\ ringWorker'.stream = "running"
      /\ ringWorker'.number \in {ringWorker.number, ringWorker.number + 1}
      /\ ringWorker'.published \in {ringWorker.published, ringWorker.number}
  <2>1. CASE R!Streaming("idle") /\ ringWorker.number < MaxNumber
             /\ ringWorker' = [R!HalfWritten(R!Numbered(ringWorker)) EXCEPT !.writer = "half"]
    BY <1>1, <2>1, BeginsFacts DEF R!Streaming
  <2>2. CASE R!Streaming("half")
             /\ ringWorker' = [R!HeaderWritten(R!PixelsWritten(ringWorker)) EXCEPT
                                 !.writer = "header"]
    BY <1>1, <2>2, HeaderFacts DEF R!Streaming
  <2>3. CASE /\ R!Streaming("header")
             /\ ringWorker' = [R!Stored(ringWorker) EXCEPT !.writer = "idle"]
    BY <1>1, <2>3, StoredFacts DEF R!Streaming
  <2> QED
    BY <2>1, <2>2, <2>3 DEF R!StreamWrites
<1>4. /\ ringWorker'.number >= ringWorker.number
      /\ ringWorker.published > 0 => ringWorker'.published > 0
  BY <1>1, <1>3
<1>5. R!StreamInv'
  BY <1>1, <1>2, <1>3, <1>4 DEF R!StreamInv
<1>6. R!MatchedInv'
  BY <1>1, <1>2, <1>3, MatchedKept
<1>7. ringSession' \in BOOLEAN /\ ringFaulted' \in BOOLEAN
  BY <1>1 DEF ReaderTypes
<1>8. ringCapture.phase = "numbered" =>
          ringWorker.published # 0 /\ ringWorker'.life = ringWorker.life
  BY <1>1, <1>2, <1>3
<1> QED
  BY <1>1, <1>3, <1>4, <1>5, <1>6, <1>7, <1>8, RingWorkerStep

LEMMA StreamBreaksStep == ASSUME R!IInv, R!StreamBreaks PROVE R!IInv'
<1>1. /\ WorkerWhole(ringWorker) /\ ReaderTypes /\ R!StreamInv /\ ringWorker \in R!Workers
      /\ ringWorker.number \in Nat /\ ringWorker.published \in Nat
      /\ ringWorker.published <= ringWorker.number /\ ringWorker.alive /\ ringWorker.stream = "running"
      /\ ringWorker.writer = "idle"
      /\ UNCHANGED <<ringCapture, ringCounter, ringMap, ringSession, ringFaulted, ringSeen>>
  BY RingParts, RingTypes DEF R!StreamBreaks, R!Streaming, WorkerWhole
<1>2. /\ ringCapture.mode = "stream"
      /\ ringCapture.phase = "numbered" => ringWorker.published > 0
      /\ ringWorker.published = 0 => ringMap = R!NoMap
  BY <1>1 DEF R!StreamInv
<1>3. /\ WorkerWhole(ringWorker') /\ ringWorker'.life = ringWorker.life
      /\ ringWorker'.published = ringWorker.published
      /\ ringWorker'.alive /\ ringWorker'.number \in {ringWorker.number, ringWorker.number + 1}
  <2>1. CASE ringWorker' = [ringWorker EXCEPT !.stream = "broken"]
    BY <1>1, <2>1, BrokenFacts
  <2>2. CASE /\ ringWorker.number < MaxNumber
             /\ ringWorker' = [R!Skipped(ringWorker) EXCEPT !.stream = "broken"]
    <3>1. /\ WorkerWhole(R!Skipped(ringWorker)) /\ R!Skipped(ringWorker).writer = "idle"
          /\ R!Skipped(ringWorker).life = ringWorker.life /\ R!Skipped(ringWorker).alive
          /\ R!Skipped(ringWorker).published = ringWorker.published /\ R!Skipped(ringWorker).number = ringWorker.number + 1
      BY <1>1, <2>2, SkippedFacts
    <3> QED
      BY <1>1, <2>2, <3>1, BrokenFacts
  <2> QED
    BY <2>1, <2>2 DEF R!StreamBreaks
<1>4. /\ ringWorker'.number >= ringWorker.number
      /\ ringWorker.published > 0 => ringWorker'.published > 0
  BY <1>1, <1>3
<1>5. R!StreamInv'
  BY <1>1, <1>2, <1>3, <1>4 DEF R!StreamInv
<1>6. R!MatchedInv'
  BY <1>1, <1>2, <1>3, MatchedKept
<1>7. ringSession' \in BOOLEAN /\ ringFaulted' \in BOOLEAN
  BY <1>1 DEF ReaderTypes
<1>8. ringCapture.phase = "numbered" =>
          ringWorker.published # 0 /\ ringWorker'.life = ringWorker.life
  BY <1>1, <1>2, <1>3
<1> QED
  BY <1>1, <1>3, <1>4, <1>5, <1>6, <1>7, <1>8, RingWorkerStep


\* A step of the reader: the Worker stays.
LEMMA CopySlotStep == ASSUME R!IInv, R!CopySlot PROVE R!IInv'
<1> DEFINE slot == ringWorker.slots[R!Slot(ringWorker.published)]
<1>1. /\ ringCapture.mode = "stream" /\ ringCapture.phase = "idle"
      /\ ringWorker.published > ringCapture.after
      /\ ringCapture' = [ringCapture EXCEPT !.phase = "copied", !.number = ringWorker.published,
                                    !.payload = slot.payload, !.clean = ~ringWorker.skipped]
      /\ UNCHANGED <<ringWorker, ringCounter, ringMap, ringSession, ringFaulted, ringSeen>>
  BY DEF R!CopySlot
<1>2. /\ WorkerWhole(ringWorker) /\ ReaderTypes /\ R!ReaderInv /\ R!StreamInv
      /\ ringCapture \in R!Captures
      /\ ringWorker \in R!Workers /\ R!SlotInv(ringWorker)
      /\ ringWorker.published <= ringWorker.number
  BY RingParts DEF ReaderTypes, WorkerWhole
<1>3. ringCapture.after \in Nat /\ ringWorker.published \in Nat /\ ringWorker.number \in Nat
  BY <1>2, RingTypes, FrameBounds DEF R!Captures
<1>4. ringWorker.published \in 1 .. ringWorker.number /\ ringWorker.published \in 0 .. MaxNumber
  BY <1>1, <1>2, <1>3, RingTypes
<1>5. /\ slot.payload \in SUBSET (1 .. MaxNumber)
      /\ ~ringWorker.skipped => slot.payload = {ringWorker.published}
  <2>1. R!Slot(ringWorker.published) \in 0 .. R!SLOT_COUNT - 1 /\ ringWorker.slots \in SlotRecords
    BY <1>2, <1>3, SlotFacts, RingTypes
  <2>2. slot.payload \in SUBSET (1 .. MaxNumber)
    BY <2>1 DEF SlotRecords
  <2> QED
    BY <1>2, <1>3, <1>4, <2>2 DEF R!SlotInv
<1> HIDE DEF slot
<1>6. /\ ringCapture' \in R!Captures /\ ringCapture'.mode = "stream"
      /\ ringCapture'.phase = "copied"
      /\ ringCapture'.number = ringWorker.published /\ ringCapture'.payload = slot.payload
      /\ ringCapture'.source = ringCapture.source
  <2>1. (~ringWorker.skipped) \in BOOLEAN
    OBVIOUS
  <2> QED
    BY <1>1, <1>2, <1>4, <1>5, <2>1 DEF R!Captures
<1>7. R!ReaderInv'
  <2>1. ringCapture'.clean => ringCapture'.payload = {ringCapture'.number}
    BY <1>1, <1>2, <1>5, <1>6 DEF R!Captures
  <2> QED
    BY <1>1, <1>2, <1>4, <1>6, <2>1 DEF R!ReaderInv
<1>8. R!StreamInv'
  BY <1>1, <1>2, <1>6 DEF R!StreamInv
<1>9. ReaderTypes' /\ R!SeesWholeFrames' /\ R!MatchedInv'
  BY <1>1, <1>6, RingParts
     DEF ReaderTypes, R!SeesWholeFrames, R!MatchedInv, R!IsLatest, R!OnlyOneNumbered,
         R!OnlySource
<1> QED
  BY <1>1, <1>2, <1>7, <1>8, <1>9, RingNextParts

\* A number for the Hub.
LEMMA CountedFacts ==
  ASSUME ReaderTypes, NEW source \in Sources, R!NextPublic(source)
  PROVE  /\ ringCounter' \in [Sources -> 0 .. MaxPublic]
         /\ ringCounter'[source] = ringCounter[source] + 1 /\ ringCounter[source] \in Nat
         /\ ringCounter'[source] \in 1 .. MaxPublic
         /\ \A s \in Sources \ {source} : ringCounter'[s] = ringCounter[s]
<1>1. ringCounter[source] \in 0 .. MaxPublic /\ ringCounter[source] \in Nat
  BY FrameBounds DEF ReaderTypes
<1>2. ringCounter[source] + 1 \in 1 .. MaxPublic
  BY <1>1, FrameBounds DEF R!NextPublic
<1>3. ringCounter' = [ringCounter EXCEPT ![source] = ringCounter[source] + 1]
  BY DEF R!NextPublic
<1> QED
  BY <1>1, <1>2, <1>3 DEF ReaderTypes

LEMMA PublicFacts ==
  ASSUME ReaderTypes, NEW s \in Sources
  PROVE  /\ ringSeen[s] \in R!Frames /\ ringSeen[s].public \in Nat /\ ringCounter[s] \in Nat
         /\ ringSeen[s].public <= ringCounter[s]
BY FrameBounds DEF ReaderTypes, R!Frames

\* The frames of the source are no longer the latest, and it is not without the others.
LEMMA CountedMatched ==
  ASSUME ReaderTypes, R!MatchedInv, NEW source \in Sources, R!NextPublic(source),
         UNCHANGED <<ringWorker, ringMap, ringSeen>>
  PROVE  R!MatchedInv'
<1> SUFFICES ASSUME NEW s \in Sources,
                    R!IsLatest(s)', ringMap'[ringCounter'[s]] # 0, R!OnlyOneNumbered(s)'
             PROVE  /\ ringSeen'[s].number = ringMap'[ringCounter'[s]]
                    /\ \/ ringSeen'[s].life = ringWorker'.life
                       \/ ringSeen'[s].late /\ (ringWorker'.published = 0 \/ ~R!OnlySource(s)')
  BY DEF R!MatchedInv
<1>1. /\ ringCounter'[source] = ringCounter[source] + 1 /\ ringCounter[source] \in Nat
      /\ \A o \in Sources \ {source} : ringCounter'[o] = ringCounter[o]
  BY CountedFacts
<1>2. s # source
  <2>1. ringSeen[source].public \in Nat /\ ringSeen[source].public <= ringCounter[source]
    BY PublicFacts
  <2>2. ringSeen[source].public # ringCounter'[source]
    BY <1>1, <2>1
  <2> QED
    BY <2>2 DEF R!IsLatest
<1>3. R!IsLatest(s) /\ ringCounter'[s] = ringCounter[s]
  BY <1>1, <1>2 DEF R!IsLatest
<1>4. R!OnlyOneNumbered(s)
  <2>1. ringCounter[source] < ringCounter[s]
    <3>1. ringCounter'[source] < ringCounter'[s] /\ ringCounter[s] \in Nat
      BY <1>2, PublicFacts DEF R!OnlyOneNumbered
    <3> QED
      BY <1>1, <1>3, <3>1
  <2> QED
    BY <1>1, <1>3, <2>1 DEF R!OnlyOneNumbered
<1>5. ~R!OnlySource(s)'
  <2>1. ringCounter'[source] # 0
    BY <1>1
  <2> QED
    BY <1>2, <2>1 DEF R!OnlySource
<1> QED
  BY <1>3, <1>4, <1>5 DEF R!MatchedInv

LEMMA CheckPublishedStep == ASSUME R!IInv, R!CheckPublished PROVE R!IInv'
<1>1. /\ WorkerWhole(ringWorker) /\ ReaderTypes /\ R!ReaderInv /\ R!StreamInv
      /\ ringCapture \in R!Captures
      /\ ringWorker \in R!Workers /\ ringCapture.phase = "copied" /\ ringCapture.mode = "stream"
      /\ ringCapture.source \in Sources /\ ringCapture.number \in 1 .. ringWorker.number
      /\ UNCHANGED <<ringWorker, ringMap, ringSession, ringSeen>> /\ ringWorker.number \in Nat
  BY RingParts, RingTypes DEF ReaderTypes, WorkerWhole, R!ReaderInv, R!CheckPublished
<1>2. CASE /\ ringWorker.published = ringCapture.number
           /\ R!NextPublic(ringCapture.source)
           /\ ringCapture' = [ringCapture EXCEPT !.phase = "numbered",
                  !.after = ringCapture.number, !.life = ringWorker.life]
           /\ ringFaulted' = FALSE
  <2>1. /\ ringCounter' \in [Sources -> 0 .. MaxPublic]
        /\ ringCounter'[ringCapture.source] = ringCounter[ringCapture.source] + 1
        /\ ringCounter[ringCapture.source] \in Nat
        /\ \A s \in Sources \ {ringCapture.source} : ringCounter'[s] = ringCounter[s]
    BY <1>1, <1>2, CountedFacts
  <2>2. /\ ringCapture' \in R!Captures /\ ringCapture'.phase = "numbered"
        /\ ringCapture'.mode = "stream"
        /\ ringCapture'.source = ringCapture.source /\ ringCapture'.number = ringCapture.number
        /\ ringCapture'.life = ringWorker.life /\ ringCapture'.payload = ringCapture.payload
        /\ ringCapture'.clean = ringCapture.clean
    <3>1. /\ ringWorker.life \in 0 .. MaxWorkers
          /\ ringCapture.number \in 0 .. MaxNumber
      BY <1>1, RingTypes DEF R!Captures
    <3> QED
      BY <1>1, <1>2, <3>1 DEF R!Captures
  <2>3. R!ReaderInv'
    <3>1. ringCounter'[ringCapture.source] > 0 /\ ringCapture.number > 0
      BY <1>1, <2>1
    <3>2. ringCapture.clean => ringCapture.payload = {ringCapture.number}
      BY <1>1 DEF R!ReaderInv
    <3>3. ringCapture'.clean => ringCapture'.payload = {ringCapture'.number}
      BY <2>2, <3>2
    <3> QED
      BY <1>1, <2>2, <3>1, <3>3 DEF R!ReaderInv
  <2>4. R!StreamInv'
    <3>1. ringWorker.published > 0
      BY <1>1, <1>2
    <3> QED
      BY <1>1, <2>2, <3>1 DEF R!StreamInv
  <2>5. R!MatchedInv'
    BY <1>1, <1>2, <2>1, CountedMatched, RingParts
  <2>6. ReaderTypes'
    <3>1. ringFaulted' \in BOOLEAN
      BY ONLY <1>2, Zenon
    <3>2. \A s \in Sources : ringSeen'[s].public <= ringCounter'[s]
      BY <1>1, <2>1, PublicFacts
    <3> QED
      BY <1>1, <2>1, <2>2, <3>1, <3>2 DEF ReaderTypes
  <2>7. R!SeesWholeFrames'
    BY <1>1, RingParts DEF R!SeesWholeFrames
  <2> QED
    BY <1>1, <2>3, <2>4, <2>5, <2>6, <2>7, RingNextParts
<1>3. CASE /\ ringCapture' = [ringCapture EXCEPT !.phase = "idle", !.number = 0, !.payload = {}]
           /\ UNCHANGED <<ringCounter, ringFaulted>>
  <2>1. /\ ringCapture' \in R!Captures /\ ringCapture'.phase = "idle"
        /\ ringCapture'.mode = "stream"
        /\ ringCapture'.source = ringCapture.source
    <3>1. 0 \in 0 .. MaxNumber /\ {} \in SUBSET (1 .. MaxNumber)
      BY FrameBounds
    <3> QED
      BY <1>1, <1>3, <3>1 DEF R!Captures
  <2>2. R!ReaderInv' /\ R!StreamInv'
    BY <1>1, <1>3, <2>1 DEF R!ReaderInv, R!StreamInv
  <2>3. ReaderTypes' /\ R!SeesWholeFrames' /\ R!MatchedInv'
    BY <1>1, <1>3, <2>1, RingParts
       DEF ReaderTypes, R!SeesWholeFrames, R!MatchedInv, R!IsLatest, R!OnlyOneNumbered,
           R!OnlySource
  <2> QED
    BY <1>1, <2>2, <2>3, RingNextParts
<1> QED
  BY <1>2, <1>3 DEF R!CheckPublished

\* A frame goes to the Hub with the latest number of its source.
LEMMA SeenStep ==
  ASSUME ReaderTypes, ReaderTypes', R!SeesWholeFrames, R!MatchedInv, NEW source \in Sources,
         ringCounter'[source] \in 1 .. MaxPublic, ringCounter[source] <= ringCounter'[source],
         \A o \in Sources \ {source} : ringCounter'[o] = ringCounter[o],
         NEW f, ringSeen' = [ringSeen EXCEPT ![source] = f],
         f.clean => f.payload = {f.number},
         f.life = ringWorker'.life \/ (f.late /\ ringWorker'.published = 0),
         ringMap'[ringCounter'[source]] = f.number,
         \/ \A n \in 1 .. MaxPublic \ {ringCounter'[source]} : ringMap'[n] = 0
         \/ /\ \A n \in 1 .. MaxPublic \ {ringCounter'[source]} : ringMap'[n] = ringMap[n]
            /\ ringWorker'.life = ringWorker.life
  PROVE  R!SeesWholeFrames' /\ R!MatchedInv'
<1>1. /\ ringSeen'[source] = f
      /\ \A s \in Sources \ {source} : ringSeen'[s] = ringSeen[s]
  BY DEF ReaderTypes
<1>2. R!SeesWholeFrames'
  BY <1>1 DEF R!SeesWholeFrames
<1>3. ASSUME NEW s \in Sources,
             R!IsLatest(s)', ringMap'[ringCounter'[s]] # 0, R!OnlyOneNumbered(s)'
      PROVE  /\ ringSeen'[s].number = ringMap'[ringCounter'[s]]
             /\ \/ ringSeen'[s].life = ringWorker'.life
                \/ ringSeen'[s].late /\ (ringWorker'.published = 0 \/ ~R!OnlySource(s)')
  <2>1. CASE s = source
    BY <1>1, <2>1
  <2>2. CASE s # source
    <3>1. /\ ringCounter'[s] = ringCounter[s] /\ ringSeen'[s] = ringSeen[s] /\ R!IsLatest(s)
          /\ ringCounter'[source] < ringCounter'[s]
      BY <1>1, <1>3, <2>2 DEF R!IsLatest, R!OnlyOneNumbered
    <3>2. /\ ringCounter[s] \in 1 .. MaxPublic /\ ringCounter'[source] \in Nat
          /\ ringCounter[source] \in Nat
      BY <3>1, LatestFacts, PublicFacts, FrameBounds
    <3>3. ringCounter'[s] \in 1 .. MaxPublic \ {ringCounter'[source]}
      BY <3>1, <3>2
    <3>4. ringMap'[ringCounter'[s]] = ringMap[ringCounter[s]] /\ ringWorker'.life = ringWorker.life
      BY <1>3, <3>1, <3>3
    <3>5. R!OnlyOneNumbered(s)
      <4>1. ringCounter[source] < ringCounter[s]
        BY <3>1, <3>2
      <4> QED
        BY <1>3, <3>1, <4>1 DEF R!OnlyOneNumbered
    <3>6. ~R!OnlySource(s)'
      BY <2>2, <3>2 DEF R!OnlySource
    <3> QED
      BY <1>3, <3>1, <3>4, <3>5, <3>6 DEF R!MatchedInv
  <2> QED
    BY <2>1, <2>2
<1> QED
  BY <1>2, <1>3 DEF R!MatchedInv

LEMMA BindFrameStep == ASSUME R!IInv, R!BindFrame PROVE R!IInv'
<1> DEFINE public == ringCounter[ringCapture.source]
           f == [public |-> public, life |-> ringCapture.life, number |-> ringCapture.number,
                 payload |-> ringCapture.payload, clean |-> ringCapture.clean,
                 late |-> ringCapture.life # ringWorker.life]
<1>1. /\ WorkerWhole(ringWorker) /\ ReaderTypes /\ R!ReaderInv /\ R!StreamInv /\ R!SeesWholeFrames
      /\ ringCapture \in R!Captures
      /\ ringCapture.phase = "numbered" /\ ringCapture.mode = "stream"
      /\ ringCapture.source \in Sources
      /\ UNCHANGED <<ringWorker, ringCounter, ringSession, ringFaulted>>
  BY RingParts DEF ReaderTypes, R!ReaderInv, R!BindFrame
<1>2. /\ ringMap' = [ringMap EXCEPT ![public] = ringCapture.number]
      /\ ringSeen' = [ringSeen EXCEPT ![ringCapture.source] = f]
      /\ ringCapture' = [R!NoCapture EXCEPT !.mode = "stream", !.source = ringCapture.source,
                                      !.after = ringCapture.after]
  BY <1>1 DEF R!BindFrame
<1>3. /\ public > 0 /\ ringCapture.clean => ringCapture.payload = {ringCapture.number}
      /\ ringWorker.published = 0 \/ ringCapture.life = ringWorker.life
  BY <1>1 DEF R!ReaderInv
<1>4. public \in 1 .. MaxPublic /\ public \in 0 .. MaxPublic
  BY <1>1, <1>3, FrameBounds DEF ReaderTypes, R!ReaderInv
<1>5. /\ f \in R!Frames /\ f.public = public /\ f.life = ringCapture.life
      /\ f.number = ringCapture.number
      /\ f.payload = ringCapture.payload /\ f.clean = ringCapture.clean
      /\ f.late = (ringCapture.life # ringWorker.life)
  BY <1>1, <1>4 DEF R!Frames, R!Captures
<1> HIDE DEF f
<1>6. /\ ringMap' \in [1 .. MaxPublic -> 0 .. MaxNumber] /\ ringMap'[public] = ringCapture.number
      /\ \A n \in 1 .. MaxPublic \ {public} : ringMap'[n] = ringMap[n]
  BY <1>1, <1>2, <1>4 DEF ReaderTypes, R!Captures
<1> HIDE DEF public
<1>7. /\ ringCapture' \in R!Captures /\ ringCapture'.mode = "stream"
      /\ ringCapture'.phase = "idle"
      /\ ringCapture'.source = ringCapture.source
  <2>1. ringCapture.after \in 0 .. MaxNumber
    BY <1>1 DEF R!Captures
  <2>2. R!NoCapture \in R!Captures /\ R!NoCapture.phase = "idle"
    BY NoCaptureFacts
  <2> QED
    BY <1>1, <1>2, <2>1, <2>2 DEF R!Captures
<1>8. ReaderTypes'
  <2>1. ringSeen' \in [Sources -> R!Frames]
    BY <1>1, <1>2, <1>5 DEF ReaderTypes
  <2>2. \A s \in Sources : ringSeen'[s].public <= ringCounter'[s]
    BY <1>1, <1>2, <1>4, <1>5 DEF ReaderTypes, public
  <2> QED
    BY <1>1, <1>6, <1>7, <2>1, <2>2 DEF ReaderTypes
<1>9. R!ReaderInv'
  BY <1>1, <1>7 DEF R!ReaderInv
<1>10. R!StreamInv'
  BY <1>1, <1>7 DEF R!StreamInv
<1>11. R!SeesWholeFrames' /\ R!MatchedInv'
  <2>1. /\ ringCounter'[ringCapture.source] = public
        /\ ringCounter[ringCapture.source] <= public
    BY <1>1, <1>4, FrameBounds DEF public, ReaderTypes
  <2>2. f.clean => f.payload = {f.number}
    BY <1>1, <1>5 DEF R!ReaderInv
  <2>3. f.life = ringWorker'.life \/ (f.late /\ ringWorker'.published = 0)
    BY <1>1, <1>3, <1>5
  <2>4. R!MatchedInv
    BY RingParts
  <2> QED
    BY <1>1, <1>2, <1>4, <1>5, <1>6, <1>8, <2>1, <2>2, <2>3, <2>4, SeenStep
<1> QED
  BY <1>1, <1>8, <1>9, <1>10, <1>11, RingNextParts


LEMMA FrameLateStep == ASSUME R!IInv, R!FrameLate PROVE R!IInv'
<1>1. /\ WorkerWhole(ringWorker) /\ ReaderTypes /\ R!StreamInv /\ ringWorker \in R!Workers
      /\ ringCapture' = [R!NoCapture EXCEPT !.mode = "failed"]
      /\ UNCHANGED <<ringCounter, ringSession, ringSeen>>
  BY RingParts DEF R!FrameLate, WorkerWhole
<1>2. ringCapture' \in R!Captures /\ ringCapture'.mode = "failed" /\ ringCapture'.phase = "idle"
  BY <1>1, NoCaptureFacts DEF R!Captures
<1>3. R!ReaderInv'
  BY <1>2 DEF R!ReaderInv
<1>4. CASE ringWorker' = R!Lost(ringWorker) /\ ringMap' = R!NoMap /\ ringFaulted' = TRUE
  <2>1. WorkerWhole(ringWorker') /\ ringWorker'.stream = "none"
    BY <1>1, <1>4, LostWorkerFacts
  <2>2. R!MatchedInv'
    BY <1>1, <1>4, MatchedKept
  <2>3. ringFaulted' \in BOOLEAN
    BY ONLY <1>4, Zenon
  <2>4. ReaderTypes' /\ R!SeesWholeFrames' /\ R!StreamInv'
    BY <1>1, <1>2, <1>4, <2>1, <2>3, NoMapFacts, RingParts
       DEF ReaderTypes, R!SeesWholeFrames, R!StreamInv
  <2> QED
    BY <1>3, <2>1, <2>2, <2>4, RingNextParts
<1>5. CASE ~ringWorker.alive /\ UNCHANGED <<ringWorker, ringMap, ringFaulted>>
  <2>1. ringWorker.stream = "none"
    BY <1>1, <1>5 DEF R!StreamInv
  <2>2. ReaderTypes' /\ R!SeesWholeFrames' /\ R!StreamInv' /\ R!MatchedInv'
    BY <1>1, <1>2, <1>5, <2>1, RingParts
       DEF ReaderTypes, R!SeesWholeFrames, R!StreamInv, R!MatchedInv, R!IsLatest,
           R!OnlyOneNumbered, R!OnlySource
  <2> QED
    BY <1>1, <1>3, <1>5, <2>2, RingNextParts
<1> QED
  BY <1>4, <1>5 DEF R!FrameLate

-------------------------------------------------------------------------------
\* attach has the Worker there was, or one that has published nothing.
LEMMA RingAttachedFacts ==
  ASSUME WorkerWhole(ringWorker), ReaderTypes, NEW moved \in BOOLEAN, R!CanAttach(moved)
  PROVE  /\ WorkerWhole(R!Attached(moved)) /\ R!Attached(moved).alive
         /\ ~R!Reading /\ R!MapAfterAttach(moved) \in {ringMap, R!NoMap}
         /\ \/ R!Attached(moved) = ringWorker /\ R!MapAfterAttach(moved) = ringMap
            \/ /\ R!Attached(moved).number = 0 /\ R!Attached(moved).stream = "none"
               /\ R!Attached(moved).published = 0
               /\ R!MapAfterAttach(moved) = R!NoMap
<1>1. CASE ringWorker.alive /\ ~moved
  BY <1>1 DEF R!Attached, R!MapAfterAttach, R!CanAttach
<1>2. CASE ~(ringWorker.alive /\ ~moved)
  <2>1. ringWorker.life + 1 \in 0 .. MaxWorkers
    BY <1>2, RingTypes, FrameBounds DEF R!CanAttach, WorkerWhole
  <2> QED
    BY <1>2, <2>1, NewWorkerFacts DEF R!Attached, R!MapAfterAttach, R!CanAttach
<1> QED
  BY <1>1, <1>2

LEMMA AttachFailsStep == ASSUME R!IInv, R!AttachFails PROVE R!IInv'
<1>1. /\ WorkerWhole(ringWorker) /\ ReaderTypes /\ ~R!Reading /\ ringWorker.life < MaxWorkers
      /\ ringWorker' = R!Lost(R!Started(ringWorker.life + 1)) /\ ringMap' = R!NoMap
      /\ UNCHANGED <<ringCapture, ringCounter, ringSession, ringFaulted, ringSeen>>
  BY RingParts DEF R!AttachFails
<1>2. ringWorker.life + 1 \in 0 .. MaxWorkers
  BY <1>1, RingTypes, FrameBounds DEF WorkerWhole
<1>3. /\ WorkerWhole(ringWorker') /\ ringWorker'.stream = "none"
      /\ ringWorker'.number = 0 /\ ringWorker'.published = 0
  BY <1>1, <1>2, NewWorkerFacts, LostWorkerFacts
<1>4. R!StreamInv' /\ R!MatchedInv'
  BY <1>1, <1>3, MatchedKept DEF R!StreamInv
<1>5. ringSession' \in BOOLEAN /\ ringFaulted' \in BOOLEAN
  BY <1>1 DEF ReaderTypes
<1> QED
  BY <1>1, <1>3, <1>4, <1>5, RingWorkerStep DEF R!Reading

LEMMA RingStartsStep ==
  ASSUME R!IInv, NEW source \in Sources, NEW moved \in BOOLEAN, R!StartCapture(source, moved)
  PROVE  R!IInv'
<1> DEFINE w == R!Attached(moved)
<1>1. /\ WorkerWhole(ringWorker) /\ ReaderTypes /\ R!ReaderInv /\ R!StreamInv
      /\ ringCapture.mode = "none"
      /\ R!CanAttach(moved) /\ ringMap' = R!NoMap
      /\ UNCHANGED <<ringCounter, ringSession, ringFaulted, ringSeen>>
  BY RingParts DEF R!StartCapture
<1>2. ringCapture.phase = "idle" /\ ringWorker.stream = "none"
  BY <1>1, RingParts DEF R!ReaderInv, R!StreamInv, ReaderTypes
<1>3. WorkerWhole(w) /\ w.alive /\ w.stream = "none"
  BY <1>1, <1>2, RingAttachedFacts
<1> HIDE DEF w
<1>4. R!MatchedInv'
  BY <1>1, MatchedKept
<1>5. CASE /\ ringWorker' = [w EXCEPT !.stream = "running"]
           /\ ringCapture' = [R!NoCapture EXCEPT !.mode = "stream", !.source = source]
  <2>1. WorkerWhole(ringWorker') /\ ringWorker'.alive
    BY <1>3, <1>5, StreamRunsFacts
  <2>2. /\ ringCapture' \in R!Captures /\ ringCapture'.mode = "stream"
        /\ ringCapture'.phase = "idle"
        /\ ringCapture'.source = source
    BY <1>5, NoCaptureFacts DEF R!Captures
  <2>3. ReaderTypes' /\ R!SeesWholeFrames'
    BY <1>1, <2>2, NoMapFacts, RingParts DEF ReaderTypes, R!SeesWholeFrames
  <2>4. R!ReaderInv' /\ R!StreamInv'
    BY <1>1, <2>1, <2>2 DEF R!ReaderInv, R!StreamInv
  <2> QED
    BY <1>4, <2>1, <2>3, <2>4, RingNextParts
<1>6. CASE ringWorker' = w /\ UNCHANGED ringCapture
  <2>1. ReaderTypes' /\ R!SeesWholeFrames'
    BY <1>1, <1>6, NoMapFacts, RingParts DEF ReaderTypes, R!SeesWholeFrames
  <2>2. R!ReaderInv' /\ R!StreamInv'
    BY <1>1, <1>2, <1>3, <1>6 DEF R!ReaderInv, R!StreamInv
  <2> QED
    BY <1>3, <1>4, <1>6, <2>1, <2>2, RingNextParts
<1> QED
  BY <1>1, <1>5, <1>6 DEF R!StartCapture, w

LEMMA RingStopsStep == ASSUME R!IInv, R!StopCapture PROVE R!IInv'
<1>1. /\ WorkerWhole(ringWorker) /\ ReaderTypes /\ ringCapture' = R!NoCapture
      /\ ringWorker.writer = "idle"
      /\ UNCHANGED <<ringCounter, ringSession, ringSeen>>
      /\ \/ ringWorker' = R!Lost(ringWorker) /\ ringMap' = R!NoMap /\ ringFaulted' = TRUE
         \/ ringWorker' = R!StreamStopped(ringWorker) /\ UNCHANGED <<ringMap, ringFaulted>>
  BY RingParts DEF R!StopCapture
<1>2. WorkerWhole(ringWorker') /\ ringWorker'.stream = "none"
  BY <1>1, LostWorkerFacts, StreamStoppedFacts
<1>3. R!MatchedInv'
  <2>1. CASE ringMap' = R!NoMap
    BY <1>1, <2>1, MatchedKept
  <2>2. CASE ringWorker' = R!StreamStopped(ringWorker) /\ UNCHANGED <<ringMap, ringFaulted>>
    <3>1. /\ ringWorker'.published = ringWorker.published
          /\ ringWorker'.life = ringWorker.life
      BY <1>1, <2>2, StreamStoppedFacts
    <3> QED
      BY <1>1, <2>2, <3>1, MatchedKept
  <2> QED
    BY <1>1, <2>1, <2>2
<1>4. ringFaulted' \in BOOLEAN
  <2>1. CASE ringFaulted' = TRUE
    BY ONLY <2>1, Zenon
  <2> QED
    BY <1>1, <2>1 DEF ReaderTypes
<1>5. ReaderTypes' /\ R!SeesWholeFrames'
  BY <1>1, <1>4, NoCaptureFacts, NoMapFacts, RingParts DEF ReaderTypes, R!SeesWholeFrames
<1>6. R!ReaderInv' /\ R!StreamInv'
  BY <1>1, <1>2, NoCaptureFacts DEF R!ReaderInv, R!StreamInv
<1> QED
  BY <1>2, <1>3, <1>5, <1>6, RingNextParts

LEMMA OpenSessionStep ==
  ASSUME R!IInv, NEW moved \in BOOLEAN, R!OpenSession(moved)
  PROVE  R!IInv'
<1>1. /\ WorkerWhole(ringWorker) /\ ReaderTypes /\ R!ReaderInv /\ R!StreamInv /\ R!MatchedInv
      /\ R!CanAttach(moved) /\ ringSession' = TRUE
      /\ ringWorker' = R!Attached(moved) /\ ringMap' = R!MapAfterAttach(moved)
      /\ UNCHANGED <<ringCapture, ringCounter, ringFaulted, ringSeen>>
  BY RingParts DEF R!OpenSession
<1>2. ringSession' \in BOOLEAN
  BY ONLY <1>1, Zenon
<1>3. /\ ringFaulted' \in BOOLEAN /\ WorkerWhole(ringWorker') /\ ~R!Reading
      /\ ringMap' \in {ringMap, R!NoMap}
  BY <1>1, RingAttachedFacts DEF ReaderTypes
<1>4. CASE ringWorker' = ringWorker /\ ringMap' = ringMap
  BY <1>1, <1>2, <1>3, <1>4, RingParts, RingNextParts
     DEF ReaderTypes, R!ReaderInv, R!StreamInv, R!MatchedInv, R!SeesWholeFrames, R!IsLatest,
         R!OnlyOneNumbered, R!OnlySource
<1>5. CASE ringWorker'.published = 0 /\ ringWorker'.stream = "none" /\ ringMap' = R!NoMap
  <2>1. R!StreamInv' /\ R!MatchedInv'
    BY <1>1, <1>5, MatchedKept DEF R!StreamInv
  <2> QED
    BY <1>1, <1>2, <1>3, <1>5, <2>1, RingWorkerStep DEF R!Reading
<1> QED
  BY <1>1, <1>4, <1>5, RingAttachedFacts

LEMMA ReleaseEmergencyStep == ASSUME R!IInv, R!ReleaseEmergency PROVE R!IInv'
<1>1. /\ WorkerWhole(ringWorker) /\ ReaderTypes /\ R!ReaderInv /\ R!StreamInv
      /\ ringMap' = R!NoMap
      /\ UNCHANGED <<ringCapture, ringCounter, ringFaulted, ringSeen>>
  BY RingParts DEF R!ReleaseEmergency
<1>2. R!MatchedInv' /\ ringFaulted' \in BOOLEAN
  BY <1>1, MatchedKept DEF ReaderTypes
<1>3. ringSession' \in BOOLEAN
  <2>1. CASE ringSession' = FALSE
    BY ONLY <2>1, Zenon
  <2> QED
    BY <1>1, <2>1 DEF R!ReleaseEmergency, ReaderTypes
<1>4. CASE UNCHANGED ringWorker
  <2>1. R!StreamInv'
    BY <1>1, <1>4 DEF R!StreamInv
  <2>2. /\ ringWorker'.number >= ringWorker.number
        /\ ringCapture.phase = "numbered" =>
               ringWorker'.published = 0
                   \/ (ringWorker.published # 0 /\ ringWorker'.life = ringWorker.life)
    BY <1>1, <1>4, RingTypes DEF WorkerWhole
  <2> QED
    BY <1>1, <1>2, <1>3, <1>4, <2>1, <2>2, RingWorkerStep
<1>5. CASE ~R!Reading /\ ringWorker.writer = "idle" /\ ringWorker' = R!Released(ringWorker)
  <2>1. /\ WorkerWhole(ringWorker') /\ ringWorker'.stream = "none"
        /\ ringWorker'.published = ringWorker.published /\ ringWorker'.life = ringWorker.life
    BY <1>1, <1>5, WorkerReleasedFacts
  <2>2. R!StreamInv'
    BY <2>1 DEF R!StreamInv
  <2> QED
    BY <1>1, <1>2, <1>3, <1>5, <2>1, <2>2, RingWorkerStep DEF R!Reading
<1>6. CASE ~R!Reading /\ ringWorker' = R!Lost(ringWorker)
  <2>1. WorkerWhole(ringWorker') /\ ringWorker'.stream = "none" /\ ringWorker'.published = 0
    BY <1>1, <1>6, LostWorkerFacts
  <2>2. R!StreamInv'
    BY <2>1 DEF R!StreamInv
  <2> QED
    BY <1>1, <1>2, <1>3, <1>6, <2>1, <2>2, RingWorkerStep DEF R!Reading
<1> QED
  BY <1>4, <1>5, <1>6 DEF R!ReleaseEmergency


\* A frame read at once is whole, and the map has its number.
LEMMA OnceReadStep ==
  ASSUME R!IInv, NEW source \in Sources, NEW moved \in BOOLEAN,
         ringCapture.mode = "none", R!CanAttach(moved), R!Attached(moved).number < MaxNumber,
         R!OnceRead(source, R!Published(R!Attached(moved))),
         ringMap' = [R!MapAfterAttach(moved) EXCEPT
                        ![ringCounter'[source]] = R!Attached(moved).number + 1]
  PROVE  R!IInv'
<1> DEFINE w == R!Attached(moved)
           v == R!Published(w)
           f == [public |-> ringCounter'[source], life |-> v.life, number |-> v.number,
                 payload |-> v.slots[R!Slot(v.number)].payload, clean |-> TRUE, late |-> FALSE]
<1>1. /\ WorkerWhole(ringWorker) /\ ReaderTypes /\ R!ReaderInv /\ R!StreamInv /\ R!SeesWholeFrames
      /\ R!NextPublic(source) /\ ringWorker' = v /\ ringFaulted' = FALSE
      /\ ringSeen' = [ringSeen EXCEPT ![source] = f] /\ UNCHANGED <<ringSession, ringCapture>>
  BY RingParts DEF R!OnceRead
<1>2. ringCapture.phase = "idle" /\ ringWorker.stream = "none"
  BY <1>1 DEF R!ReaderInv, R!StreamInv, ReaderTypes
<1>3. /\ WorkerWhole(w) /\ w.stream = "none" /\ R!MapAfterAttach(moved) \in {ringMap, R!NoMap}
      /\ R!MapAfterAttach(moved) = R!NoMap
             \/ (R!MapAfterAttach(moved) = ringMap /\ w.life = ringWorker.life)
  BY <1>1, <1>2, RingAttachedFacts
<1> HIDE DEF w
<1>4. w.writer = "idle" /\ w.number < MaxNumber /\ w.number \in Nat
  BY <1>3, RingTypes DEF WorkerWhole, R!SlotInv, w, R!Workers
<1>5. /\ WorkerWhole(v) /\ v.number = w.number + 1 /\ v.stream = "none" /\ v.life = w.life
      /\ v.slots[R!Slot(v.number)].payload = {v.number}
  BY <1>3, <1>4, OnceFacts
<1> HIDE DEF v
<1>6. /\ v.life \in 0 .. MaxWorkers /\ v.number \in 0 .. MaxNumber
      /\ v.number \in 1 .. MaxNumber
  BY <1>4, <1>5, RingTypes, FrameBounds DEF WorkerWhole
<1>7. /\ ringCounter' \in [Sources -> 0 .. MaxPublic] /\ ringCounter'[source] \in 1 .. MaxPublic
      /\ ringCounter'[source] \in 0 .. MaxPublic
      /\ \A s \in Sources \ {source} : ringCounter'[s] = ringCounter[s]
  BY <1>1, CountedFacts
<1>8. /\ f \in R!Frames /\ f.public = ringCounter'[source] /\ f.life = v.life
      /\ f.number = v.number /\ f.payload = {v.number}
  BY <1>5, <1>6, <1>7 DEF R!Frames
<1> HIDE DEF f
<1>9. /\ ringMap' \in [1 .. MaxPublic -> 0 .. MaxNumber]
      /\ ringMap'[ringCounter'[source]] = v.number
      /\ \A n \in 1 .. MaxPublic \ {ringCounter'[source]} :
             ringMap'[n] = R!MapAfterAttach(moved)[n]
  <2>1. R!MapAfterAttach(moved) \in [1 .. MaxPublic -> 0 .. MaxNumber]
    BY <1>1, <1>3, NoMapFacts DEF ReaderTypes
  <2>2. ringMap' = [R!MapAfterAttach(moved) EXCEPT ![ringCounter'[source]] = v.number]
    BY <1>5 DEF w
  <2> QED
    BY <1>6, <1>7, <2>1, <2>2
<1>10. ReaderTypes'
  <2>1. ringSeen' \in [Sources -> R!Frames]
    BY <1>1, <1>8 DEF ReaderTypes
  <2>2. \A s \in Sources : ringSeen'[s].public <= ringCounter'[s]
    <3>1. \A s \in Sources \ {source} : ringSeen'[s] = ringSeen[s]
      BY <1>1
    <3>2. ringSeen'[source] = f
      BY <1>1 DEF ReaderTypes
    <3>3. f.public <= ringCounter'[source]
      BY <1>7, <1>8
    <3> QED
      BY <1>1, <1>7, <3>1, <3>2, <3>3, PublicFacts
  <2>3. ringFaulted' \in BOOLEAN
    BY ONLY <1>1, Zenon
  <2> QED
    BY <1>1, <1>7, <1>9, <2>1, <2>2, <2>3 DEF ReaderTypes
<1>11. R!ReaderInv' /\ R!StreamInv'
  BY <1>1, <1>2, <1>5 DEF R!ReaderInv, R!StreamInv
<1>12. R!SeesWholeFrames' /\ R!MatchedInv'
  <2>1. ringCounter[source] <= ringCounter'[source] /\ R!MatchedInv
    BY <1>1, CountedFacts, RingParts
  <2>2. \/ \A n \in 1 .. MaxPublic \ {ringCounter'[source]} : ringMap'[n] = 0
        \/ /\ \A n \in 1 .. MaxPublic \ {ringCounter'[source]} : ringMap'[n] = ringMap[n]
           /\ ringWorker'.life = ringWorker.life
    BY <1>1, <1>3, <1>5, <1>9, NoMapFacts
  <2>3. f.life = ringWorker'.life /\ (f.clean => f.payload = {f.number})
    BY <1>1, <1>8
  <2> QED
    BY <1>1, <1>7, <1>8, <1>9, <1>10, <2>1, <2>2, <2>3, SeenStep
<1> QED
  BY <1>1, <1>5, <1>10, <1>11, <1>12, RingNextParts

LEMMA OnceFailsStep ==
  ASSUME R!IInv, NEW moved \in BOOLEAN,
         ringCapture.mode = "none", R!CanAttach(moved), R!Attached(moved).number < MaxNumber,
         R!OnceFails(R!Attached(moved)),
         ringMap' = IF ringWorker'.alive THEN R!MapAfterAttach(moved) ELSE R!NoMap
  PROVE  R!IInv'
<1> DEFINE w == R!Attached(moved)
<1>1. /\ WorkerWhole(ringWorker) /\ ReaderTypes /\ R!ReaderInv /\ R!StreamInv /\ R!MatchedInv
      /\ UNCHANGED <<ringCapture, ringCounter, ringSeen>>
      /\ \/ ringWorker' \in {w, R!Skipped(w)} /\ UNCHANGED <<ringSession, ringFaulted>>
         \/ ringWorker' = R!Lost(w) /\ ringSession' \in {ringSession, FALSE}
                /\ ringFaulted' = TRUE
  BY RingParts DEF R!OnceFails
<1>2. ringCapture.phase = "idle" /\ ringWorker.stream = "none"
  BY <1>1 DEF R!ReaderInv, R!StreamInv, ReaderTypes
<1>3. /\ WorkerWhole(w) /\ w.stream = "none" /\ R!MapAfterAttach(moved) \in {ringMap, R!NoMap}
      /\ \/ w = ringWorker /\ R!MapAfterAttach(moved) = ringMap
         \/ R!MapAfterAttach(moved) = R!NoMap
  BY <1>1, <1>2, RingAttachedFacts
<1>4. w.number < MaxNumber
  OBVIOUS
<1> HIDE DEF w
<1>5. w.writer = "idle"
  BY <1>3 DEF WorkerWhole, R!SlotInv, R!Workers
<1>6. /\ WorkerWhole(R!Skipped(w)) /\ R!Skipped(w).stream = "none"
      /\ R!Skipped(w).life = w.life /\ R!Skipped(w).published = w.published
      /\ WorkerWhole(R!Lost(w)) /\ R!Lost(w).stream = "none" /\ R!Lost(w).published = 0
  BY <1>3, <1>4, <1>5, SkippedFacts, LostWorkerFacts
<1>7. WorkerWhole(ringWorker') /\ ringWorker'.stream = "none" /\ ringMap' \in {ringMap, R!NoMap}
  BY <1>1, <1>3, <1>6
<1>8. ringSession' \in BOOLEAN /\ ringFaulted' \in BOOLEAN
  <2>1. CASE UNCHANGED <<ringSession, ringFaulted>>
    BY <1>1, <2>1 DEF ReaderTypes
  <2>2. CASE ringSession' \in {ringSession, FALSE} /\ ringFaulted' = TRUE
    <3>1. CASE ringSession' = FALSE
      BY ONLY <2>2, <3>1, Zenon
    <3>2. ringFaulted' \in BOOLEAN
      BY ONLY <2>2, Zenon
    <3> QED
      BY <1>1, <2>2, <3>1, <3>2 DEF ReaderTypes
  <2> QED
    BY <1>1, <2>1, <2>2
<1>9. R!MatchedInv'
  <2>1. CASE ringMap' = R!NoMap
    BY <1>1, <2>1, MatchedKept
  <2>2. CASE w = ringWorker /\ ringMap' = ringMap
    <3>1. CASE ringWorker' \in {w, R!Skipped(w)}
      <4>1. ringWorker'.life = ringWorker.life /\ ringWorker'.published = ringWorker.published
        BY <1>6, <2>2, <3>1
      <4>2. CASE ringWorker.published = 0
        BY <1>1, <2>2, <4>1, <4>2, MatchedKept
      <4>3. CASE ringWorker.published # 0
        BY <1>1, <2>2, <4>1, <4>3, MatchedKept
      <4> QED
        BY <4>2, <4>3
    <3>2. CASE ringWorker' = R!Lost(w)
      <4>1. ~ringWorker'.alive
        BY <1>3, <3>2, LostWorkerFacts
      <4> QED
        BY <1>1, <4>1, MatchedKept
    <3> QED
      BY <1>1, <3>1, <3>2
  <2> QED
    BY <1>3, <2>1, <2>2
<1>10. R!StreamInv'
  BY <1>7 DEF R!StreamInv
<1> QED
  BY <1>1, <1>2, <1>7, <1>8, <1>9, <1>10, RingWorkerStep

LEMMA RingFrameStep ==
  ASSUME R!IInv, NEW source \in Sources, NEW moved \in BOOLEAN, R!CaptureFrame(source, moved)
  PROVE  R!IInv'
<1>1. /\ ringCapture.mode = "none" /\ R!CanAttach(moved) /\ R!Attached(moved).number < MaxNumber
      /\ \/ /\ R!OnceRead(source, R!Published(R!Attached(moved)))
            /\ ringMap' = [R!MapAfterAttach(moved) EXCEPT
                          ![ringCounter'[source]] = R!Attached(moved).number + 1]
         \/ /\ R!OnceFails(R!Attached(moved))
            /\ ringMap' = IF ringWorker'.alive THEN R!MapAfterAttach(moved) ELSE R!NoMap
  BY DEF R!CaptureFrame
<1> QED
  BY <1>1, OnceReadStep, OnceFailsStep

-------------------------------------------------------------------------------
LEMMA RingInit == R!Init => R!IInv
<1> SUFFICES ASSUME R!Init PROVE R!IInv
  OBVIOUS
<1>1. /\ ringWorker = R!Lost(R!Started(0)) /\ ringCapture = R!NoCapture
      /\ ringCounter = [s \in Sources |-> 0] /\ ringMap = R!NoMap
      /\ ringSession = FALSE /\ ringFaulted = FALSE /\ ringSeen = [s \in Sources |-> R!NoFrame]
  BY DEF R!Init
<1>2. 0 \in 0 .. MaxWorkers /\ 0 \in 0 .. MaxPublic /\ 0 \in 0 .. MaxNumber
  BY FrameBounds
<1>3. WorkerWhole(ringWorker) /\ ringWorker.stream = "none"
  BY <1>1, <1>2, NewWorkerFacts, LostWorkerFacts
<1>4. R!NoFrame \in R!Frames /\ R!NoFrame.public = 0
  BY <1>2 DEF R!NoFrame, R!Frames
<1>5. ringSession \in BOOLEAN /\ ringFaulted \in BOOLEAN
  BY ONLY <1>1, Zenon
<1>6. ringCounter \in [Sources -> 0 .. MaxPublic] /\ ringSeen \in [Sources -> R!Frames]
  BY <1>1, <1>2, <1>4
<1>7. \A s \in Sources : ringSeen[s].public = 0 /\ ringCounter[s] = 0
  BY <1>1, <1>4
<1>8. ReaderTypes
  <2>1. \A s \in Sources : ringSeen[s].public <= ringCounter[s]
    BY <1>7
  <2>2. ringCapture \in R!Captures /\ ringMap \in [1 .. MaxPublic -> 0 .. MaxNumber]
    BY <1>1, NoCaptureFacts, NoMapFacts
  <2> QED
    BY <1>5, <1>6, <2>1, <2>2 DEF ReaderTypes
<1>9. R!ReaderInv /\ R!StreamInv
  BY <1>1, <1>3, NoCaptureFacts DEF R!ReaderInv, R!StreamInv
<1>10. R!MatchedInv /\ R!SeesWholeFrames
  BY <1>7 DEF R!MatchedInv, R!SeesWholeFrames, R!IsLatest
<1> QED
  BY <1>3, <1>8, <1>9, <1>10, RingParts

\* Every step of the Worker, of the reader and of the executor keeps the invariant.
LEMMA RingStep == R!IInv /\ R!Next => R!IInv'
BY StreamWritesStep, StreamBreaksStep, CopySlotStep, CheckPublishedStep, BindFrameStep,
   FrameLateStep, AttachFailsStep, RingStopsStep, ReleaseEmergencyStep, OpenSessionStep,
   RingStartsStep, RingFrameStep DEF R!Next

LEMMA RingStutter == R!IInv /\ UNCHANGED ringVars => R!IInv'
BY DEF ringVars, R!IInv, R!TypeOK, R!ShapeInv, R!ReaderInv, R!StreamInv, R!MatchedInv, R!IsLatest,
       R!SeesWholeFrames, R!OnlyOneNumbered, R!OnlySource

\* What an input acts on: a number the Worker knows is of this Worker, and after the release.
LEMMA RingSeen == R!IInv => R!ActsOnWhatItSaw
<1> SUFFICES ASSUME R!IInv, NEW s \in Sources, R!Accepts(s)
             PROVE  /\ R!RuntimeNumber(s) > ringWorker.released
                    /\ (/\ R!OnlyOneNumbered(s)
                        /\ ringSeen[s].late =>
                               ringWorker.published # 0 /\ R!OnlySource(s)) =>
                           /\ ringSeen[s].life = ringWorker.life
                           /\ ringSeen[s].number = R!RuntimeNumber(s)
  BY RingParts DEF R!ActsOnWhatItSaw, R!ActsOnSeenFrame
<1>1. /\ WorkerWhole(ringWorker) /\ ReaderTypes /\ R!MatchedInv /\ R!IsLatest(s)
      /\ ringMap[ringCounter[s]] \in ringWorker.window
  BY RingParts DEF R!Accepts, R!Knows, R!RuntimeNumber
<1>2. /\ ringWorker.released \in Nat /\ ringWorker.number \in Nat
      /\ ringWorker.window \subseteq (ringWorker.released + 1) .. ringWorker.number
  BY <1>1, RingTypes DEF WorkerWhole, R!WindowInv
<1>3. /\ ringMap[ringCounter[s]] > ringWorker.released /\ ringMap[ringCounter[s]] # 0
      /\ ringWorker.number # 0
  BY <1>1, <1>2
<1> QED
  BY <1>1, <1>3 DEF R!MatchedInv, R!RuntimeNumber

================================================================================
