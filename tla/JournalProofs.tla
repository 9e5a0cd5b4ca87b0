---------------------------- MODULE JournalProofs ----------------------------
(***************************************************************************)
(* What is proved of the journal besides TaskAttemptProofs: its answers,   *)
(* its ledgers and its slots.  Every theorem states the ways to append, to *)
(* release and to crash that the runs of its property have; what the       *)
(* others do to the property is in the README.                             *)
(***************************************************************************)
EXTENDS TaskAttemptProofs, FiniteSetTheorems

------------------------------------------------------------------------------
(***************************************************************************)
(* What a handler makes of a record, for the properties of the answers and *)
(* the ledgers                                                             *)
(***************************************************************************)
\* n is r with a new state, and with at most the result of its current command added.
Updates(r, n) ==
    /\ n \in AttemptRecords
    /\ n.att = r.att
    /\ r.astate = "Terminal" => n.astate = "Terminal"
    /\ \A c \in CommandIds : HasResult(r, c) \/ c # n.last => n.results[c] = r.results[c]
    /\ WellKept(r) => WellKept(n)

\* The command that is new in n has a slot in the journal of r.
Grants(r, n) ==
    WellKept(r) /\ Roomy(r) =>
        HasResult(r, n.last) \/ Cardinality(Recorded(r)) < Slots(KindOf[n.pay])

\* All that the invariants ask of an update; r stays fit where input can be released.
Progress(r, n) ==
    /\ Updates(r, n)
    /\ Grants(r, n)
    /\ ReleaseResults \subseteq {TRUE} /\ FitInv /\ Fit(r) => Fit(n)

\* Every kind has at least the slots of business commands.
LEMMA SlotsBound ==
    ASSUME NEW kind
    PROVE  Slots(kind) \in Nat /\ BusinessLimit <= Slots(kind)
  BY LimitsAssumption DEF Slots, CapacityFor, InspectCapacity

\* A change of the states alone is an update.
LEMMA TouchUpdates ==
    ASSUME NEW r \in AttemptRecords, NEW n \in AttemptRecords, n.att = r.att,
           n.last = r.last, n.pay = r.pay, n.outcome = r.outcome, n.results = r.results,
           r.astate = "Terminal" => n.astate = "Terminal"
    PROVE  Updates(r, n) /\ Grants(r, n)
  BY DEF Updates, Grants, WellKept, HasResult, Roomy

\* So is the record of an intent, if there is a slot for it.
LEMMA IntentUpdates ==
    ASSUME NEW r \in AttemptRecords, NEW n \in AttemptRecords, n.att = r.att,
           n.outcome = Unspecified, n.results = r.results, ~HasResult(r, n.last),
           r.astate = "Terminal" => n.astate = "Terminal",
           WellKept(r) /\ Roomy(r) => Cardinality(Recorded(r)) < Slots(KindOf[n.pay])
    PROVE  Updates(r, n) /\ Grants(r, n)
  BY DEF Updates, Grants, WellKept, HasResult

\* And so is an outcome that is stored for a command without one.
LEMMA StoreUpdates ==
    ASSUME NEW r \in AttemptRecords, NEW n \in AttemptRecords, n.att = r.att,
           n.outcome \in Outcomes, n.results = r.results, ~HasResult(r, n.last),
           r.astate = "Terminal" => n.astate = "Terminal",
           WellKept(r) /\ Roomy(r) => Cardinality(Recorded(r)) < Slots(KindOf[n.pay])
    PROVE  /\ Updates(r, StoreCurrentResult(n)) /\ Grants(r, StoreCurrentResult(n))
           /\ Told(StoreCurrentResult(n), n.last, n.outcome)
<1> DEFINE m == StoreCurrentResult(n)
<1>1. /\ m \in AttemptRecords /\ m.att = n.att /\ m.astate = n.astate
      /\ m.last = n.last /\ m.outcome = n.outcome
      /\ \A c \in CommandIds :
            m.results[c] = IF c = n.last THEN CurrentResult(n) ELSE n.results[c]
      /\ CurrentResult(n) \in StoredResults /\ CurrentResult(n).outcome = n.outcome
  BY StoreFacts
<1>2. m.pay = n.pay
  BY DEF StoreCurrentResult, AttemptRecords
<1>3. n.last \in CommandIds /\ CurrentResult(n).pay = n.pay
  BY DEF AttemptRecords, CurrentResult
<1> HIDE DEF m
<1>4. m.results[m.last] = CurrentResult(n) /\ CurrentResult(n) # NoResult
  BY <1>1, <1>3, SentinelAssumption
<1>5. WellKept(m) /\ Told(m, n.last, n.outcome)
  BY <1>1, <1>2, <1>3, <1>4 DEF WellKept, Told, HasResult, Outcomes, Unspecified
<1>6. Updates(r, m)
  BY <1>1, <1>5 DEF Updates, HasResult
<1>7. Grants(r, m)
  BY <1>1, <1>2 DEF Grants
<1> QED
  BY <1>5, <1>6, <1>7 DEF m

\* Storing a result leaves a record as fit as it was.
LEMMA StoreFit ==
    ASSUME NEW n \in AttemptRecords, n.outcome \in Outcomes
    PROVE  Fit(StoreCurrentResult(n)) <=> Fit(n)
<1>1. PICK results : StoreCurrentResult(n) = [n EXCEPT !.results = results]
  BY DEF StoreCurrentResult, AttemptRecords
<1> QED
  BY <1>1 DEF AttemptRecords, Fit, CleanupSound, CleanupDue, LocalResourcesReleased, Unresolved

\* payload_digest_conflict
LEMMA ConflictProgress ==
    ASSUME NEW r \in AttemptRecords
    PROVE  Progress(r, ConflictRecord(r)) /\ ConflictRecord(r).astate = r.astate
<1> DEFINE n == ConflictRecord(r)
<1>1. /\ n \in AttemptRecords /\ n.att = r.att /\ n.last = r.last /\ n.pay = r.pay
      /\ n.outcome = r.outcome /\ n.results = r.results /\ n.astate = r.astate
      /\ n.side = "Uncertain" /\ n.cleanup = FALSE /\ n.target = r.target /\ n.owned = r.owned
  BY DEF ConflictRecord, AttemptRecords, SideEffectStates
<1> HIDE DEF n
<1>2. Fit(r) => Fit(n)
  BY <1>1 DEF Fit, CleanupSound, CleanupDue, Unresolved
<1> QED
  BY <1>1, <1>2, TouchUpdates DEF Progress, n

\* mark_active_side_effect_uncertain
LEMMA UncertainProgress ==
    ASSUME NEW r \in AttemptRecords, NEW released \in BOOLEAN
    PROVE  Progress(r, UncertainRecord(r, released))
<1> DEFINE n == UncertainRecord(r, released)
<1>1. /\ n \in AttemptRecords /\ n.att = r.att /\ n.last = r.last /\ n.pay = r.pay
      /\ n.outcome = r.outcome /\ n.results = r.results /\ n.astate = r.astate
      /\ n.side = "Uncertain" /\ n.cleanup = FALSE /\ n.target = r.target /\ n.owned = r.owned
  BY DEF UncertainRecord, AttemptRecords, SideEffectStates, InputStates
<1> HIDE DEF n
<1>2. Fit(r) => Fit(n)
  BY <1>1 DEF Fit, CleanupSound, CleanupDue, Unresolved
<1> QED
  BY <1>1, <1>2, TouchUpdates DEF Progress, n

\* mark_input_released, of an attempt that is not over
LEMMA InputReleasedProgress ==
    ASSUME NEW r \in AttemptRecords,
           ReleaseResults \subseteq {TRUE} /\ FitInv => r.astate # "Terminal"
    PROVE  Progress(r, InputReleasedRecord(r))
<1> DEFINE n == InputReleasedRecord(r)
<1>1. /\ n \in AttemptRecords /\ n.att = r.att /\ n.last = r.last /\ n.pay = r.pay
      /\ n.outcome = r.outcome /\ n.results = r.results /\ n.astate = r.astate
      /\ n.cleanup = FALSE /\ n.target = r.target /\ n.owned = r.owned
  BY DEF InputReleasedRecord, AttemptRecords, InputStates
<1> HIDE DEF n
<1>2. Fit(r) /\ r.astate # "Terminal" => Fit(n)
  BY <1>1 DEF Fit, CleanupSound, CleanupDue, LocalResourcesReleased
<1> QED
  BY <1>1, <1>2, TouchUpdates DEF Progress, n

\* emergency_finish
LEMMA FinishedFit ==
    ASSUME NEW r \in AttemptRecords,
           NEW released \in BOOLEAN, NEW stopped \in BOOLEAN, NEW running \in BOOLEAN
    PROVE  /\ Updates(r, FinishedRecord(r, released, stopped, running))
           /\ Grants(r, FinishedRecord(r, released, stopped, running))
           /\ FinishedRecord(r, released, stopped, running).pay = r.pay
           /\ released => Fit(FinishedRecord(r, released, stopped, running))
<1> DEFINE f == FinishedRecord(r, released, stopped, running)
           input == IF released THEN "Released" ELSE "Unknown"
           capture == IF stopped THEN "Stopped" ELSE "Unknown"
           target == IF running THEN "Running" ELSE "NotStarted"
           cleanup == released /\ stopped /\ ~Unresolved(r)
           n == [r EXCEPT !.astate = "Terminal", !.input = input, !.capture = capture,
                          !.target = target, !.owned = FALSE, !.cleanup = cleanup]
<1>1. f = n
  BY DEF FinishedRecord
<1>2. /\ input \in InputStates /\ capture \in CaptureStates /\ target \in OwnedTargetStates
      /\ cleanup \in BOOLEAN
  BY DEF InputStates, CaptureStates, OwnedTargetStates
<1>3. /\ input = "Released" <=> released
      /\ capture \in {"NotStarted", "Stopped"} <=> stopped
  OBVIOUS
<1>4. cleanup = (released /\ stopped /\ r.side \notin {"IntentRecorded", "Uncertain"})
  BY DEF Unresolved
<1> HIDE DEF input, capture, target, cleanup
<1>5. /\ n \in AttemptRecords /\ n.att = r.att /\ n.last = r.last /\ n.pay = r.pay
      /\ n.outcome = r.outcome /\ n.results = r.results /\ n.astate = "Terminal"
      /\ n.side = r.side /\ n.input = input /\ n.capture = capture /\ n.target = target
      /\ n.owned = FALSE /\ n.cleanup = cleanup
  BY <1>2 DEF AttemptRecords, AttemptStates
<1> HIDE DEF n, f
<1>6. released => Fit(n)
  BY <1>2, <1>3, <1>4, <1>5
  DEF Fit, CleanupSound, CleanupDue, LocalResourcesReleased, Unresolved, OwnedTargetStates
<1>7. Updates(r, n) /\ Grants(r, n)
  BY <1>5, TouchUpdates
<1> QED
  BY <1>1, <1>5, <1>6, <1>7 DEF f

\* inspect, reject and prepare_inner change the current command and its outcome.
LEMMA RecordFacts ==
    ASSUME NEW r \in AttemptRecords, NEW q \in Requests,
           NEW outcome \in Outcomes \cup {Unspecified}
    PROVE  LET n == [RecordCommand(r, q.id, q.pay) EXCEPT !.outcome = outcome]
           IN  /\ n \in AttemptRecords /\ n.att = r.att /\ n.astate = r.astate
               /\ n.results = r.results /\ n.last = q.id /\ n.pay = q.pay
               /\ n.outcome = outcome /\ n.side = r.side
               /\ Fit(r) => Fit(n)
<1> DEFINE n == [RecordCommand(r, q.id, q.pay) EXCEPT !.outcome = outcome]
<1>1. /\ n \in AttemptRecords /\ n.att = r.att /\ n.astate = r.astate
      /\ n.results = r.results /\ n.last = q.id /\ n.pay = q.pay
      /\ n.outcome = outcome /\ n.side = r.side /\ n.input = r.input
      /\ n.capture = r.capture /\ n.target = r.target /\ n.owned = r.owned
      /\ n.cleanup = r.cleanup
  BY DEF RecordCommand, Requests, AttemptRecords
<1> HIDE DEF n
<1>2. Fit(r) => Fit(n)
  BY <1>1 DEF Fit, CleanupSound, CleanupDue, LocalResourcesReleased, Unresolved
<1> QED
  BY <1>1, <1>2 DEF n

\* An outcome that is recorded and stored for a command without one.
LEMMA StoredProgress ==
    ASSUME NEW r \in AttemptRecords, NEW q \in Requests, NEW outcome \in Outcomes,
           ~HasResult(r, q.id),
           WellKept(r) /\ Roomy(r) => Cardinality(Recorded(r)) < Slots(Kind(q))
    PROVE  LET n == StoreCurrentResult(
                        [RecordCommand(r, q.id, q.pay) EXCEPT !.outcome = outcome])
           IN  Progress(r, n) /\ Told(n, q.id, outcome) /\ n.astate = r.astate
<1> DEFINE n == [RecordCommand(r, q.id, q.pay) EXCEPT !.outcome = outcome]
<1>1. /\ n \in AttemptRecords /\ n.att = r.att /\ n.astate = r.astate
      /\ n.results = r.results /\ n.last = q.id /\ n.pay = q.pay /\ n.outcome = outcome
      /\ Fit(r) => Fit(n)
  BY RecordFacts
<1> HIDE DEF n
<1>2. /\ Updates(r, StoreCurrentResult(n)) /\ Grants(r, StoreCurrentResult(n))
      /\ Told(StoreCurrentResult(n), q.id, outcome)
  BY <1>1, StoreUpdates DEF Kind
<1>3. (Fit(r) => Fit(StoreCurrentResult(n))) /\ StoreCurrentResult(n).astate = r.astate
  BY <1>1, StoreFit, StoreFacts
<1> QED
  BY <1>2, <1>3 DEF Progress, n

\* What record_command has checked is a slot for the command.
LEMMA SlotFound ==
    ASSUME NEW r, NEW c, NEW limit, NEW kind, CanRecord(r, c, limit), ~HasResult(r, c),
           limit = BusinessLimit \/ limit = Slots(kind), Roomy(r)
    PROVE  Cardinality(Recorded(r)) < Slots(kind)
<1>1. Cardinality(Recorded(r)) \in Nat
  BY FS_CardinalityType DEF Roomy
<1>2. Cardinality(Recorded(r)) < limit
  BY DEF CanRecord
<1> QED
  BY <1>1, <1>2, SlotsBound, LimitsAssumption

\* inspect
LEMMA InspectedProgress ==
    ASSUME NEW r \in AttemptRecords, NEW q \in Requests, Kind(q) = "inspect",
           ~HasResult(r, q.id), CanRecord(r, q.id, InspectCapacity)
    PROVE  /\ Progress(r, InspectedRecord(r, q))
           /\ InspectedRecord(r, q).astate = r.astate
<1>1. "Applied" \in Outcomes /\ InspectCapacity = Slots(Kind(q))
  BY DEF Outcomes, Slots
<1>2. Roomy(r) => Cardinality(Recorded(r)) < Slots(Kind(q))
  BY <1>1, SlotFound
<1> QED
  BY <1>1, <1>2, StoredProgress DEF InspectedRecord

\* reject
LEMMA RejectedProgress ==
    ASSUME NEW r \in AttemptRecords, NEW q \in Requests,
           ~HasResult(r, q.id), CanRecord(r, q.id, BusinessLimit)
    PROVE  Progress(r, RejectedRecord(r, q)) /\ Told(RejectedRecord(r, q), q.id, "NotApplied")
<1>1. "NotApplied" \in Outcomes
  BY DEF Outcomes
<1>2. Roomy(r) => Cardinality(Recorded(r)) < Slots(Kind(q))
  BY SlotFound
<1> QED
  BY <1>1, <1>2, StoredProgress DEF RejectedRecord

\* prepare_inner: an attempt that is over is given no side effect.
LEMMA IntentProgress ==
    ASSUME NEW r \in AttemptRecords, NEW q \in Requests, New(r, q),
           Kind(q) \in SideEffectKinds => r.astate # "Terminal",
           WellKept(r) /\ Roomy(r) => Cardinality(Recorded(r)) < Slots(Kind(q))
    PROVE  Progress(r, IntentRecord(r, q))
<1> DEFINE m == [RecordCommand(r, q.id, q.pay) EXCEPT !.outcome = Unspecified]
           n == IntentRecord(r, q)
<1>1. /\ m \in AttemptRecords /\ m.att = r.att /\ m.astate = r.astate
      /\ m.results = r.results /\ m.last = q.id /\ m.pay = q.pay
      /\ m.outcome = Unspecified /\ m.side = r.side
      /\ Fit(r) => Fit(m)
  BY RecordFacts
<1>2. n = IF Kind(q) \in SideEffectKinds THEN [m EXCEPT !.side = "IntentRecorded"] ELSE m
  BY DEF IntentRecord
<1> HIDE DEF m, n
<1>3. /\ n \in AttemptRecords /\ n.att = r.att /\ n.astate = r.astate
      /\ n.results = r.results /\ n.last = q.id /\ n.pay = q.pay /\ n.outcome = Unspecified
  BY <1>1, <1>2 DEF AttemptRecords, SideEffectStates
<1>4. Fit(r) => Fit(n)
  <2>1. CASE Kind(q) \in SideEffectKinds
    <3>1. n = [m EXCEPT !.side = "IntentRecorded"] /\ m.astate # "Terminal"
      BY <1>1, <1>2, <2>1
    <3>2. Fit(m) => Fit(n)
      BY <1>1, <3>1
      DEF Fit, CleanupSound, CleanupDue, LocalResourcesReleased, AttemptRecords
    <3> QED
      BY <1>1, <3>2
  <2>2. CASE Kind(q) \notin SideEffectKinds
    BY <1>1, <1>2, <2>2
  <2> QED
    BY <2>1, <2>2
<1>5. Updates(r, n) /\ Grants(r, n)
  BY <1>3, IntentUpdates DEF New, Kind
<1> QED
  BY <1>4, <1>5 DEF Progress, n

\* A command that has an outcome and no result yet has kept its slot.
LEMMA SlotKept ==
    ASSUME NEW r, NEW n, ~HasResult(r, r.last), n.pay = r.pay, WellKept(r), Roomy(r)
    PROVE  Cardinality(Recorded(r)) < Slots(KindOf[n.pay])
  BY DEF WellKept, Roomy

\* prepare_inner, for a command that was interrupted
LEMMA InterruptedProgress ==
    ASSUME NEW r \in AttemptRecords, NEW q \in Requests, Interrupted(r, q)
    PROVE  /\ Progress(r, InterruptedRecord(r, q))
           /\ Told(InterruptedRecord(r, q), q.id, InterruptedRecord(r, q).outcome)
           /\ InterruptedRecord(r, q).outcome \in Outcomes
<1> DEFINE n == IF Kind(q) \in SideEffectKinds /\ r.side = "IntentRecorded"
                THEN [r EXCEPT !.side = "Uncertain", !.outcome = "Uncertain"]
                ELSE [r EXCEPT !.outcome = "NotApplied"]
<1>1. /\ n \in AttemptRecords /\ n.att = r.att /\ n.astate = r.astate
      /\ n.results = r.results /\ n.last = r.last /\ n.pay = r.pay
      /\ n.outcome \in Outcomes
      /\ n.side = r.side \/ (r.side = "IntentRecorded" /\ n.side = "Uncertain")
      /\ n.input = r.input /\ n.capture = r.capture /\ n.target = r.target
      /\ n.owned = r.owned /\ n.cleanup = r.cleanup
  <2>1. CASE Kind(q) \in SideEffectKinds /\ r.side = "IntentRecorded"
    <3>1. n = [r EXCEPT !.side = "Uncertain", !.outcome = "Uncertain"]
      BY <2>1
    <3> HIDE DEF n
    <3> QED
      BY <2>1, <3>1 DEF AttemptRecords, SideEffectStates, Outcomes
  <2>2. CASE ~(Kind(q) \in SideEffectKinds /\ r.side = "IntentRecorded")
    <3>1. n = [r EXCEPT !.outcome = "NotApplied"]
      BY <2>2
    <3> HIDE DEF n
    <3> QED
      BY <3>1 DEF AttemptRecords, Outcomes
  <2> QED
    BY <2>1, <2>2
<1>2. InterruptedRecord(r, q) = StoreCurrentResult(n)
  BY DEF InterruptedRecord
<1> HIDE DEF n
<1>3. Fit(r) => Fit(n)
  BY <1>1 DEF Fit, CleanupSound, CleanupDue, LocalResourcesReleased, Unresolved
<1>4. ~HasResult(r, r.last) /\ r.last = q.id
  BY DEF Interrupted
<1>5. WellKept(r) /\ Roomy(r) => Cardinality(Recorded(r)) < Slots(KindOf[n.pay])
  BY <1>1, <1>4, SlotKept
<1>6. /\ Updates(r, StoreCurrentResult(n)) /\ Grants(r, StoreCurrentResult(n))
      /\ Told(StoreCurrentResult(n), n.last, n.outcome)
  <2>1. ~HasResult(r, n.last)
    BY <1>1, <1>4
  <2> QED
    BY <1>1, <1>5, <2>1, StoreUpdates
<1>7. (Fit(r) => Fit(StoreCurrentResult(n))) /\ StoreCurrentResult(n).outcome = n.outcome
  BY <1>1, <1>3, StoreFit, StoreFacts
<1> QED
  BY <1>1, <1>2, <1>4, <1>6, <1>7 DEF Progress

\* complete, for every kind of command
LEMMA ResolvedProgress ==
    ASSUME NEW r \in AttemptRecords, NEW n, Settles(r, n), n.pay = r.pay,
           r.astate = "Terminal" => n.astate = "Terminal", ~HasResult(r, r.last),
           ReleaseResults \subseteq {TRUE} /\ FitInv /\ Fit(r) => Fit(n)
    PROVE  Progress(r, StoreCurrentResult(n)) /\ Told(StoreCurrentResult(n), r.last, n.outcome)
<1>1. /\ n \in AttemptRecords /\ n.att = r.att /\ n.outcome \in Outcomes
      /\ n.last = r.last /\ n.results = r.results /\ ~HasResult(r, n.last)
  BY DEF Settles
<1>2. WellKept(r) /\ Roomy(r) => Cardinality(Recorded(r)) < Slots(KindOf[n.pay])
  BY SlotKept
<1>3. /\ Updates(r, StoreCurrentResult(n)) /\ Grants(r, StoreCurrentResult(n))
      /\ Told(StoreCurrentResult(n), n.last, n.outcome)
  BY <1>1, <1>2, StoreUpdates
<1> QED
  BY <1>1, <1>3, StoreFit DEF Progress

\* A running attempt that ends neither its clean-up nor itself stays fit.
LEMMA RunningFit ==
    ASSUME NEW r \in AttemptRecords, NEW n \in AttemptRecords,
           r.astate # "Terminal", n.astate # "Terminal", n.cleanup = r.cleanup,
           \/ n.owned = TRUE /\ n.target = "Running"
           \/ n.owned = FALSE /\ n.target # "Running"
           \/ n.owned = r.owned /\ n.target = r.target,
           Fit(r)
    PROVE  Fit(n)
  BY DEF Fit, CleanupSound, CleanupDue, LocalResourcesReleased, AttemptRecords

\* complete_target_start
LEMMA StartedFit ==
    ASSUME NEW r \in AttemptRecords, NEW ok \in BOOLEAN, r.astate # "Terminal"
    PROVE  LET n == StartedRecord(r, ok)
           IN  n.pay = r.pay /\ (Fit(r) => Fit(n))
<1> DEFINE n == StartedRecord(r, ok)
<1>1. /\ n \in AttemptRecords /\ n.astate # "Terminal" /\ n.cleanup = r.cleanup
      /\ n.pay = r.pay
      /\ \/ n.owned = TRUE /\ n.target = "Running"
         \/ n.owned = FALSE /\ n.target # "Running"
  <2>1. CASE ok
    <3>1. n = [[r EXCEPT !.outcome = "Applied", !.side = "Applied"] EXCEPT
                  !.owned = TRUE, !.target = "Running", !.astate = "TargetReady"]
      BY <2>1 DEF StartedRecord, EffectResolved
    <3> HIDE DEF n
    <3> QED
      BY <3>1 DEF AttemptRecords, Outcomes, SideEffectStates, OwnedTargetStates, AttemptStates
  <2>2. CASE ~ok
    <3>1. n = [[r EXCEPT !.outcome = "NotApplied", !.side = "NotApplied"] EXCEPT
                  !.owned = FALSE, !.target = "NotStarted"]
      BY <2>2 DEF StartedRecord, EffectResolved
    <3> HIDE DEF n
    <3> QED
      BY <3>1 DEF AttemptRecords, Outcomes, SideEffectStates, OwnedTargetStates
  <2> QED
    BY <2>1, <2>2
<1> HIDE DEF n
<1>2. Fit(r) => Fit(n)
  BY <1>1, RunningFit
<1> QED
  BY <1>1, <1>2 DEF n

\* complete_input_frame
LEMMA FrameFit ==
    ASSUME NEW r \in AttemptRecords, NEW outcome \in Outcomes, NEW holds \in BOOLEAN,
           r.astate # "Terminal"
    PROVE  LET n == FrameRecord(r, outcome, holds)
           IN  n.pay = r.pay /\ (Fit(r) => Fit(n))
<1> DEFINE input == CASE outcome = "Uncertain"        -> "Unknown"
                      [] outcome = "Applied" /\ holds -> "Active"
                      [] OTHER                        -> "Released"
           n == [[r EXCEPT !.outcome = outcome, !.side = outcome] EXCEPT !.input = input]
<1>1. input \in InputStates
  BY DEF Outcomes, InputStates
<1>2. FrameRecord(r, outcome, holds) = n
  BY DEF FrameRecord, EffectResolved
<1> HIDE DEF input
<1>3. /\ n \in AttemptRecords /\ n.astate # "Terminal" /\ n.cleanup = r.cleanup
      /\ n.pay = r.pay /\ n.owned = r.owned /\ n.target = r.target
  BY <1>1 DEF AttemptRecords, Outcomes, SideEffectStates
<1> HIDE DEF n
<1>4. Fit(r) => Fit(n)
  BY <1>3, RunningFit
<1> QED
  BY <1>2, <1>3, <1>4

\* complete_capture
LEMMA CaptureFit ==
    ASSUME NEW r \in AttemptRecords, NEW running \in BOOLEAN, NEW ok \in BOOLEAN,
           r.astate # "Terminal"
    PROVE  LET n == CaptureRecord(r, running, ok)
           IN  n.pay = r.pay /\ (Fit(r) => Fit(n))
<1> DEFINE n == CaptureRecord(r, running, ok)
<1>1. /\ n \in AttemptRecords /\ n.astate # "Terminal" /\ n.cleanup = r.cleanup
      /\ n.pay = r.pay /\ n.owned = r.owned /\ n.target = r.target
  BY DEF CaptureRecord, Resolved, AttemptRecords, Outcomes, CaptureStates, AttemptStates
<1> HIDE DEF n
<1>2. Fit(r) => Fit(n)
  BY <1>1, RunningFit
<1> QED
  BY <1>1, <1>2 DEF n

\* complete_captured_frame
LEMMA CapturedFrameFit ==
    ASSUME NEW r \in AttemptRecords, NEW ok \in BOOLEAN, r.astate # "Terminal"
    PROVE  LET n == CapturedFrameRecord(r, ok)
           IN  n.pay = r.pay /\ (Fit(r) => Fit(n))
<1> DEFINE n == CapturedFrameRecord(r, ok)
<1>1. /\ n \in AttemptRecords /\ n.astate # "Terminal" /\ n.cleanup = r.cleanup
      /\ n.pay = r.pay /\ n.owned = r.owned /\ n.target = r.target
  BY DEF CapturedFrameRecord, Resolved, AttemptRecords, Outcomes, CaptureStates, AttemptStates
<1> HIDE DEF n
<1>2. Fit(r) => Fit(n)
  BY <1>1, RunningFit
<1> QED
  BY <1>1, <1>2 DEF n

\* complete_release, of a running attempt or with the input released
LEMMA ReleasedFit ==
    ASSUME NEW r \in AttemptRecords, NEW released \in BOOLEAN,
           released \/ r.astate # "Terminal", Fit(r)
    PROVE  Fit(ReleasedRecord(r, released))
<1> DEFINE outcome == IF released THEN "Applied" ELSE "NotApplied"
           input == IF released THEN "Released" ELSE "Unknown"
           n == [[r EXCEPT !.outcome = outcome] EXCEPT !.input = input]
<1>1. outcome \in Outcomes /\ input \in InputStates /\ (released => input = "Released")
  BY DEF Outcomes, InputStates
<1>2. ReleasedRecord(r, released) = n
  BY DEF ReleasedRecord, Resolved
<1> HIDE DEF outcome, input
<1>3. /\ n \in AttemptRecords /\ n.astate = r.astate /\ n.cleanup = r.cleanup
      /\ n.owned = r.owned /\ n.target = r.target
      /\ n.capture = r.capture /\ n.side = r.side /\ n.input = input
  BY <1>1 DEF AttemptRecords
<1> HIDE DEF n
<1>4. CASE r.astate # "Terminal"
  BY <1>2, <1>3, <1>4, RunningFit
<1>5. CASE r.astate = "Terminal" /\ input = "Released"
  BY <1>2, <1>3, <1>5 DEF Fit, CleanupSound, CleanupDue, LocalResourcesReleased, Unresolved
<1> QED
  BY <1>1, <1>4, <1>5

\* complete_finish, with the input released
LEMMA CompletedFinishFit ==
    ASSUME NEW r \in AttemptRecords,
           NEW released \in BOOLEAN, NEW stopped \in BOOLEAN, NEW running \in BOOLEAN
    PROVE  LET n == CompletedFinishRecord(r, released, stopped, running)
           IN  n.pay = r.pay /\ (released => Fit(n))
<1> DEFINE f == FinishedRecord(r, released, stopped, running)
           outcome == IF f.cleanup THEN "Applied" ELSE "Uncertain"
           n == [f EXCEPT !.outcome = outcome]
<1>1. f \in AttemptRecords /\ f.pay = r.pay /\ (released => Fit(f))
  <2>1. f \in AttemptRecords
    BY FinishedKeeps DEF Keeps
  <2> QED
    BY <2>1, FinishedFit
<1>2. outcome \in Outcomes
  BY DEF Outcomes
<1>3. CompletedFinishRecord(r, released, stopped, running) = n
  BY DEF CompletedFinishRecord, Resolved
<1> HIDE DEF f, outcome
<1>4. n.pay = f.pay /\ (Fit(f) => Fit(n))
  BY <1>1, <1>2
  DEF AttemptRecords, Fit, CleanupSound, CleanupDue, LocalResourcesReleased, Unresolved
<1> QED
  BY <1>1, <1>3, <1>4

(***************************************************************************)
(* What a step makes of memory and ledgers                                 *)
(***************************************************************************)
AppendModes == PersistModes \cup FinishModes

\* The active attempt is updated and appended, or left as it was by a failed append.
UpdatesActive(n, mode) ==
    /\ LoadsActive /\ loaded' = TRUE
    /\ ActiveLoaded # NoAttempt
    /\ Progress(ActiveLoaded, n)
    /\ Persist(n, mode)
    /\ mem' = n \/ (mode # "ok" /\ mem' = ActiveLoaded)

\* The ledger of an attempt is updated while none is in memory.
UpdatesNamed(a, n, mode) ==
    /\ loaded /\ loaded' = TRUE
    /\ mem = NoAttempt
    /\ Loads(ledger[a])
    /\ Progress(ledger[a], n)
    /\ Persist(n, mode)
    /\ \/ mem' = n
       \/ /\ mem' = NoAttempt
          /\ LocalResourcesReleased(ledger[a]) => LocalResourcesReleased(n)

\* A new attempt takes the place of one that is over.
Claims(q, mode) ==
    /\ loaded /\ loaded' = TRUE
    /\ Claimable(q.att)
    /\ mem # NoAttempt => LocalResourcesReleased(mem)
    /\ Persist(Claimed(q.att, q.id, q.pay), mode)
    /\ mem' = IF mode = "ok" THEN Claimed(q.att, q.id, q.pay) ELSE NoAttempt

\* Nothing, a load, a failed load, an update, a claim, or a crash.
Advances ==
    \/ mem' = mem /\ loaded' = loaded /\ ledger' = ledger
    \/ LoadsActive /\ loaded' = TRUE /\ mem' = ActiveLoaded /\ ledger' = ledger
    \/ LoadFails /\ ledger' = ledger
    \/ \E n \in AttemptRecords, mode \in AppendModes : UpdatesActive(n, mode)
    \/ \E a \in Attempts, n \in AttemptRecords, mode \in AppendModes : UpdatesNamed(a, n, mode)
    \/ \E q \in Requests, mode \in AppendModes : Claims(q, mode)
    \/ Crash

\* A record that is kept in memory and appended is an update of the active attempt.
LEMMA RecordAdvances ==
    ASSUME IInv, loaded, mem # NoAttempt, NEW n, Progress(mem, n),
           NEW mode \in AppendModes, Record(n, mode)
    PROVE  Advances
<1>1. LoadsActive /\ ActiveLoaded = mem /\ loaded = TRUE
  BY DEF LoadsActive, ActiveLoaded, IInv, TypeOK
<1>2. n \in AttemptRecords
  BY DEF Progress, Updates
<1>3. UpdatesActive(n, mode)
  BY <1>1 DEF UpdatesActive, Record
<1> QED
  BY <1>2, <1>3 DEF Advances

\* The commands that are answered from the journal, or that only add to it.
LEMMA CommandsAdvance ==
    ASSUME IInv, NEW q \in Requests, NEW mode \in PersistModes, Commands(q, mode)
    PROVE  Advances
<1>1. /\ mode \in AppendModes /\ (session => loaded)
      /\ mem # NoAttempt => mem \in AttemptRecords
  BY DEF AppendModes, IInv, LinkInv, TypeOK
<1>2. CASE DigestConflict(q, mode)
  BY <1>1, <1>2, ConflictProgress, RecordAdvances DEF DigestConflict, Accepts
<1>3. CASE Replay(q) \/ BeginAgain(q) \/ ResumeRecovery(q)
  BY <1>3 DEF Advances, Replay, BeginAgain, ResumeRecovery, memory
<1>4. CASE Begin(q, mode)
  <2>1. loaded = TRUE
    BY <1>4 DEF Begin, IInv, LinkInv, TypeOK
  <2>2. Claims(q, mode)
    BY <1>4, <2>1 DEF Begin, Claims
  <2> QED
    BY <1>1, <2>2 DEF Advances
<1>5. CASE Inspect(q, mode)
  BY <1>1, <1>5, InspectedProgress, RecordAdvances DEF Inspect, Accepts
<1>6. CASE InspectNamed(q, mode)
  <2> DEFINE r == ledger[q.att]
  <2>1. /\ q.att \in Attempts /\ r \in AttemptRecords /\ loaded = TRUE /\ mem = NoAttempt
        /\ Loads(r)
    BY <1>6 DEF InspectNamed, Requests, IInv, LinkInv, TypeOK, Ledgers, Loads
  <2>2. CASE Record(ConflictRecord(r), mode)
    <3>1. Progress(r, ConflictRecord(r))
      BY <2>1, ConflictProgress
    <3>2. UpdatesNamed(q.att, ConflictRecord(r), mode)
      BY <2>1, <2>2, <3>1 DEF UpdatesNamed, Record
    <3> QED
      BY <1>1, <2>1, <3>1, <3>2 DEF Advances, Progress, Updates
  <2>3. CASE /\ ~HasResult(r, q.id) /\ CanRecord(r, q.id, InspectCapacity)
             /\ Persist(InspectedRecord(r, q), mode) /\ UNCHANGED memory
    <3> DEFINE n == InspectedRecord(r, q)
    <3>1. Progress(r, n)
      BY <1>6, <2>1, <2>3, InspectedProgress DEF InspectNamed
    <3>2. LocalResourcesReleased(r) => LocalResourcesReleased(n)
      <4>1. "Applied" \in Outcomes
        BY DEF Outcomes
      <4> DEFINE m == [RecordCommand(r, q.id, q.pay) EXCEPT !.outcome = "Applied"]
      <4>2. /\ m.astate = r.astate /\ m.input = r.input /\ m.capture = r.capture
            /\ m.target = r.target /\ m \in AttemptRecords
        BY <2>1, <4>1 DEF RecordCommand, Requests, AttemptRecords
      <4>3. n = StoreCurrentResult(m)
        BY DEF InspectedRecord
      <4> HIDE DEF m, n, r
      <4>4. /\ n.astate = m.astate /\ n.input = m.input /\ n.capture = m.capture
            /\ n.target = m.target
        BY <4>2, <4>3 DEF StoreCurrentResult, AttemptRecords
      <4> QED
        BY <4>2, <4>4 DEF LocalResourcesReleased
    <3> HIDE DEF n
    <3>3. Persist(n, mode) /\ mem' = NoAttempt /\ loaded' = TRUE
      BY <2>1, <2>3 DEF memory, n
    <3>4. UpdatesNamed(q.att, n, mode)
      BY <2>1, <3>1, <3>2, <3>3 DEF UpdatesNamed
    <3> QED
      BY <1>1, <2>1, <3>1, <3>4 DEF Advances, Progress, Updates
  <2> QED
    BY <1>6, <2>2, <2>3 DEF InspectNamed
<1>7. CASE Reject(q, mode)
  BY <1>1, <1>7, RejectedProgress, RecordAdvances DEF Reject, Accepts
<1>8. CASE Prepare(q, mode) \/ PrepareRecovery(q, mode)
  <2>1. /\ Accepts(q) /\ New(mem, q) /\ Record(IntentRecord(mem, q), mode)
        /\ Kind(q) \in BusinessKinds => mem.astate # "Terminal"
        /\ CanRecord(mem, q.id, BusinessLimit) \/ CanRecord(mem, q.id, Slots(Kind(q)))
    <3>1. CASE Prepare(q, mode)
      BY <3>1 DEF Prepare, Intend
    <3>2. CASE PrepareRecovery(q, mode)
      <4>1. Kind(q) \in RecoveryKinds /\ CapacityFor(Kind(q)) = Slots(Kind(q))
        BY <3>2 DEF PrepareRecovery, RecoveryKinds, Slots
      <4> QED
        BY <3>2, <4>1, KindsApart DEF PrepareRecovery, Intend
    <3> QED
      BY <1>8, <3>1, <3>2
  <2>2. mem # NoAttempt /\ loaded /\ mem \in AttemptRecords
    BY <1>1, <2>1 DEF Accepts
  <2>3. Roomy(mem) => Cardinality(Recorded(mem)) < Slots(Kind(q))
    BY <2>1, SlotFound DEF New
  <2>4. Progress(mem, IntentRecord(mem, q))
    BY <2>1, <2>2, <2>3, IntentProgress, KindsApart
  <2> QED
    BY <1>1, <2>1, <2>2, <2>4, RecordAdvances
<1>9. CASE PrepareInterrupted(q, mode)
  BY <1>1, <1>9, InterruptedProgress, RecordAdvances DEF PrepareInterrupted, Accepts
<1> QED
  BY <1>2, <1>3, <1>4, <1>5, <1>6, <1>7, <1>8, <1>9 DEF Commands

\* complete keeps the resolved record and appends it.
LEMMA CompleteAdvances ==
    ASSUME IInv, ~Idle, NEW n, Settles(mem, n), n.pay = mem.pay,
           mem.astate = "Terminal" => n.astate = "Terminal",
           ReleaseResults \subseteq {TRUE} /\ FitInv /\ Fit(mem) => Fit(n),
           NEW mode \in AppendModes, Complete(n, mode)
    PROVE  Advances
<1>1. mem \in AttemptRecords /\ mem # NoAttempt /\ loaded /\ ~HasResult(mem, mem.last)
  BY HandlerFacts DEF IInv, LinkInv
<1>2. Progress(mem, StoreCurrentResult(n))
  BY <1>1, ResolvedProgress
<1> QED
  BY <1>1, <1>2, RecordAdvances DEF Complete

\* The completion of every kind of command but finish.
LEMMA CompletionsAdvance ==
    ASSUME IInv, NEW mode \in PersistModes, Completions(mode)
    PROVE  Advances
<1>1. mode \in AppendModes
  BY DEF AppendModes
<1>2. CASE CompleteStart(mode)
  <2> DEFINE n == StartedRecord(mem, executed)
  <2>1. ~Idle /\ Kind(busy) \in BusinessKinds /\ Complete(n, mode)
    BY <1>2 DEF CompleteStart, BusinessKinds
  <2>2. mem \in AttemptRecords /\ executed \in BOOLEAN /\ mem.astate # "Terminal"
    BY <2>1, HandlerFacts
  <2>3. Settles(mem, n)
    BY <2>2, StartedEffect DEF Effects
  <2>4. n.pay = mem.pay /\ (Fit(mem) => Fit(n))
    BY <2>2, StartedFit
  <2> HIDE DEF n
  <2> QED
    BY <1>1, <2>1, <2>2, <2>3, <2>4, CompleteAdvances
<1>3. ASSUME NEW outcome \in Outcomes, NEW holds \in BOOLEAN,
             CompleteFrame(outcome, holds, mode)
      PROVE  Advances
  <2> DEFINE n == FrameRecord(mem, outcome, holds)
  <2>1. ~Idle /\ Kind(busy) \in BusinessKinds /\ Complete(n, mode)
    BY <1>3 DEF CompleteFrame, BusinessKinds
  <2>2. mem \in AttemptRecords /\ mem.astate # "Terminal"
    BY <2>1, HandlerFacts
  <2>3. Settles(mem, n)
    BY <2>2, FrameEffect DEF Effects
  <2>4. n.pay = mem.pay /\ (Fit(mem) => Fit(n))
    BY <2>2, FrameFit
  <2> HIDE DEF n
  <2> QED
    BY <1>1, <2>1, <2>2, <2>3, <2>4, CompleteAdvances
<1>4. ASSUME NEW ok \in BOOLEAN, CompleteCapture(ok, mode)
      PROVE  Advances
  <2> DEFINE running == Kind(busy) = "startCapture"
             n == CaptureRecord(mem, running, ok)
  <2>1. ~Idle /\ Kind(busy) \in BusinessKinds /\ Complete(n, mode)
    BY <1>4 DEF CompleteCapture, BusinessKinds
  <2>2. mem \in AttemptRecords /\ mem.astate # "Terminal" /\ running \in BOOLEAN
    BY <2>1, HandlerFacts
  <2> HIDE DEF running
  <2>3. Settles(mem, n)
    BY <2>2, CaptureKeeps
  <2>4. n.pay = mem.pay /\ (Fit(mem) => Fit(n))
    BY <2>2, CaptureFit
  <2> HIDE DEF n
  <2> QED
    BY <1>1, <2>1, <2>2, <2>3, <2>4, CompleteAdvances
<1>5. ASSUME NEW ok \in BOOLEAN, CompleteCaptureFrame(ok, mode)
      PROVE  Advances
  <2> DEFINE n == CapturedFrameRecord(mem, ok)
  <2>1. ~Idle /\ Kind(busy) \in BusinessKinds /\ Complete(n, mode)
    BY <1>5 DEF CompleteCaptureFrame, BusinessKinds
  <2>2. mem \in AttemptRecords /\ mem.astate # "Terminal"
    BY <2>1, HandlerFacts
  <2>3. Settles(mem, n)
    BY <2>2, CapturedFrameKeeps
  <2>4. n.pay = mem.pay /\ (Fit(mem) => Fit(n))
    BY <2>2, CapturedFrameFit
  <2> HIDE DEF n
  <2> QED
    BY <1>1, <2>1, <2>2, <2>3, <2>4, CompleteAdvances
<1>6. ASSUME NEW released \in BOOLEAN, CompleteRelease(released, mode)
      PROVE  Advances
  <2> DEFINE n == ReleasedRecord(mem, released)
  <2>1. /\ ~Idle /\ Complete(n, mode)
        /\ Kind(busy) \in BusinessKinds \/ released \in ReleaseResults
    BY <1>6 DEF CompleteRelease, BusinessKinds
  <2>2. mem \in AttemptRecords /\ (Kind(busy) \in BusinessKinds => mem.astate # "Terminal")
    BY <2>1, HandlerFacts
  <2>3. Settles(mem, n) /\ n.astate = mem.astate
    BY <2>2, ReleasedKeeps
  <2>4. ReleaseResults \subseteq {TRUE} /\ Fit(mem) => Fit(n)
    BY <2>1, <2>2, ReleasedFit
  <2>5. n.pay = mem.pay
    BY <2>2 DEF ReleasedRecord, Resolved, AttemptRecords
  <2> HIDE DEF n
  <2> QED
    BY <1>1, <2>1, <2>2, <2>3, <2>4, <2>5, CompleteAdvances
<1> QED
  BY <1>2, <1>3, <1>4, <1>5, <1>6 DEF Completions

\* complete_finish
LEMMA CompleteFinishAdvances ==
    ASSUME IInv, NEW released \in BOOLEAN, NEW stopped \in BOOLEAN,
           NEW mode \in FinishModes, CompleteFinish(released, stopped, mode)
    PROVE  Advances
<1> DEFINE n == CompletedFinishRecord(mem, released, stopped, binding)
<1>1. ~Idle /\ Complete(n, mode) /\ released \in ReleaseResults /\ mode \in AppendModes
  BY DEF CompleteFinish, AppendModes
<1>2. mem \in AttemptRecords /\ binding \in BOOLEAN
  BY <1>1, HandlerFacts
<1>3. Settles(mem, n) /\ n.astate = "Terminal"
  BY <1>2, CompletedFinishKeeps
<1>4. n.pay = mem.pay /\ (released => Fit(n))
  BY <1>2, CompletedFinishFit
<1> HIDE DEF n
<1>5. ReleaseResults \subseteq {TRUE} => Fit(n)
  BY <1>1, <1>4
<1> QED
  BY <1>1, <1>3, <1>4, <1>5, CompleteAdvances

\* The active attempt, loaded or in memory, is a record of its ledger's attempt.
LEMMA ActiveRecord ==
    ASSUME IInv, LoadsActive, ActiveLoaded # NoAttempt
    PROVE  ActiveLoaded \in AttemptRecords
  BY LoadHolds DEF IInv, Holds

\* What happens to the attempt without a command.
LEMMA BackgroundAdvances ==
    ASSUME IInv, NEW mode \in PersistModes, Background(mode)
    PROVE  Advances
<1>1. /\ mode \in AppendModes /\ (session => loaded) /\ binding \in BOOLEAN
      /\ loaded \in BOOLEAN /\ mem \in AttemptRecords \cup {NoAttempt}
  BY DEF AppendModes, IInv, LinkInv, TypeOK
<1>2. ASSUME NEW released \in BOOLEAN, WorkerFails(released, mode)
      PROVE  Advances
  <2> DEFINE n == UncertainRecord(ActiveLoaded, released)
  <2>1. CASE LoadFails
    BY <2>1 DEF Advances, LoadFails
  <2>2. CASE LoadsActive /\ loaded' = TRUE /\ mem' = ActiveLoaded /\ ledger' = ledger
    BY <2>2 DEF Advances
  <2>3. CASE /\ LoadsActive /\ loaded' = TRUE /\ ActiveLoaded # NoAttempt
             /\ mem' = n /\ Persist(n, mode)
    <3>1. Progress(ActiveLoaded, n)
      BY <2>3, ActiveRecord, UncertainProgress
    <3> HIDE DEF n
    <3>2. UpdatesActive(n, mode) /\ n \in AttemptRecords
      BY <2>3, <3>1 DEF UpdatesActive, Progress, Updates
    <3> QED
      BY <1>1, <3>2 DEF Advances
  <2> QED
    BY <1>2, <2>1, <2>2, <2>3 DEF WorkerFails
<1>3. ASSUME NEW released \in BOOLEAN, RealtimeFailure(released, mode)
      PROVE  Advances
  BY <1>1, <1>3, UncertainProgress, RecordAdvances DEF RealtimeFailure
<1>4. ASSUME LoadsActive, loaded' = TRUE, ActiveLoaded # NoAttempt,
             NEW released \in ReleaseResults, NEW stopped \in BOOLEAN,
             Persist(FinishedRecord(ActiveLoaded, released, stopped, binding), mode),
             mem' = IF mode = "ok" THEN FinishedRecord(ActiveLoaded, released, stopped, binding)
                                   ELSE ActiveLoaded
      PROVE  Advances
  <2> DEFINE n == FinishedRecord(ActiveLoaded, released, stopped, binding)
  <2>1. released \in BOOLEAN /\ ActiveLoaded \in AttemptRecords
    BY <1>4, ActiveRecord, EnvironmentAssumption
  <2>2. Updates(ActiveLoaded, n) /\ Grants(ActiveLoaded, n) /\ (released => Fit(n))
    BY <1>1, <2>1, FinishedFit
  <2> HIDE DEF n
  <2>3. Progress(ActiveLoaded, n)
    BY <1>4, <2>2 DEF Progress
  <2>4. UpdatesActive(n, mode) /\ n \in AttemptRecords
    BY <1>4, <2>3 DEF UpdatesActive, Progress, Updates, n
  <2> QED
    BY <1>1, <2>4 DEF Advances
<1>5. ASSUME NEW released \in BOOLEAN, NEW stopped \in BOOLEAN, NEW connected \in BOOLEAN,
             ResetSession(released, stopped, connected, mode)
      PROVE  Advances
  <2>1. CASE LoadFails
    BY <2>1 DEF Advances, LoadFails
  <2>2. CASE LoadsActive /\ loaded' = TRUE /\ mem' = ActiveLoaded /\ ledger' = ledger
    BY <2>2 DEF Advances
  <2>3. CASE ~LoadFails /\ ~(mem' = ActiveLoaded /\ ledger' = ledger)
    BY <1>4, <1>5, <2>3 DEF ResetSession
  <2> QED
    BY <1>5, <2>1, <2>2, <2>3 DEF ResetSession
<1>6. ASSUME NEW released \in BOOLEAN, NEW stopped \in BOOLEAN,
             ContractExpired(released, stopped, mode)
      PROVE  Advances
  <2>1. LoadsActive /\ ActiveLoaded = mem /\ loaded' = TRUE /\ released \in ReleaseResults
    BY <1>1, <1>6 DEF ContractExpired, LoadsActive, ActiveLoaded
  <2> QED
    BY <1>4, <1>6, <2>1 DEF ContractExpired
<1>7. ASSUME FitInv, lease \/ capturing, mem # NoAttempt
      PROVE  mem.astate # "Terminal"
  BY <1>7 DEF FitInv, QuietInv
<1>8. ASSUME NEW uncertain \in BOOLEAN, NEW released \in BOOLEAN, NEW restarted \in BOOLEAN,
             CaptureFailure(uncertain, released, restarted, mode)
      PROVE  Advances
  <2>1. CASE mem = NoAttempt
    BY <1>8, <2>1 DEF CaptureFailure, Advances, memory
  <2>2. CASE mem # NoAttempt
    <3>1. loaded /\ capturing
          /\ Record(IF uncertain THEN UncertainRecord(mem, released)
                                 ELSE InputReleasedRecord(mem), mode)
      BY <1>1, <1>8, <2>2 DEF CaptureFailure
    <3>2. /\ Progress(mem, InputReleasedRecord(mem))
          /\ Progress(mem, UncertainRecord(mem, released))
      BY <1>1, <1>7, <2>2, <3>1, InputReleasedProgress, UncertainProgress
    <3> QED
      BY <1>1, <2>2, <3>1, <3>2, RecordAdvances
  <2> QED
    BY <2>1, <2>2
<1>9. CASE LeaseExpired(mode)
  <2>1. CASE mem = NoAttempt
    BY <1>9, <2>1 DEF LeaseExpired, Advances, memory
  <2>2. CASE mem # NoAttempt
    <3>1. loaded /\ lease /\ Record(InputReleasedRecord(mem), mode)
      BY <1>1, <1>9, <2>2 DEF LeaseExpired
    <3>2. Progress(mem, InputReleasedRecord(mem))
      BY <1>1, <1>7, <2>2, <3>1, InputReleasedProgress
    <3> QED
      BY <1>1, <2>2, <3>1, <3>2, RecordAdvances
  <2> QED
    BY <2>1, <2>2
<1> QED
  BY <1>2, <1>3, <1>5, <1>6, <1>8, <1>9 DEF Background

\* Every step advances memory and ledgers in one of these ways.
LEMMA StepAdvances ==
    ASSUME IInv, [Next]_vars
    PROVE  Advances
<1>1. CASE UNCHANGED vars
  BY <1>1 DEF vars, memory, Advances
<1>2. ASSUME NEW mode \in PersistModes, NEW q \in Requests, Commands(q, mode)
      PROVE  Advances
  BY <1>2, CommandsAdvance
<1>3. ASSUME NEW mode \in PersistModes, Completions(mode) \/ Background(mode)
      PROVE  Advances
  BY <1>3, CompletionsAdvance, BackgroundAdvances
<1>4. ASSUME NEW released \in BOOLEAN, NEW stopped \in BOOLEAN, NEW mode \in FinishModes,
             CompleteFinish(released, stopped, mode)
      PROVE  Advances
  BY <1>4, CompleteFinishAdvances
<1>5. CASE Fire \/ Abandon \/ SessionLost \/ FramePipelineLost \/ ChangeTarget
  BY <1>5 DEF Fire, Abandon, SessionLost, FramePipelineLost, ChangeTarget, memory, Advances
<1>6. CASE Crash
  BY <1>6 DEF Advances
<1> QED
  BY <1>1, <1>2, <1>3, <1>4, <1>5, <1>6 DEF Next

(***************************************************************************)
(* Memory and ledgers, as long as a failed append tears the file           *)
(***************************************************************************)
\* Every append is complete, or leaves a torn line.
Faithful == AppendModes \subseteq {"ok", "torn"}

\* r is the record to go on with: its ledger says the same, and no other is live.
Current(r) ==
    /\ r \in AttemptRecords
    /\ WellKept(r)
    /\ ledger[r.att] = TornLedger \/ Mirrors(r, ledger[r.att])
    /\ LiveLedgers \subseteq {r.att}

\* A record mirrors itself.
LEMMA MirrorsSelf ==
    ASSUME NEW r \in AttemptRecords
    PROVE  Mirrors(r, r)
  BY DEF Mirrors

\* A ledger that mirrors a record holds resources if the record does.
LEMMA MirrorsReleased ==
    ASSUME NEW r, NEW file, Mirrors(r, file)
    PROVE  LocalResourcesReleased(file) <=> LocalResourcesReleased(r)
  BY DEF Mirrors, LocalResourcesReleased

\* And it keeps what the record keeps.
LEMMA MirrorsKept ==
    ASSUME NEW r, NEW file, Mirrors(r, file), WellKept(r), r.last \in CommandIds
    PROVE  WellKept(file)
  BY DEF Mirrors, WellKept, HasResult

\* load_active finds the record to go on with, if there is one.
LEMMA ActiveCurrent ==
    ASSUME IInv, MirrorInv, LiveInv, LoadsActive
    PROVE  IF ActiveLoaded = NoAttempt THEN LiveLedgers = {} ELSE Current(ActiveLoaded)
<1>1. /\ ledger \in [Attempts -> Ledgers]
      /\ mem \in AttemptRecords \cup {NoAttempt}
      /\ \A a \in Attempts : ledger[a] \in AttemptRecords => ledger[a].att = a
  BY DEF IInv, TypeOK, LedgerInv
<1>2. CASE loaded
  BY <1>1, <1>2 DEF ActiveLoaded, LiveInv, MirrorInv, Current, LiveLedgers
<1>3. CASE ~loaded /\ LiveLedgers = {}
  BY <1>3 DEF ActiveLoaded, LiveInv
<1>4. CASE ~loaded /\ LiveLedgers # {}
  <2>1. PICK a \in LiveLedgers : LiveLedgers = {a}
    BY <1>4 DEF LoadsActive
  <2>2. a \in Attempts /\ ledger[a] \in AttemptRecords /\ ledger[a].att = a
    BY <1>1, <2>1 DEF LiveLedgers, Loads, Ledgers
  <2>3. ActiveLoaded = ledger[a]
    BY <1>4, <2>1 DEF ActiveLoaded
  <2>4. Current(ledger[a]) /\ ledger[a] # NoAttempt
    BY <2>1, <2>2, MirrorsSelf, SentinelAssumption DEF Current, MirrorInv
  <2> QED
    BY <2>3, <2>4
<1> QED
  BY <1>2, <1>3, <1>4

\* A full append to a ledger that mirrors the record mirrors its update.
LEMMA AppendMirrors ==
    ASSUME NEW r \in AttemptRecords, NEW n, Updates(r, n), WellKept(r),
           NEW file, Mirrors(r, file), file # TornLedger, file # NoLedger
    PROVE  Mirrors(n, Appended(file, n))
<1> DEFINE line == [n EXCEPT !.results = file.results]
<1>1. /\ n \in AttemptRecords /\ WellKept(n) /\ n.last \in CommandIds
      /\ n.outcome \in Outcomes \cup {Unspecified}
      /\ \A c \in CommandIds : HasResult(r, c) \/ c # n.last => n.results[c] = r.results[c]
  BY DEF Updates, AttemptRecords
<1>2. /\ file \in AttemptRecords
      /\ \A c \in CommandIds :
            /\ HasResult(file, c) <=> HasResult(r, c)
            /\ HasResult(r, c) => /\ file.results[c].pay = r.results[c].pay
                                  /\ file.results[c].outcome = r.results[c].outcome
  BY DEF Mirrors
<1>3. /\ line \in AttemptRecords /\ line.results = file.results
      /\ line.att = n.att /\ line.astate = n.astate /\ line.last = n.last
      /\ line.pay = n.pay /\ line.outcome = n.outcome /\ line.input = n.input
      /\ line.capture = n.capture /\ line.target = n.target
  BY <1>1, <1>2 DEF AttemptRecords
<1>4. Appended(file, n) = IF n.outcome = Unspecified THEN line ELSE StoreCurrentResult(line)
  BY DEF Appended
<1> HIDE DEF line
<1>5. CASE n.outcome = Unspecified
  <2>1. ~HasResult(n, n.last) /\ ~HasResult(r, n.last)
    BY <1>1, <1>5 DEF WellKept, HasResult
  <2>2. \A c \in CommandIds :
            /\ HasResult(line, c) <=> HasResult(n, c)
            /\ HasResult(n, c) => /\ line.results[c].pay = n.results[c].pay
                                  /\ line.results[c].outcome = n.results[c].outcome
    BY <1>1, <1>2, <1>3, <2>1 DEF HasResult
  <2> QED
    BY <1>3, <1>4, <1>5, <2>2 DEF Mirrors
<1>6. CASE n.outcome # Unspecified
  <2> DEFINE m == StoreCurrentResult(line)
  <2>1. /\ m \in AttemptRecords /\ m.att = n.att /\ m.astate = n.astate /\ m.last = n.last
        /\ m.outcome = n.outcome
        /\ \A c \in CommandIds :
              m.results[c] = IF c = n.last THEN CurrentResult(line) ELSE line.results[c]
        /\ CurrentResult(line) \in StoredResults
        /\ CurrentResult(line).outcome = n.outcome
    BY <1>1, <1>3, <1>6, StoreFacts
  <2>2. /\ m.pay = n.pay /\ m.input = n.input /\ m.capture = n.capture
        /\ m.target = n.target /\ CurrentResult(line).pay = n.pay
    BY <1>3 DEF StoreCurrentResult, CurrentResult, AttemptRecords
  <2> HIDE DEF m
  <2>3. /\ HasResult(n, n.last) /\ n.results[n.last].pay = n.pay
        /\ n.results[n.last].outcome = n.outcome
    BY <1>1, <1>6 DEF WellKept
  <2>4. CurrentResult(line) # NoResult
    BY <2>1, SentinelAssumption
  <2>5. ASSUME NEW c \in CommandIds
        PROVE  /\ HasResult(m, c) <=> HasResult(n, c)
               /\ HasResult(n, c) => /\ m.results[c].pay = n.results[c].pay
                                     /\ m.results[c].outcome = n.results[c].outcome
    <3>1. CASE c = n.last
      BY <2>1, <2>2, <2>3, <2>4, <3>1 DEF HasResult
    <3>2. CASE c # n.last
      BY <1>1, <1>2, <1>3, <2>1, <3>2 DEF HasResult
    <3> QED
      BY <3>1, <3>2
  <2> QED
    BY <1>4, <1>6, <2>1, <2>2, <2>5 DEF Mirrors, m
<1> QED
  BY <1>5, <1>6

\* What a faithful append leaves of the ledgers.
LEMMA PersistMirrors ==
    ASSUME ledger \in [Attempts -> Ledgers], NEW r, Current(r), NEW n, Updates(r, n),
           NEW mode \in {"ok", "torn"}, Persist(n, mode)
    PROVE  /\ ledger' \in [Attempts -> Ledgers]
           /\ \A a \in Attempts \ {r.att} : ledger'[a] = ledger[a]
           /\ ledger'[r.att] = TornLedger \/ Mirrors(n, ledger'[r.att])
           /\ mode = "torn" \/ ledger[r.att] = TornLedger => ledger'[r.att] = TornLedger
<1>1. r.att \in Attempts /\ n.att = r.att /\ n \in AttemptRecords /\ r \in AttemptRecords
  BY DEF Current, Updates, AttemptRecords
<1>2. ledger' \in [Attempts -> Ledgers] /\ \A a \in Attempts \ {r.att} : ledger'[a] = ledger[a]
  BY <1>1, PersistFacts DEF Modes
<1>3. CASE mode = "torn"
  BY <1>1, <1>2, <1>3 DEF Persist
<1>4. CASE mode = "ok"
  <2>1. ledger'[r.att] = Appended(ledger[r.att], n)
    BY <1>1, <1>4 DEF Persist
  <2>2. CASE ledger[r.att] = TornLedger
    BY <1>2, <1>4, <2>1, <2>2 DEF Appended
  <2>3. CASE ledger[r.att] # TornLedger
    <3>1. Mirrors(r, ledger[r.att]) /\ WellKept(r)
      BY <2>3 DEF Current
    <3>2. ledger[r.att] # NoLedger
      BY <3>1, SentinelAssumption DEF Mirrors
    <3> QED
      BY <1>1, <1>2, <1>4, <2>1, <2>3, <3>1, <3>2, AppendMirrors
  <2> QED
    BY <2>2, <2>3
<1> QED
  BY <1>3, <1>4

\* Every result x has, y has with the same outcome.
Recalls(x, y) ==
    \A c \in CommandIds :
        HasResult(x, c) => HasResult(y, c) /\ y.results[c].outcome = x.results[c].outcome

\* A step forgets no result: a ledger goes on with what it has, unless it is torn,
\* and memory with what it or the ledger had.  An attempt that is over stays over.
Remembers(a) ==
    /\ ledger[a] = TornLedger => ledger'[a] = TornLedger
    /\ ledger[a] \in AttemptRecords =>
          \/ ledger'[a] = TornLedger
          \/ /\ ledger'[a] \in AttemptRecords
             /\ Recalls(ledger[a], ledger'[a])
             /\ ledger[a].astate = "Terminal" => ledger'[a].astate = "Terminal"
    /\ mem' # NoAttempt /\ mem'.att = a =>
          \/ mem # NoAttempt /\ mem.att = a /\ Recalls(mem, mem')
          \/ ledger[a] \in AttemptRecords /\ Recalls(ledger[a], mem')
          \/ ledger[a] = NoLedger

\* What a faithful step preserves.
Continues == MirrorInv' /\ LiveInv' /\ \A a \in Attempts : Remembers(a)

\* A record recalls what its update and what its mirror recall.
LEMMA RecallFacts ==
    /\ \A x : Recalls(x, x)
    /\ \A x, y, z : Recalls(x, y) /\ Recalls(y, z) => Recalls(x, z)
    /\ \A x, y : Updates(x, y) => Recalls(x, y)
    /\ \A x, y : Mirrors(x, y) => Recalls(x, y) /\ Recalls(y, x)
<1>1. \A x, y, z : Recalls(x, y) /\ Recalls(y, z) => Recalls(x, z)
  BY DEF Recalls
<1>2. \A x, y : Updates(x, y) => Recalls(x, y)
  BY DEF Recalls, Updates, HasResult
<1>3. \A x, y : Mirrors(x, y) => Recalls(x, y) /\ Recalls(y, x)
  BY DEF Recalls, Mirrors
<1> QED
  BY <1>1, <1>2, <1>3 DEF Recalls

\* The update of the record to go on with, kept in memory or not.
LEMMA UpdateContinues ==
    ASSUME IInv, MirrorInv, NEW r, Current(r), NEW n, Updates(r, n),
           NEW mode \in {"ok", "torn"}, Persist(n, mode), loaded',
           r = mem \/ r = ledger[r.att],
           \/ mem' = n
           \/ mem' = r /\ mode = "torn"
           \/ mem' = NoAttempt /\ LocalResourcesReleased(n)
    PROVE  Continues
<1>1. /\ ledger \in [Attempts -> Ledgers] /\ ledger' \in [Attempts -> Ledgers]
      /\ \A a \in Attempts \ {r.att} : ledger'[a] = ledger[a]
      /\ ledger'[r.att] = TornLedger \/ Mirrors(n, ledger'[r.att])
      /\ mode = "torn" \/ ledger[r.att] = TornLedger => ledger'[r.att] = TornLedger
  BY PersistMirrors DEF IInv, TypeOK
<1>2. /\ r \in AttemptRecords /\ WellKept(r) /\ r.att \in Attempts
      /\ n \in AttemptRecords /\ WellKept(n) /\ n.att = r.att
      /\ n.last \in CommandIds /\ r # NoAttempt /\ n # NoAttempt
      /\ LiveLedgers \subseteq {r.att}
  BY SentinelAssumption DEF Current, Updates, AttemptRecords
<1>3. MirrorInv'
  <2>1. ASSUME mem' # NoAttempt
        PROVE  /\ WellKept(mem')
               /\ ledger'[mem'.att] = TornLedger \/ Mirrors(mem', ledger'[mem'.att])
    BY <1>1, <1>2, <2>1
  <2>2. ASSUME NEW a \in Attempts, ledger'[a] \in AttemptRecords
        PROVE  WellKept(ledger'[a])
    <3>1. CASE a = r.att
      BY <1>1, <1>2, <2>2, <3>1, MirrorsKept, SentinelAssumption
    <3>2. CASE a # r.att
      BY <1>1, <2>2, <3>2 DEF MirrorInv
    <3> QED
      BY <3>1, <3>2
  <2> QED
    BY <2>1, <2>2 DEF MirrorInv, WellKept, HasResult
<1>4. LiveInv'
  <2>1. \A a \in Attempts : a \in LiveLedgers' => a = r.att
    BY <1>1, <1>2 DEF LiveLedgers
  <2>2. mem' = NoAttempt => r.att \notin LiveLedgers'
    BY <1>1, <1>2, MirrorsReleased DEF LiveLedgers, Loads
  <2> QED
    BY <1>2, <2>1, <2>2 DEF LiveInv, LiveLedgers
<1>5. ASSUME NEW a \in Attempts
      PROVE  Remembers(a)
  <2>1. CASE a # r.att
    BY <1>1, <1>2, <2>1, RecallFacts DEF Remembers
  <2>2. CASE a = r.att
    <3>1. ledger[a] = TornLedger => ledger'[a] = TornLedger
      BY <1>1, <2>2
    <3>2. Recalls(r, n) /\ (r.astate = "Terminal" => n.astate = "Terminal")
      BY RecallFacts DEF Updates
    <3>3. ASSUME ledger[a] \in AttemptRecords, ledger'[a] # TornLedger
          PROVE  /\ ledger'[a] \in AttemptRecords
                 /\ Recalls(ledger[a], ledger'[a])
                 /\ ledger[a].astate = "Terminal" => ledger'[a].astate = "Terminal"
      <4>1. Mirrors(n, ledger'[a]) /\ Mirrors(r, ledger[a])
        BY <1>1, <2>2, <3>3 DEF Current
      <4>2. ledger'[a] \in AttemptRecords /\ ledger'[a].astate = n.astate
            /\ ledger[a].astate = r.astate
        BY <4>1 DEF Mirrors
      <4>3. Recalls(ledger[a], r) /\ Recalls(n, ledger'[a])
        BY <4>1, RecallFacts
      <4> QED
        BY <3>2, <4>2, <4>3, RecallFacts
    <3>4. ASSUME mem' # NoAttempt
          PROVE  \/ mem # NoAttempt /\ mem.att = a /\ Recalls(mem, mem')
                 \/ ledger[a] \in AttemptRecords /\ Recalls(ledger[a], mem')
      <4>1. Recalls(r, mem')
        BY <1>2, <3>2, <3>4, RecallFacts
      <4> QED
        BY <1>2, <2>2, <4>1
    <3> QED
      BY <3>1, <3>3, <3>4 DEF Remembers
  <2> QED
    BY <2>1, <2>2
<1> QED
  BY <1>3, <1>4, <1>5 DEF Continues

\* The active attempt is the one in memory, or was read from its ledger.
LEMMA LoadedFrom ==
    ASSUME IInv, LoadsActive
    PROVE  \/ ActiveLoaded = mem
           \/ \E a \in Attempts :
                 /\ ActiveLoaded = ledger[a] /\ ledger[a] \in AttemptRecords
                 /\ ledger[a].att = a
<1>1. CASE loaded \/ LiveLedgers = {}
  BY <1>1 DEF ActiveLoaded
<1>2. CASE ~loaded /\ LiveLedgers # {}
  <2>1. PICK a \in LiveLedgers : LiveLedgers = {a}
    BY <1>2 DEF LoadsActive
  <2>2. a \in Attempts /\ ledger[a] \in AttemptRecords /\ ledger[a].att = a
    BY <2>1 DEF LiveLedgers, Loads, Ledgers, IInv, TypeOK, LedgerInv
  <2> QED
    BY <1>2, <2>1, <2>2 DEF ActiveLoaded
<1> QED
  BY <1>1, <1>2

\* The record of a claim, and the file that has no other line.
LEMMA ClaimedFacts ==
    ASSUME NEW q \in Requests
    PROVE  LET claim == Claimed(q.att, q.id, q.pay)
           IN  /\ claim \in AttemptRecords /\ claim.att = q.att /\ claim.astate = "Claimed"
               /\ claim.last = q.id /\ claim.pay = q.pay /\ claim.outcome = "Applied"
               /\ WellKept(claim) /\ Recorded(claim) = {q.id} /\ Fit(claim)
               /\ Mirrors(claim, Appended(NoLedger, claim))
<1> DEFINE none == [d \in CommandIds |-> NoResult]
           blank == [att |-> q.att, astate |-> "Claimed", last |-> q.id, pay |-> q.pay,
                     outcome |-> "Applied", results |-> none,
                     side |-> "None", input |-> "Released", capture |-> "NotStarted",
                     target |-> "NotStarted", owned |-> FALSE, cleanup |-> FALSE]
           claim == Claimed(q.att, q.id, q.pay)
           line == [claim EXCEPT !.results = none]
<1>1. /\ none \in [CommandIds -> StoredResults \cup {NoResult}]
      /\ q.att \in Attempts /\ q.id \in CommandIds /\ q.pay \in Payloads
      /\ \A c \in CommandIds : none[c] = NoResult
  BY DEF Requests
<1> HIDE DEF none
<1>2. blank \in AttemptRecords
  BY <1>1 DEF AttemptRecords, AttemptStates, Outcomes, SideEffectStates, InputStates,
              CaptureStates, OwnedTargetStates
<1>3. /\ blank.att = q.att /\ blank.astate = "Claimed" /\ blank.last = q.id
      /\ blank.pay = q.pay /\ blank.outcome = "Applied" /\ blank.results = none
      /\ blank.outcome \in Outcomes /\ blank.input = "Released"
      /\ blank.target = "NotStarted" /\ blank.owned = FALSE /\ blank.cleanup = FALSE
  BY DEF Outcomes
<1>4. claim = StoreCurrentResult(blank)
  BY DEF Claimed, none
<1>5. Fit(blank)
  BY <1>3 DEF Fit, CleanupSound, CleanupDue, LocalResourcesReleased
<1> HIDE DEF blank, claim
<1>6. /\ claim \in AttemptRecords /\ claim.att = q.att /\ claim.astate = "Claimed"
      /\ claim.last = q.id /\ claim.outcome = "Applied"
      /\ \A c \in CommandIds :
            claim.results[c] = IF c = q.id THEN CurrentResult(blank) ELSE NoResult
      /\ CurrentResult(blank) \in StoredResults /\ CurrentResult(blank).outcome = "Applied"
  BY <1>1, <1>2, <1>3, <1>4, StoreFacts
<1>7. claim.pay = q.pay /\ CurrentResult(blank).pay = q.pay
  BY <1>2, <1>3, <1>4 DEF StoreCurrentResult, CurrentResult, AttemptRecords
<1>8. CurrentResult(blank) # NoResult
  BY <1>6, SentinelAssumption
<1>9. WellKept(claim) /\ Recorded(claim) = {q.id}
  BY <1>1, <1>6, <1>7, <1>8 DEF WellKept, Recorded, HasResult, Unspecified
<1>10. Fit(claim)
  BY <1>2, <1>3, <1>4, <1>5, StoreFit
<1>11. Mirrors(claim, Appended(NoLedger, claim))
  <2>1. Appended(NoLedger, claim) = StoreCurrentResult(line)
    BY <1>6, SentinelAssumption DEF Appended, Unspecified, none
  <2>2. /\ line \in AttemptRecords /\ line.results = none /\ line.att = claim.att
        /\ line.astate = claim.astate /\ line.last = q.id /\ line.pay = claim.pay
        /\ line.outcome = "Applied" /\ line.input = claim.input
        /\ line.capture = claim.capture /\ line.target = claim.target
        /\ line.outcome \in Outcomes
    BY <1>1, <1>6 DEF AttemptRecords, Outcomes
  <2> HIDE DEF line
  <2> DEFINE m == StoreCurrentResult(line)
  <2>3. /\ m \in AttemptRecords /\ m.att = line.att /\ m.astate = line.astate
        /\ m.last = line.last /\ m.outcome = line.outcome
        /\ \A c \in CommandIds :
              m.results[c] = IF c = q.id THEN CurrentResult(line) ELSE none[c]
        /\ CurrentResult(line) \in StoredResults
        /\ CurrentResult(line).outcome = "Applied"
    BY <2>2, StoreFacts
  <2>4. /\ m.pay = line.pay /\ m.input = line.input /\ m.capture = line.capture
        /\ m.target = line.target /\ CurrentResult(line).pay = line.pay
    BY <2>2 DEF StoreCurrentResult, CurrentResult, AttemptRecords
  <2>5. CurrentResult(line) # NoResult
    BY <2>3, SentinelAssumption
  <2> HIDE DEF m
  <2>6. Mirrors(claim, m)
    BY <1>1, <1>6, <1>7, <1>8, <2>2, <2>3, <2>4, <2>5 DEF Mirrors, HasResult
  <2> QED
    BY <2>1, <2>6 DEF m
<1> QED
  BY <1>6, <1>7, <1>9, <1>10, <1>11 DEF claim

\* An attempt that may be claimed has no ledger, and no attempt is live.
LEMMA ClaimableIsNew ==
    ASSUME IInv, MirrorInv, LiveInv, NEW a \in Attempts, loaded, Claimable(a),
           mem # NoAttempt => LocalResourcesReleased(mem)
    PROVE  ledger[a] = NoLedger /\ LiveLedgers = {}
<1>1. LiveLedgers = {}
  <2> SUFFICES ASSUME NEW b \in LiveLedgers
               PROVE  FALSE
    OBVIOUS
  <2>1. mem # NoAttempt /\ mem.att = b /\ Loads(ledger[b]) /\ ~LocalResourcesReleased(ledger[b])
    BY DEF LiveInv, LiveLedgers
  <2>2. Mirrors(mem, ledger[b])
    BY <2>1 DEF MirrorInv, Loads
  <2> QED
    BY <2>1, <2>2, MirrorsReleased
<1>2. ledger[a] = NoLedger
  BY <1>1 DEF Claimable, LiveLedgers, LocalResourcesReleased
<1> QED
  BY <1>1, <1>2

\* So does a claim ...
LEMMA ClaimContinues ==
    ASSUME IInv, MirrorInv, LiveInv, NEW q \in Requests, NEW mode \in {"ok", "torn"},
           Claims(q, mode)
    PROVE  Continues
<1> DEFINE claim == Claimed(q.att, q.id, q.pay)
           a == q.att
<1>1. /\ loaded /\ loaded' = TRUE /\ Claimable(a) /\ Persist(claim, mode)
      /\ mem # NoAttempt => LocalResourcesReleased(mem)
      /\ mem' = IF mode = "ok" THEN claim ELSE NoAttempt
      /\ a \in Attempts
  BY DEF Claims, Requests
<1>2. ledger[a] = NoLedger /\ LiveLedgers = {}
  BY <1>1, ClaimableIsNew
<1>3. /\ claim \in AttemptRecords /\ claim.att = a /\ WellKept(claim) /\ claim.last = q.id
      /\ Mirrors(claim, Appended(NoLedger, claim)) /\ claim.last \in CommandIds
  BY ClaimedFacts DEF Requests
<1> HIDE DEF claim
<1>4. /\ ledger \in [Attempts -> Ledgers] /\ ledger' \in [Attempts -> Ledgers]
      /\ \A b \in Attempts \ {a} : ledger'[b] = ledger[b]
  BY <1>1, <1>3, PersistFacts DEF IInv, TypeOK, Modes
<1>5. ledger'[a] = IF mode = "ok" THEN Appended(NoLedger, claim) ELSE TornLedger
  BY <1>1, <1>2, <1>3, <1>4 DEF Persist
<1>6. claim # NoAttempt /\ TornLedger \notin AttemptRecords /\ NoLedger \notin AttemptRecords
      /\ NoLedger # TornLedger
  BY <1>3, SentinelAssumption
<1>7. MirrorInv'
  <2>1. mem' # NoAttempt => WellKept(mem') /\ Mirrors(mem', ledger'[mem'.att])
    BY <1>1, <1>3, <1>5
  <2>2. ASSUME NEW b \in Attempts, ledger'[b] \in AttemptRecords
        PROVE  WellKept(ledger'[b])
    <3>1. CASE b = a
      BY <1>3, <1>5, <1>6, <2>2, <3>1, MirrorsKept
    <3>2. CASE b # a
      BY <1>4, <2>2, <3>2 DEF MirrorInv
    <3> QED
      BY <3>1, <3>2
  <2> QED
    BY <2>1, <2>2 DEF MirrorInv, WellKept, HasResult
<1>8. LiveInv'
  <2>1. \A b \in Attempts : b \in LiveLedgers' => b = a /\ mode = "ok"
    BY <1>2, <1>4, <1>5 DEF LiveLedgers, Loads
  <2> QED
    BY <1>1, <1>3, <1>6, <2>1 DEF LiveInv, LiveLedgers
<1>9. ASSUME NEW b \in Attempts
      PROVE  Remembers(b)
  <2>1. CASE b # a
    BY <1>1, <1>3, <1>4, <2>1, RecallFacts DEF Remembers
  <2>2. CASE b = a
    BY <1>2, <1>6, <2>2 DEF Remembers
  <2> QED
    BY <2>1, <2>2
<1> QED
  BY <1>7, <1>8, <1>9 DEF Continues

\* ... and every other step.
LEMMA AdvanceContinues ==
    ASSUME IInv, MirrorInv, LiveInv, Faithful, Advances
    PROVE  Continues
<1>1. /\ mem \in AttemptRecords \cup {NoAttempt} /\ loaded \in BOOLEAN
      /\ ledger \in [Attempts -> Ledgers] /\ NoAttempt \notin AttemptRecords
  BY SentinelAssumption DEF IInv, TypeOK
<1>2. ASSUME ledger' = ledger
      PROVE  \A a \in Attempts :
                /\ ledger[a] = TornLedger => ledger'[a] = TornLedger
                /\ ledger[a] \in AttemptRecords =>
                      /\ ledger'[a] \in AttemptRecords
                      /\ Recalls(ledger[a], ledger'[a])
                      /\ ledger[a].astate = "Terminal" => ledger'[a].astate = "Terminal"
  BY <1>2, RecallFacts
<1>3. CASE mem' = mem /\ loaded' = loaded /\ ledger' = ledger
  <2>1. MirrorInv' /\ LiveInv'
    BY <1>3 DEF MirrorInv, LiveInv, LiveLedgers, OneLiveLedger, WellKept, HasResult
  <2>2. \A a \in Attempts : Remembers(a)
    BY <1>2, <1>3, RecallFacts DEF Remembers
  <2> QED
    BY <2>1, <2>2 DEF Continues
<1>4. CASE LoadsActive /\ loaded' = TRUE /\ mem' = ActiveLoaded /\ ledger' = ledger
  <2>1. IF ActiveLoaded = NoAttempt THEN LiveLedgers = {} ELSE Current(ActiveLoaded)
    BY <1>4, ActiveCurrent
  <2>2. MirrorInv' /\ LiveInv'
    BY <1>4, <2>1 DEF MirrorInv, LiveInv, LiveLedgers, Current, WellKept, HasResult
  <2>3. ActiveLoaded = mem \/ \E a \in Attempts : ActiveLoaded = ledger[a] /\ ledger[a].att = a
                                                 /\ ledger[a] \in AttemptRecords
    BY <1>1, <1>4, LoadedFrom
  <2>4. \A a \in Attempts : Remembers(a)
    BY <1>2, <1>4, <2>3, RecallFacts DEF Remembers
  <2> QED
    BY <2>2, <2>4 DEF Continues
<1>5. CASE LoadFails /\ ledger' = ledger
  <2>1. ~loaded /\ loaded' = FALSE /\ mem' \in {mem} \cup {ledger[a] : a \in LiveLedgers}
    BY <1>5 DEF LoadFails, ReadBeforeFailure
  <2>2. CASE mem' = mem
    <3>1. MirrorInv' /\ LiveInv'
      BY <1>1, <1>5, <2>1, <2>2
      DEF MirrorInv, LiveInv, LiveLedgers, OneLiveLedger, WellKept, HasResult
    <3>2. \A a \in Attempts : Remembers(a)
      BY <1>2, <1>5, <2>2, RecallFacts DEF Remembers
    <3> QED
      BY <3>1, <3>2 DEF Continues
  <2>3. CASE mem' # mem
    <3>1. PICK a \in LiveLedgers : mem' = ledger[a]
      BY <2>1, <2>3
    <3>2. a \in Attempts /\ ledger[a] \in AttemptRecords /\ ledger[a].att = a
          /\ WellKept(ledger[a]) /\ Mirrors(ledger[a], ledger[a])
      BY <1>1, <3>1, MirrorsSelf DEF LiveLedgers, Loads, Ledgers, MirrorInv, IInv, LedgerInv
    <3>3. MirrorInv'
      BY <1>5, <3>1, <3>2 DEF MirrorInv, WellKept, HasResult
    <3>4. LiveInv'
      BY <1>5, <2>1, <3>1, <3>2 DEF LiveInv, LiveLedgers, OneLiveLedger
    <3>5. \A b \in Attempts : Remembers(b)
      BY <1>2, <1>5, <3>1, <3>2, RecallFacts DEF Remembers
    <3> QED
      BY <3>3, <3>4, <3>5 DEF Continues
  <2> QED
    BY <2>2, <2>3
<1>6. ASSUME NEW n \in AttemptRecords, NEW mode \in AppendModes, UpdatesActive(n, mode)
      PROVE  Continues
  <2> DEFINE r == ActiveLoaded
  <2>1. /\ LoadsActive /\ loaded' /\ r # NoAttempt /\ Updates(r, n) /\ Persist(n, mode)
        /\ mem' = n \/ (mode # "ok" /\ mem' = r)
        /\ mode \in {"ok", "torn"}
    BY <1>6 DEF UpdatesActive, Progress, Faithful
  <2>2. Current(r)
    BY <2>1, ActiveCurrent
  <2>3. r = mem \/ r = ledger[r.att]
    BY <1>1, <2>1, LoadedFrom
  <2> HIDE DEF r
  <2> QED
    BY <1>6, <2>1, <2>2, <2>3, UpdateContinues DEF Faithful
<1>7. ASSUME NEW a \in Attempts, NEW n \in AttemptRecords, NEW mode \in AppendModes,
             UpdatesNamed(a, n, mode)
      PROVE  Continues
  <2> DEFINE r == ledger[a]
  <2>1. /\ loaded /\ loaded' /\ mem = NoAttempt /\ Loads(r) /\ Updates(r, n)
        /\ Persist(n, mode) /\ mode \in {"ok", "torn"}
        /\ \/ mem' = n
           \/ mem' = NoAttempt /\ (LocalResourcesReleased(r) => LocalResourcesReleased(n))
    BY <1>7 DEF UpdatesNamed, Progress, Faithful
  <2>2. LiveLedgers = {}
    BY <2>1 DEF LiveInv
  <2>3. LocalResourcesReleased(r)
    BY <2>1, <2>2 DEF LiveLedgers
  <2>4. r \in AttemptRecords /\ r.att = a
    BY <1>1, <2>1 DEF Loads, Ledgers, IInv, LedgerInv
  <2>5. Current(r) /\ r = ledger[r.att]
    BY <2>2, <2>4, MirrorsSelf DEF Current, MirrorInv
  <2> HIDE DEF r
  <2> QED
    BY <2>1, <2>3, <2>5, UpdateContinues
<1>8. ASSUME NEW q \in Requests, NEW mode \in AppendModes, Claims(q, mode)
      PROVE  Continues
  BY <1>8, ClaimContinues DEF Faithful
<1>9. CASE Crash
  <2>1. mem' = NoAttempt /\ loaded' = FALSE /\ ledger' = ledger
    BY <1>9 DEF Crash
  <2>2. OneLiveLedger
    BY <1>1 DEF LiveInv, OneLiveLedger
  <2>3. MirrorInv' /\ LiveInv'
    BY <2>1, <2>2 DEF MirrorInv, LiveInv, LiveLedgers, OneLiveLedger, WellKept, HasResult
  <2>4. \A a \in Attempts : Remembers(a)
    BY <1>2, <2>1 DEF Remembers
  <2> QED
    BY <2>3, <2>4 DEF Continues
<1> QED
  BY <1>3, <1>4, <1>5, <1>6, <1>7, <1>8, <1>9 DEF Advances
(***************************************************************************)
(* The session, the live attempt and the attempts that are over            *)
(***************************************************************************)
\* Where every append is complete or torn, memory and ledgers agree.
LEMMA KeptInit ==
    ASSUME Init
    PROVE  MirrorInv /\ LiveInv
  BY SentinelAssumption
  DEF Init, MirrorInv, LiveInv, OneLiveLedger, LiveLedgers, Loads

\* A step keeps memory and files in agreement, and one attempt live.
LEMMA KeptStep ==
    ASSUME Faithful, IInv, MirrorInv, LiveInv, [Next]_vars
    PROVE  Continues
  BY StepAdvances, AdvanceContinues

\* So do all steps, from the initial state.
LEMMA Kept ==
    ASSUME Faithful
    PROVE  Spec => [](IInv /\ MirrorInv /\ LiveInv)
<1>1. Init => IInv /\ MirrorInv /\ LiveInv
  BY InitHolds, KeptInit
<1>2. IInv /\ MirrorInv /\ LiveInv /\ [Next]_vars => (IInv /\ MirrorInv /\ LiveInv)'
  <2>1. "lost" \notin FinishModes
    BY DEF Faithful, AppendModes
  <2> QED
    BY <2>1, StepHolds, KeptStep DEF Continues
<1> QED
  BY <1>1, <1>2, PTL DEF Spec

\* A session works on the journal's own attempt: begin_v2 and reset_session leave
\* no other attempt live.
THEOREM SessionWorksOnTheLiveAttempt ==
    ASSUME Faithful
    PROVE  Spec => []SessionOwnsLiveAttempt
<1>1. IInv /\ LiveInv => SessionOwnsLiveAttempt
  BY DEF IInv, LinkInv, LiveInv, SessionOwnsLiveAttempt
<1> QED
  BY <1>1, Kept, PTL

\* load_active meets at most one live attempt.
THEOREM NoLedgerConflict ==
    ASSUME Faithful
    PROVE  Spec => []OneLiveLedger
<1>1. LiveInv => OneLiveLedger
  BY DEF LiveInv, OneLiveLedger
<1> QED
  BY <1>1, Kept, PTL

\* An attempt that is over stays over: reject_terminal_reuse refuses to begin it
\* again, and every update keeps the state.
THEOREM OverForGood ==
    ASSUME Faithful
    PROVE  Spec => TerminalIsFinal
<1>1. IInv /\ MirrorInv /\ LiveInv /\ [Next]_vars
        => [\A a \in Attempts :
              (ledger[a] \in AttemptRecords /\ ledger[a].astate = "Terminal")
              => (ledger'[a] = TornLedger \/ ledger'[a].astate = "Terminal")]_vars
  <2> SUFFICES ASSUME IInv, MirrorInv, LiveInv, [Next]_vars, NEW a \in Attempts,
                      ledger[a] \in AttemptRecords, ledger[a].astate = "Terminal"
               PROVE  ledger'[a] = TornLedger \/ ledger'[a].astate = "Terminal"
    OBVIOUS
  <2> QED
    BY KeptStep DEF Continues, Remembers
<1> QED
  BY <1>1, Kept, PTL DEF Spec, TerminalIsFinal

(***************************************************************************)
(* The answers                                                             *)
(***************************************************************************)
\* The handler ends with the result n: never NotApplied if the device has carried the
\* command out, and no command but finish ends the attempt.
EndsWith(n, mode) ==
    /\ Settles(mem, n) /\ Complete(n, mode)
    /\ executed => n.outcome # "NotApplied"
    /\ Kind(busy) # "finish" /\ n.astate = "Terminal" => mem.astate = "Terminal"

\* Every completion ends its handler so.
LEMMA Resolution ==
    ASSUME IInv, NEW mode,
           \/ Completions(mode)
           \/ \E released, stopped \in BOOLEAN : CompleteFinish(released, stopped, mode)
    PROVE  /\ ~Idle
           /\ \E n \in AttemptRecords : EndsWith(n, mode)
<1>1. executed \in BOOLEAN /\ (executed => Kind(busy) \in SideEffectKinds)
  BY DEF IInv, LinkInv, TypeOK
<1>2. ASSUME ~Idle
      PROVE  /\ mem \in AttemptRecords /\ binding \in BOOLEAN
             /\ Kind(busy) \in BusinessKinds => mem.astate # "Terminal"
  BY <1>2, HandlerFacts
<1>3. CASE CompleteStart(mode)
  <2> DEFINE n == StartedRecord(mem, executed)
  <2>1. ~Idle /\ Kind(busy) \in BusinessKinds /\ Complete(n, mode)
    BY <1>3 DEF CompleteStart, BusinessKinds
  <2>2. Settles(mem, n) /\ (n.astate = "Terminal" => mem.astate = "Terminal")
    BY <1>1, <1>2, <2>1, StartedEffect DEF Effects
  <2>3. executed => n.outcome # "NotApplied"
    BY <1>2, <2>1 DEF StartedRecord, EffectResolved, AttemptRecords
  <2> HIDE DEF n
  <2> QED
    BY <2>1, <2>2, <2>3 DEF Settles, EndsWith
<1>4. ASSUME NEW outcome \in Outcomes, NEW holds \in BOOLEAN,
             CompleteFrame(outcome, holds, mode)
      PROVE  ~Idle /\ \E n \in AttemptRecords : EndsWith(n, mode)
  <2> DEFINE n == FrameRecord(mem, outcome, holds)
  <2>1. ~Idle /\ Kind(busy) \in BusinessKinds /\ Complete(n, mode)
        /\ (outcome = "NotApplied" => ~executed)
    BY <1>4 DEF CompleteFrame, BusinessKinds
  <2>2. Settles(mem, n) /\ (n.astate = "Terminal" => mem.astate = "Terminal")
    BY <1>2, <2>1, FrameEffect DEF Effects
  <2>3. n.outcome = outcome
    BY <1>2, <2>1 DEF FrameRecord, EffectResolved, AttemptRecords
  <2> HIDE DEF n
  <2> QED
    BY <2>1, <2>2, <2>3 DEF Settles, EndsWith
<1>5. ASSUME NEW n, ~Idle, Settles(mem, n), Complete(n, mode),
             Kind(busy) \notin SideEffectKinds,
             Kind(busy) # "finish" /\ n.astate = "Terminal" => mem.astate = "Terminal"
      PROVE  ~Idle /\ \E m \in AttemptRecords : EndsWith(m, mode)
  BY <1>1, <1>5 DEF Settles, EndsWith
<1>6. ASSUME NEW ok \in BOOLEAN, CompleteCapture(ok, mode)
      PROVE  ~Idle /\ \E n \in AttemptRecords : EndsWith(n, mode)
  <2> DEFINE running == Kind(busy) = "startCapture"
  <2>1. ~Idle /\ Kind(busy) \notin SideEffectKinds /\ running \in BOOLEAN
        /\ Kind(busy) \in BusinessKinds /\ Complete(CaptureRecord(mem, running, ok), mode)
    BY <1>6 DEF CompleteCapture, SideEffectKinds, BusinessKinds
  <2> HIDE DEF running
  <2>2. /\ Settles(mem, CaptureRecord(mem, running, ok))
        /\ CaptureRecord(mem, running, ok).astate # "Terminal"
    BY <1>2, <2>1, CaptureKeeps
  <2> QED
    BY <1>5, <2>1, <2>2
<1>7. ASSUME NEW ok \in BOOLEAN, CompleteCaptureFrame(ok, mode)
      PROVE  ~Idle /\ \E n \in AttemptRecords : EndsWith(n, mode)
  <2>1. ~Idle /\ Kind(busy) \notin SideEffectKinds
        /\ Kind(busy) \in BusinessKinds /\ Complete(CapturedFrameRecord(mem, ok), mode)
    BY <1>7 DEF CompleteCaptureFrame, SideEffectKinds, BusinessKinds
  <2>2. /\ Settles(mem, CapturedFrameRecord(mem, ok))
        /\ CapturedFrameRecord(mem, ok).astate # "Terminal"
    BY <1>2, <2>1, CapturedFrameKeeps
  <2> QED
    BY <1>5, <2>1, <2>2
<1>8. ASSUME NEW released \in BOOLEAN, CompleteRelease(released, mode)
      PROVE  ~Idle /\ \E n \in AttemptRecords : EndsWith(n, mode)
  <2>1. ~Idle /\ Kind(busy) \notin SideEffectKinds
        /\ Complete(ReleasedRecord(mem, released), mode)
    BY <1>8 DEF CompleteRelease, SideEffectKinds
  <2>2. /\ Settles(mem, ReleasedRecord(mem, released))
        /\ ReleasedRecord(mem, released).astate = mem.astate
    BY <1>2, <2>1, ReleasedKeeps
  <2> QED
    BY <1>5, <2>1, <2>2
<1>9. ASSUME NEW released \in BOOLEAN, NEW stopped \in BOOLEAN,
             CompleteFinish(released, stopped, mode)
      PROVE  ~Idle /\ \E n \in AttemptRecords : EndsWith(n, mode)
  <2>1. ~Idle /\ Kind(busy) \notin SideEffectKinds /\ Kind(busy) = "finish"
        /\ Complete(CompletedFinishRecord(mem, released, stopped, binding), mode)
    BY <1>9 DEF CompleteFinish, SideEffectKinds
  <2>2. Settles(mem, CompletedFinishRecord(mem, released, stopped, binding))
    BY <1>2, <2>1, CompletedFinishKeeps
  <2> QED
    BY <1>5, <2>1, <2>2
<1> QED
  BY <1>3, <1>4, <1>6, <1>7, <1>8, <1>9 DEF Completions

\* The Hub is told nothing, or what memory has stored for the command.
Informs ==
    \/ UNCHANGED answered
    \/ \E q \in Requests, outcome \in Outcomes :
          /\ Answer(q, outcome)
          /\ mem' # NoAttempt /\ mem'.att = q.att
          /\ Told(mem', q.id, outcome)

\* A step that answers a command answers what memory has stored for it.
LEMMA StepInforms ==
    ASSUME IInv, MirrorInv, [Next]_vars
    PROVE  Informs
<1>1. CASE UNCHANGED vars
  BY <1>1 DEF vars, history, Informs
<1>2. ASSUME NEW mode \in PersistModes, NEW q \in Requests, Commands(q, mode)
      PROVE  Informs
  <2>1. CASE Replay(q)
    <3>1. /\ mem # NoAttempt /\ mem.att = q.att /\ mem' = mem /\ Known(mem, q)
          /\ Answer(q, KnownOutcome(mem, q))
      BY <2>1 DEF Replay, Accepts, memory
    <3>2. mem \in AttemptRecords /\ WellKept(mem)
      BY <3>1 DEF IInv, TypeOK, MirrorInv
    <3>3. HasResult(mem, q.id)
      BY <3>1, <3>2 DEF Known, WellKept
    <3>4. KnownOutcome(mem, q) = mem.results[q.id].outcome
      BY <3>3 DEF KnownOutcome
    <3>5. mem.results[q.id] \in StoredResults
      BY <3>2, <3>3 DEF AttemptRecords, HasResult, Requests
    <3>6. KnownOutcome(mem, q) \in Outcomes
      BY <3>4, <3>5 DEF StoredResults
    <3> QED
      BY <3>1, <3>3, <3>4, <3>6 DEF Informs, Told
  <2>2. CASE Reject(q, mode)
    <3>1. /\ mem # NoAttempt /\ mem.att = q.att /\ mem' = RejectedRecord(mem, q)
          /\ ~HasResult(mem, q.id) /\ CanRecord(mem, q.id, BusinessLimit)
          /\ Answer(q, "NotApplied") \/ UNCHANGED answered
      BY <2>2 DEF Reject, Accepts, Record, AnswerIf
    <3>2. mem \in AttemptRecords /\ "NotApplied" \in Outcomes
      BY <3>1 DEF IInv, TypeOK, Outcomes
    <3> DEFINE n == RejectedRecord(mem, q)
    <3>3. Updates(mem, n) /\ Told(n, q.id, "NotApplied")
      BY <3>1, <3>2, RejectedProgress DEF Progress
    <3>4. n # NoAttempt /\ n.att = mem.att
      BY <3>3, SentinelAssumption DEF Updates
    <3> HIDE DEF n
    <3> QED
      BY <3>1, <3>2, <3>3, <3>4 DEF Informs, n
  <2>3. CASE PrepareInterrupted(q, mode)
    <3> DEFINE n == InterruptedRecord(mem, q)
    <3>1. /\ mem # NoAttempt /\ mem.att = q.att /\ mem' = n /\ Interrupted(mem, q)
          /\ Answer(q, n.outcome) \/ UNCHANGED answered
      BY <2>3 DEF PrepareInterrupted, Accepts, Record, AnswerIf
    <3>2. mem \in AttemptRecords
      BY <3>1 DEF IInv, TypeOK
    <3>3. Updates(mem, n) /\ Told(n, q.id, n.outcome) /\ n.outcome \in Outcomes
      BY <3>1, <3>2, InterruptedProgress DEF Progress
    <3>4. n # NoAttempt /\ n.att = mem.att
      BY <3>3, SentinelAssumption DEF Updates
    <3> HIDE DEF n
    <3> QED
      BY <3>1, <3>3, <3>4 DEF Informs
  <2>4. CASE ~(Replay(q) \/ Reject(q, mode) \/ PrepareInterrupted(q, mode))
    BY <1>2, <2>4
    DEF Commands, DigestConflict, BeginAgain, Begin, Inspect, InspectNamed, Prepare,
        PrepareRecovery, ResumeRecovery, Intend, history, Informs
  <2> QED
    BY <2>1, <2>2, <2>3, <2>4
<1>3. ASSUME NEW mode,
             \/ Completions(mode)
             \/ \E released, stopped \in BOOLEAN : CompleteFinish(released, stopped, mode)
      PROVE  Informs
  <2>1. PICK n \in AttemptRecords : Settles(mem, n) /\ Complete(n, mode)
    BY <1>3, Resolution DEF EndsWith
  <2>2. busy \in Requests /\ mem.att = busy.att /\ mem.last = busy.id
        /\ ~HasResult(mem, mem.last) /\ mem \in AttemptRecords
    BY <1>3, Resolution, HandlerFacts
  <2> DEFINE m == StoreCurrentResult(n)
  <2>3. mem' = m /\ (Answer(busy, n.outcome) \/ UNCHANGED answered)
    BY <2>1 DEF Complete, Record, AnswerIf
  <2>4. n.outcome \in Outcomes /\ n.last = busy.id /\ n.att = busy.att
        /\ n.last \in CommandIds
    BY <2>1, <2>2 DEF Settles, AttemptRecords
  <2>5. /\ m \in AttemptRecords /\ m.att = n.att
        /\ m.results[n.last] = CurrentResult(n)
        /\ CurrentResult(n) \in StoredResults /\ CurrentResult(n).outcome = n.outcome
    BY <2>4, StoreFacts
  <2> HIDE DEF m
  <2>6. Told(m, busy.id, n.outcome) /\ m # NoAttempt
    BY <2>4, <2>5, SentinelAssumption DEF Told, HasResult
  <2> QED
    BY <2>2, <2>3, <2>4, <2>5, <2>6 DEF Informs
<1>4. ASSUME NEW mode, Background(mode)
      PROVE  Informs
  BY <1>4 DEF Background, WorkerFails, RealtimeFailure, ResetSession, ContractExpired,
              CaptureFailure, LeaseExpired, history, Informs
<1>5. CASE Fire \/ Abandon \/ SessionLost \/ FramePipelineLost \/ ChangeTarget \/ Crash
  BY <1>5 DEF Fire, Abandon, SessionLost, FramePipelineLost, ChangeTarget, Crash,
              history, Informs
<1> QED
  BY <1>1, <1>2, <1>3, <1>4, <1>5 DEF Next

\* What was told stays stored, and what is told is stored.
LEMMA AnswerStep ==
    ASSUME IInv, AnswerInv, MirrorInv', \A a \in Attempts : Remembers(a), Informs
    PROVE  AnswerInv'
<1>1. ASSUME NEW a \in Attempts, NEW c \in CommandIds, NEW outcome \in answered[a][c]
      PROVE  /\ \/ ledger'[a] = TornLedger
                \/ ledger'[a] \in AttemptRecords /\ Told(ledger'[a], c, outcome)
             /\ mem' # NoAttempt /\ mem'.att = a => Told(mem', c, outcome)
  <2>1. /\ \/ ledger[a] = TornLedger
           \/ ledger[a] \in AttemptRecords /\ Told(ledger[a], c, outcome)
        /\ mem # NoAttempt /\ mem.att = a => Told(mem, c, outcome)
    BY DEF AnswerInv
  <2>2. \A x, y : Told(x, c, outcome) /\ Recalls(x, y) => Told(y, c, outcome)
    BY DEF Told, Recalls
  <2>3. ledger[a] # NoLedger /\ TornLedger \notin AttemptRecords
    BY <2>1, SentinelAssumption
  <2> QED
    BY <2>1, <2>2, <2>3 DEF Remembers
<1>2. CASE UNCHANGED answered
  BY <1>1, <1>2 DEF AnswerInv, Told, HasResult
<1>3. ASSUME NEW q \in Requests, NEW outcome \in Outcomes, Answer(q, outcome),
             mem' # NoAttempt, mem'.att = q.att, Told(mem', q.id, outcome)
      PROVE  AnswerInv'
  <2>1. q.att \in Attempts /\ q.id \in CommandIds
    BY DEF Requests
  <2>2. ledger'[q.att] = TornLedger \/ Mirrors(mem', ledger'[q.att])
    BY <1>3 DEF MirrorInv
  <2>3. \/ ledger'[q.att] = TornLedger
        \/ ledger'[q.att] \in AttemptRecords /\ Told(ledger'[q.att], q.id, outcome)
    BY <1>3, <2>1, <2>2 DEF Mirrors, Told
  <2>4. \A a \in Attempts, c \in CommandIds :
            answered'[a][c] = IF a = q.att /\ c = q.id THEN answered[a][c] \cup {outcome}
                                                       ELSE answered[a][c]
    BY <1>3, <2>1 DEF Answer, IInv, TypeOK
  <2>5. \A o \in answered[q.att][q.id] : o = outcome
    BY <1>1, <1>3, <2>1 DEF Told
  <2>6. ASSUME NEW a \in Attempts, NEW c \in CommandIds, NEW o \in answered'[a][c]
        PROVE  /\ \/ ledger'[a] = TornLedger
                  \/ ledger'[a] \in AttemptRecords /\ Told(ledger'[a], c, o)
               /\ mem' # NoAttempt /\ mem'.att = a => Told(mem', c, o)
               /\ answered'[a][c] = {o}
    <3>1. CASE a = q.att /\ c = q.id
      <4>1. answered'[a][c] = {outcome} /\ o = outcome
        BY <2>4, <2>5, <3>1
      <4> QED
        BY <1>3, <2>3, <3>1, <4>1
    <3>2. CASE ~(a = q.att /\ c = q.id)
      <4>1. o \in answered[a][c] /\ answered'[a][c] = answered[a][c]
        BY <2>4, <3>2
      <4>2. answered[a][c] = {o}
        BY <4>1 DEF AnswerInv
      <4> QED
        BY <1>1, <4>1, <4>2
    <3> QED
      BY <3>1, <3>2
  <2> QED
    BY <2>6 DEF AnswerInv, Told, HasResult
<1> QED
  BY <1>2, <1>3 DEF Informs

\* What the Hub is told is stored, throughout.
LEMMA AnswersStored ==
    ASSUME Faithful
    PROVE  Spec => []AnswerInv
<1>1. Init => AnswerInv
  BY DEF Init, AnswerInv
<1>2. IInv /\ MirrorInv /\ LiveInv /\ AnswerInv /\ [Next]_vars => AnswerInv'
  BY KeptStep, StepInforms, AnswerStep DEF Continues
<1> QED
  BY <1>1, <1>2, Kept, PTL DEF Spec

\* The Hub is told one outcome of a command, however often it asks and whatever
\* crashes in between: what it was told is what is stored.
THEOREM OneOutcome ==
    ASSUME Faithful
    PROVE  Spec => []AnswersAgree
<1>1. AnswerInv => AnswersAgree
  <2> SUFFICES ASSUME AnswerInv, NEW a \in Attempts, NEW c \in CommandIds
               PROVE  Cardinality(answered[a][c]) <= 1
    BY DEF AnswersAgree
  <2>1. CASE answered[a][c] = {}
    BY <2>1, FS_EmptySet
  <2>2. CASE answered[a][c] # {}
    <3>1. PICK o \in answered[a][c] : answered[a][c] = {o}
      BY <2>2 DEF AnswerInv
    <3>2. Cardinality({o}) = 1
      BY FS_Singleton
    <3> QED
      BY <3>1, <3>2
  <2> QED
    BY <2>1, <2>2
<1> QED
  BY <1>1, AnswersStored, PTL
(***************************************************************************)
(* The answers of a process that does not crash                            *)
(***************************************************************************)
\* A command that is under way stays so until its handler has stored a result that
\* says it was carried out.
LEMMA UnderWayStep ==
    ASSUME IInv, ~Crashes, [Next]_vars,
           NEW a \in Attempts, NEW c \in CommandIds, UnderWay(a, c)
    PROVE  \/ UnderWay(a, c)'
           \/ mem' # NoAttempt /\ mem'.att = a /\ Spent(mem', c)
<1>1. executed /\ Key(busy) = <<a, c>> /\ ~Idle /\ executed \in BOOLEAN
  BY DEF UnderWay, IInv, LinkInv, TypeOK
<1>2. CASE UNCHANGED vars
  BY <1>1, <1>2 DEF vars, handler, UnderWay, Key
<1>3. ASSUME NEW mode,
             \/ Completions(mode)
             \/ \E released, stopped \in BOOLEAN : CompleteFinish(released, stopped, mode)
      PROVE  mem' # NoAttempt /\ mem'.att = a /\ Spent(mem', c)
  <2>1. PICK n \in AttemptRecords : /\ Settles(mem, n) /\ Complete(n, mode)
                                    /\ executed => n.outcome # "NotApplied"
    BY <1>3, Resolution DEF EndsWith
  <2>2. mem.att = a /\ mem.last = c
    BY <1>1, HandlerFacts DEF Key
  <2> DEFINE m == StoreCurrentResult(n)
  <2>3. n.outcome \in Outcomes /\ n.last = c /\ n.att = a /\ n.outcome # "NotApplied"
    BY <1>1, <2>1, <2>2 DEF Settles
  <2>4. /\ m \in AttemptRecords /\ m.att = n.att
        /\ m.results[n.last] = CurrentResult(n)
        /\ CurrentResult(n) \in StoredResults /\ CurrentResult(n).outcome = n.outcome
    BY <2>3, StoreFacts
  <2>5. mem' = m
    BY <2>1 DEF Complete, Record
  <2> HIDE DEF m
  <2> QED
    BY <2>3, <2>4, <2>5, SentinelAssumption DEF Spent, HasResult
<1>4. ~Fire /\ ~Abandon /\ ~SessionLost /\ ~FramePipelineLost /\ ~ChangeTarget /\ ~Crash
  BY <1>1 DEF Fire, Abandon, SessionLost, FramePipelineLost, ChangeTarget, Crash
<1>5. \A mode : ~Background(mode)
  BY <1>1 DEF Background, WorkerFails, RealtimeFailure, ResetSession, ContractExpired,
              CaptureFailure, LeaseExpired
<1>6. ASSUME NEW q, NEW mode, Commands(q, mode)
      PROVE  FALSE
  BY <1>1, <1>6 DEF Commands, DigestConflict, Replay, BeginAgain, Begin, Inspect, InspectNamed,
              Reject, Prepare, PrepareRecovery, ResumeRecovery, PrepareInterrupted, Accepts
<1> QED
  BY <1>2, <1>3, <1>4, <1>5, <1>6 DEF Next

\* Only Fire adds to what the device has carried out, for the running handler.
LEMMA FiredOrSame ==
    ASSUME [Next]_vars
    PROVE  \/ fired' = fired
           \/ fired' = fired \cup {Key(busy)} /\ UNCHANGED <<memory, ledger, busy, answered>>
                                              /\ executed' = TRUE
<1>1. CASE UNCHANGED vars
  BY <1>1 DEF vars, history
<1>2. CASE Fire
  BY <1>2 DEF Fire
<1>3. CASE Next /\ ~Fire
  BY <1>3, OthersKeepFired
<1> QED
  BY <1>1, <1>2, <1>3

\* Without crashes, what was carried out keeps its result.
LEMMA TrueStep ==
    ASSUME IInv, IInv', ~Crashes, [Next]_vars, TrueInv, MirrorInv',
           \A a \in Attempts : Remembers(a)
    PROVE  TrueInv'
<1>1. ASSUME NEW a \in Attempts, NEW c \in CommandIds, <<a, c>> \in fired, UnderWay(a, c)
      PROVE  \/ UnderWay(a, c)'
             \/ /\ \/ ledger'[a] = TornLedger
                   \/ ledger'[a] \in AttemptRecords /\ Spent(ledger'[a], c)
                /\ mem' # NoAttempt /\ mem'.att = a => Spent(mem', c)
  <2>1. CASE UnderWay(a, c)'
    BY <2>1
  <2>2. CASE mem' # NoAttempt /\ mem'.att = a /\ Spent(mem', c)
    <3>1. ledger'[a] = TornLedger \/ Mirrors(mem', ledger'[a])
      BY <2>2 DEF MirrorInv
    <3> QED
      BY <2>2, <3>1 DEF Mirrors, Spent
  <2> QED
    BY <1>1, <2>1, <2>2, UnderWayStep
<1>2. ASSUME NEW a \in Attempts, NEW c \in CommandIds, <<a, c>> \in fired, ~UnderWay(a, c)
      PROVE  /\ \/ ledger'[a] = TornLedger
                \/ ledger'[a] \in AttemptRecords /\ Spent(ledger'[a], c)
             /\ mem' # NoAttempt /\ mem'.att = a => Spent(mem', c)
  <2>1. /\ \/ ledger[a] = TornLedger
           \/ ledger[a] \in AttemptRecords /\ Spent(ledger[a], c)
        /\ mem # NoAttempt /\ mem.att = a => Spent(mem, c)
    BY <1>2 DEF TrueInv
  <2>2. \A x, y : Spent(x, c) /\ Recalls(x, y) => Spent(y, c)
    BY DEF Spent, Recalls
  <2>3. ledger[a] # NoLedger /\ TornLedger \notin AttemptRecords
    BY <2>1, SentinelAssumption
  <2> QED
    BY <2>1, <2>2, <2>3 DEF Remembers
<1>3. ASSUME NEW a \in Attempts, NEW c \in CommandIds,
             <<a, c>> \in fired', <<a, c>> \notin fired
      PROVE  UnderWay(a, c)'
  <2>1. Key(busy) = <<a, c>> /\ busy' = busy /\ executed' = TRUE
    BY <1>3, FiredOrSame
  <2> QED
    BY <2>1 DEF UnderWay, Key
<1>4. ASSUME NEW a \in Attempts, NEW c \in CommandIds, <<a, c>> \in fired'
      PROVE  /\ \/ ledger'[a] = TornLedger
                \/ ledger'[a] \in AttemptRecords /\ Spent(ledger'[a], c)
                \/ UnderWay(a, c)'
             /\ mem' # NoAttempt /\ mem'.att = a => Spent(mem', c) \/ UnderWay(a, c)'
  BY <1>1, <1>2, <1>3, <1>4
<1> QED
  BY <1>4 DEF TrueInv, Spent, HasResult, UnderWay, Key

\* A command of the attempt in memory that was not applied was not carried out.
MemoryTrue ==
    mem # NoAttempt =>
        \A c \in CommandIds :
            "NotApplied" \in answered[mem.att][c] => <<mem.att, c>> \notin fired

\* A command that is answered as not applied was not carried out, by what memory has.
LEMMA TrueOfMemory ==
    ASSUME IInv, AnswerInv, TrueInv
    PROVE  MemoryTrue
<1> SUFFICES ASSUME mem # NoAttempt, NEW c \in CommandIds,
                    "NotApplied" \in answered[mem.att][c], <<mem.att, c>> \in fired
             PROVE  FALSE
  BY DEF MemoryTrue
<1>1. mem.att \in Attempts
  BY DEF IInv, TypeOK, AttemptRecords
<1>2. Told(mem, c, "NotApplied")
  BY <1>1 DEF AnswerInv
<1>3. UnderWay(mem.att, c)
  BY <1>1, <1>2 DEF TrueInv, Told, Spent
<1>4. ~HasResult(mem, c)
  BY <1>3 DEF UnderWay, Key, IInv, LinkInv, HandlerInv
<1> QED
  BY <1>2, <1>4 DEF Told

\* The answers stay true.
LEMMA AnswersTrueStep ==
    ASSUME IInv, AnswersTrue, Informs, [Next]_vars, IInv', AnswerInv', TrueInv'
    PROVE  AnswersTrue'
<1>1. MemoryTrue'
  BY TrueOfMemory, PTL
<1>2. ASSUME NEW a \in Attempts, NEW c \in CommandIds,
             "NotApplied" \in answered'[a][c], <<a, c>> \in fired'
      PROVE  FALSE
  <2>1. CASE "NotApplied" \notin answered[a][c]
    <3>1. PICK q \in Requests, outcome \in Outcomes :
              Answer(q, outcome) /\ mem' # NoAttempt /\ mem'.att = q.att
      BY <1>2, <2>1 DEF Informs
    <3>2. a = q.att
      BY <1>2, <2>1, <3>1 DEF Answer, IInv, TypeOK, Requests
    <3> QED
      BY <1>1, <1>2, <3>1, <3>2 DEF MemoryTrue
  <2>2. CASE <<a, c>> \notin fired
    <3>1. Key(busy) = <<a, c>> /\ busy' = busy /\ executed'
      BY <1>2, <2>2, FiredOrSame
    <3>2. mem' # NoAttempt /\ mem'.att = a
      BY <3>1 DEF Key, IInv, LinkInv, HandlerInv
    <3> QED
      BY <1>1, <1>2, <3>2 DEF MemoryTrue
  <2>3. CASE "NotApplied" \in answered[a][c] /\ <<a, c>> \in fired
    BY <2>3 DEF AnswersTrue
  <2> QED
    BY <2>1, <2>2, <2>3
<1> QED
  BY <1>2 DEF AnswersTrue

\* As long as the process lives, a command the Hub was told is not applied has not
\* been carried out, and never will be.
THEOREM NotAppliedIsTrue ==
    ASSUME Faithful, ~Crashes
    PROVE  Spec => []AnswersTrue
<1>1. Init => TrueInv /\ AnswersTrue
  BY DEF Init, TrueInv, AnswersTrue
<1>2. /\ IInv /\ MirrorInv /\ LiveInv /\ AnswerInv
      /\ (IInv /\ MirrorInv /\ LiveInv /\ AnswerInv)'
      /\ TrueInv /\ AnswersTrue /\ [Next]_vars
      => (TrueInv /\ AnswersTrue)'
  <2> SUFFICES ASSUME IInv, MirrorInv, LiveInv, AnswerInv, IInv', MirrorInv', LiveInv',
                      AnswerInv', TrueInv, AnswersTrue, [Next]_vars
               PROVE  (TrueInv /\ AnswersTrue)'
    OBVIOUS
  <2>1. \A a \in Attempts : Remembers(a)
    BY KeptStep DEF Continues
  <2>2. TrueInv'
    BY <2>1, TrueStep
  <2>3. AnswersTrue'
    BY <2>2, StepInforms, AnswersTrueStep
  <2> QED
    BY <2>2, <2>3
<1> QED
  BY <1>1, <1>2, Kept, AnswersStored, PTL DEF Spec
(***************************************************************************)
(* The validation of the ledgers                                           *)
(***************************************************************************)
\* An append of a fit record to a valid file leaves a valid file.
LEMMA AppendFit ==
    ASSUME NEW file \in Ledgers, NEW n \in AttemptRecords, Fit(n),
           file \in AttemptRecords => Valid(file)
    PROVE  Appended(file, n) \in AttemptRecords =>
               Fit(Appended(file, n)) /\ Valid(Appended(file, n))
<1>1. CASE file = TornLedger
  BY <1>1, SentinelAssumption DEF Appended
<1>2. CASE file # TornLedger
  <2> DEFINE before == IF file = NoLedger THEN [c \in CommandIds |-> NoResult]
                                          ELSE file.results
             line == [n EXCEPT !.results = before]
  <2>1. before \in [CommandIds -> StoredResults \cup {NoResult}]
    BY <1>2 DEF Ledgers, AttemptRecords
  <2>2. \A c \in CommandIds : before[c] # NoResult => before[c].sound
    BY <1>2 DEF Ledgers, Valid, Recorded, HasResult
  <2>3. Appended(file, n) = IF n.outcome = Unspecified THEN line ELSE StoreCurrentResult(line)
    BY <1>2 DEF Appended
  <2> HIDE DEF before
  <2>4. /\ line \in AttemptRecords /\ line.outcome = n.outcome /\ line.results = before
        /\ line.last = n.last /\ line.astate = n.astate /\ line.input = n.input
        /\ line.capture = n.capture /\ line.target = n.target /\ line.side = n.side
        /\ line.owned = n.owned /\ line.cleanup = n.cleanup
        /\ n.outcome \in Outcomes \cup {Unspecified} /\ n.last \in CommandIds
    BY <2>1 DEF AttemptRecords
  <2> HIDE DEF line
  <2>5. Fit(line)
    BY <2>4 DEF Fit, CleanupSound, CleanupDue, LocalResourcesReleased, Unresolved
  <2>6. CASE n.outcome = Unspecified
    <3>1. Valid(line)
      BY <2>2, <2>4, <2>5, <2>6 DEF Valid, Fit, Recorded, HasResult
    <3> QED
      BY <2>3, <2>5, <2>6, <3>1
  <2>7. CASE n.outcome # Unspecified
    <3> DEFINE m == StoreCurrentResult(line)
    <3>1. /\ m \in AttemptRecords /\ m.last = n.last /\ m.outcome = n.outcome
          /\ \A c \in CommandIds :
                m.results[c] = IF c = n.last THEN CurrentResult(line) ELSE before[c]
          /\ CurrentResult(line) \in StoredResults
          /\ CurrentResult(line).outcome = n.outcome
          /\ Fit(m)
      BY <2>4, <2>5, <2>7, StoreFacts, StoreFit
    <3>2. CurrentResult(line).sound /\ m.pay = line.pay /\ CurrentResult(line).pay = line.pay
      BY <2>4, <2>5 DEF Fit, CurrentResult, StoreCurrentResult, AttemptRecords
    <3>3. CurrentResult(line) # NoResult
      BY <3>1, SentinelAssumption
    <3> HIDE DEF m
    <3>4. \A c \in Recorded(m) : m.results[c].sound
      BY <2>2, <3>1, <3>2 DEF Recorded, HasResult
    <3>5. /\ HasResult(m, m.last) /\ m.results[m.last].pay = m.pay
          /\ m.results[m.last].outcome = m.outcome
      BY <2>4, <3>1, <3>2, <3>3 DEF HasResult
    <3>6. Valid(m)
      BY <3>1, <3>4, <3>5 DEF Valid, Fit
    <3> QED
      BY <2>3, <2>7, <3>1, <3>6 DEF m
  <2> QED
    BY <2>4, <2>6, <2>7
<1> QED
  BY <1>1, <1>2

\* The ledgers pass their validation.
LedgersFit ==
    \A a \in Attempts : ledger[a] \in AttemptRecords => Fit(ledger[a]) /\ Valid(ledger[a])

\* An append of a fit record leaves only files that can be read.
LEMMA PersistFit ==
    ASSUME IInv, LedgersFit, NEW n \in AttemptRecords, Fit(n),
           NEW mode \in AppendModes, Persist(n, mode)
    PROVE  LedgersFit'
<1>1. n.att \in Attempts /\ ledger \in [Attempts -> Ledgers] /\ mode \in Modes
  BY ModesUsed DEF IInv, TypeOK, AttemptRecords, AppendModes
<1>2. \A a \in Attempts \ {n.att} : ledger'[a] = ledger[a]
  BY <1>1, PersistFacts
<1>3. ledger'[n.att] \in {ledger[n.att], TornLedger, Appended(ledger[n.att], n)}
  BY <1>1 DEF Persist, Modes
<1>4. Appended(ledger[n.att], n) \in AttemptRecords =>
          Fit(Appended(ledger[n.att], n)) /\ Valid(Appended(ledger[n.att], n))
  BY <1>1, AppendFit DEF LedgersFit
<1>5. ASSUME NEW a \in Attempts, ledger'[a] \in AttemptRecords
      PROVE  Fit(ledger'[a]) /\ Valid(ledger'[a])
  <2>1. CASE a = n.att
    BY <1>1, <1>3, <1>4, <1>5, <2>1, SentinelAssumption DEF LedgersFit
  <2>2. CASE a # n.att
    BY <1>2, <1>5, <2>2 DEF LedgersFit
  <2> QED
    BY <2>1, <2>2
<1> QED
  BY <1>5 DEF LedgersFit, Fit, Valid, CleanupSound, CleanupDue, LocalResourcesReleased,
              Unresolved, Recorded, HasResult

\* Every record that is kept or appended is fit.
LEMMA RecordsFit ==
    ASSUME IInv, FitInv, ReleaseResults \subseteq {TRUE}, Advances
    PROVE  (mem' # NoAttempt => Fit(mem')) /\ LedgersFit'
<1>1. LedgersFit /\ ledger \in [Attempts -> Ledgers]
  BY DEF FitInv, LedgersFit, IInv, TypeOK
<1>2. ledger' = ledger => LedgersFit'
  BY <1>1 DEF LedgersFit, Fit, Valid, CleanupSound, CleanupDue, LocalResourcesReleased,
              Unresolved, Recorded, HasResult
<1>3. ASSUME LoadsActive, ActiveLoaded # NoAttempt
      PROVE  Fit(ActiveLoaded)
  BY <1>1, <1>3, LoadedFrom DEF FitInv, LedgersFit
<1>4. CASE mem' = mem /\ loaded' = loaded /\ ledger' = ledger
  BY <1>2, <1>4 DEF FitInv
<1>5. CASE LoadsActive /\ loaded' = TRUE /\ mem' = ActiveLoaded /\ ledger' = ledger
  BY <1>2, <1>3, <1>5
<1>6. CASE LoadFails /\ ledger' = ledger
  <2>1. mem' = mem \/ \E a \in LiveLedgers : mem' = ledger[a]
    BY <1>6 DEF LoadFails, ReadBeforeFailure
  <2>2. \A a \in LiveLedgers : Fit(ledger[a])
    BY <1>1 DEF LiveLedgers, Loads, Ledgers, LedgersFit
  <2> QED
    BY <1>2, <1>6, <2>1, <2>2 DEF FitInv
<1>7. ASSUME NEW n \in AttemptRecords, NEW mode \in AppendModes, UpdatesActive(n, mode)
      PROVE  (mem' # NoAttempt => Fit(mem')) /\ LedgersFit'
  <2>1. Fit(ActiveLoaded)
    BY <1>3, <1>7 DEF UpdatesActive
  <2>2. Fit(n)
    BY <1>7, <2>1 DEF UpdatesActive, Progress
  <2> QED
    BY <1>1, <1>7, <2>1, <2>2, PersistFit DEF UpdatesActive
<1>8. ASSUME NEW a \in Attempts, NEW n \in AttemptRecords, NEW mode \in AppendModes,
             UpdatesNamed(a, n, mode)
      PROVE  (mem' # NoAttempt => Fit(mem')) /\ LedgersFit'
  <2>1. Fit(ledger[a])
    BY <1>1, <1>8 DEF UpdatesNamed, Loads, Ledgers, LedgersFit
  <2>2. Fit(n)
    BY <1>8, <2>1 DEF UpdatesNamed, Progress
  <2> QED
    BY <1>1, <1>8, <2>2, PersistFit DEF UpdatesNamed
<1>9. ASSUME NEW q \in Requests, NEW mode \in AppendModes, Claims(q, mode)
      PROVE  (mem' # NoAttempt => Fit(mem')) /\ LedgersFit'
  <2> DEFINE claim == Claimed(q.att, q.id, q.pay)
  <2>1. Fit(claim) /\ claim \in AttemptRecords
    BY ClaimedFacts
  <2>2. Persist(claim, mode) /\ mem' = IF mode = "ok" THEN claim ELSE NoAttempt
    BY <1>9 DEF Claims
  <2> HIDE DEF claim
  <2> QED
    BY <1>1, <2>1, <2>2, PersistFit
<1>10. CASE Crash
  BY <1>2, <1>10 DEF Crash
<1> QED
  BY <1>4, <1>5, <1>6, <1>7, <1>8, <1>9, <1>10 DEF Advances

\* Nothing more is held or captured, and no attempt ends.
LEMMA QuietKept ==
    ASSUME QuietInv, lease' \in {lease, FALSE}, capturing' \in {capturing, FALSE},
           loaded => loaded',
           loaded /\ mem # NoAttempt =>
               mem' # NoAttempt /\ (mem'.astate = "Terminal" => mem.astate = "Terminal")
    PROVE  QuietInv'
  BY DEF QuietInv

\* A record that keeps the state of the one in memory.
LEMMA RecordQuiet ==
    ASSUME IInv, QuietInv, loaded, mem # NoAttempt, NEW n, NEW mode, Record(n, mode),
           n \in AttemptRecords, n.astate = mem.astate,
           lease' \in {lease, FALSE}, capturing' \in {capturing, FALSE}
    PROVE  QuietInv'
<1>1. n # NoAttempt /\ mem' = n /\ loaded' = loaded
  BY SentinelAssumption DEF Record
<1> QED
  BY <1>1, QuietKept

\* No command leaves input or capture on under a terminal record.
LEMMA CommandsQuiet ==
    ASSUME IInv, QuietInv, NEW q \in Requests, NEW mode, Commands(q, mode)
    PROVE  QuietInv'
<1>1. session => loaded
  BY DEF IInv, LinkInv
<1>2. /\ Accepts(q) => loaded /\ mem # NoAttempt
      /\ mem # NoAttempt => mem \in AttemptRecords
  BY <1>1 DEF Accepts, IInv, TypeOK
<1>3. CASE DigestConflict(q, mode)
  <2>1. /\ loaded /\ mem # NoAttempt /\ Record(ConflictRecord(mem), mode)
        /\ lease' = lease /\ capturing' = capturing
    BY <1>2, <1>3 DEF DigestConflict, devices
  <2> QED
    BY <1>2, <2>1, ConflictKeeps, RecordQuiet DEF Keeps
<1>4. CASE Replay(q) \/ BeginAgain(q) \/ ResumeRecovery(q)
  <2>1. /\ loaded /\ mem # NoAttempt /\ mem' = mem /\ loaded' = loaded
        /\ lease' = lease /\ capturing' = capturing
    BY <1>2, <1>4 DEF Replay, BeginAgain, ResumeRecovery, devices, memory
  <2> QED
    BY <2>1, QuietKept
<1>5. CASE Begin(q, mode)
  <2>1. /\ mem # NoAttempt => mem.astate = "Terminal"
        /\ lease' = lease /\ capturing' = capturing
    BY <1>5 DEF Begin, LocalResourcesReleased, devices
  <2> QED
    BY <2>1 DEF QuietInv
<1>6. CASE Inspect(q, mode)
  <2>1. /\ loaded /\ mem # NoAttempt /\ Record(InspectedRecord(mem, q), mode)
        /\ lease' = lease /\ capturing' = capturing /\ ~HasResult(mem, q.id)
    BY <1>2, <1>6 DEF Inspect, devices
  <2> QED
    BY <1>2, <2>1, InspectedKeeps, RecordQuiet DEF Keeps
<1>7. CASE InspectNamed(q, mode)
  BY <1>7 DEF InspectNamed, devices, QuietInv
<1>8. CASE Reject(q, mode)
  <2>1. /\ loaded /\ mem # NoAttempt /\ Record(RejectedRecord(mem, q), mode)
        /\ lease' = lease /\ capturing' = capturing /\ ~HasResult(mem, q.id)
    BY <1>2, <1>8 DEF Reject, devices
  <2> QED
    BY <1>2, <2>1, RejectedKeeps, RecordQuiet DEF Keeps
<1>9. CASE Prepare(q, mode) \/ PrepareRecovery(q, mode)
  <2>1. /\ loaded /\ mem # NoAttempt /\ Record(IntentRecord(mem, q), mode)
        /\ lease' = lease /\ capturing' = capturing
    BY <1>2, <1>9 DEF Prepare, PrepareRecovery, Intend, devices
  <2> QED
    BY <1>2, <2>1, IntentKeeps, RecordQuiet DEF Keeps
<1>10. CASE PrepareInterrupted(q, mode)
  <2>1. /\ loaded /\ mem # NoAttempt /\ Record(InterruptedRecord(mem, q), mode)
        /\ lease' = lease /\ capturing' = capturing /\ ~HasResult(mem, q.id)
        /\ mem.last = q.id
    BY <1>2, <1>10 DEF PrepareInterrupted, Interrupted, devices
  <2> QED
    BY <1>2, <2>1, InterruptedKeeps, RecordQuiet DEF Keeps
<1> QED
  BY <1>3, <1>4, <1>5, <1>6, <1>7, <1>8, <1>9, <1>10 DEF Commands

\* Nor does the end of a handler.
LEMMA CompletionsQuiet ==
    ASSUME IInv, QuietInv, ReleaseResults \subseteq {TRUE}, NEW mode,
           \/ Completions(mode)
           \/ \E released, stopped \in BOOLEAN : CompleteFinish(released, stopped, mode)
    PROVE  QuietInv'
<1>1. CASE \E released, stopped \in BOOLEAN : CompleteFinish(released, stopped, mode)
  BY <1>1 DEF CompleteFinish, QuietInv
<1>2. CASE Completions(mode)
  <2>1. PICK n \in AttemptRecords : EndsWith(n, mode)
    BY <1>2, Resolution
  <2>2. /\ ~Idle /\ mem # NoAttempt /\ loaded /\ mem \in AttemptRecords
        /\ Kind(busy) \in BusinessKinds => mem.astate # "Terminal"
    BY <1>2, Resolution, HandlerFacts DEF IInv, LinkInv
  <2> DEFINE m == StoreCurrentResult(n)
  <2>3. m \in AttemptRecords /\ m.astate = n.astate /\ mem' = m /\ loaded' = loaded
    BY <2>1, StoreFacts DEF EndsWith, Settles, Complete, Record
  <2> HIDE DEF m
  <2>4. Kind(busy) # "finish" /\ mem'.astate = "Terminal" => mem.astate = "Terminal"
    BY <2>1, <2>3 DEF EndsWith
  <2>5. mem' # NoAttempt
    BY <2>3, SentinelAssumption
  <2>6. CASE Kind(busy) \in BusinessKinds
    <3>1. Kind(busy) # "finish"
      BY <2>6 DEF BusinessKinds
    <3> QED
      BY <2>2, <2>3, <2>4, <2>5, <2>6, <3>1 DEF QuietInv
  <2>7. CASE Kind(busy) = "release"
    <3>1. lease' \in {lease, FALSE} /\ capturing' = capturing
      BY <1>2, <2>7 DEF Completions, CompleteStart, CompleteFrame, CompleteCapture,
                        CompleteCaptureFrame, CompleteRelease
    <3> QED
      BY <2>3, <2>4, <2>5, <2>7, <3>1, QuietKept
  <2>8. Kind(busy) \in BusinessKinds \cup {"release"}
    BY <1>2 DEF Completions, CompleteStart, CompleteFrame, CompleteCapture,
                CompleteCaptureFrame, CompleteRelease, BusinessKinds
  <2> QED
    BY <2>6, <2>7, <2>8
<1> QED
  BY <1>1, <1>2

\* Nor does the rest of the system.
LEMMA BackgroundQuiet ==
    ASSUME IInv, QuietInv, ReleaseResults \subseteq {TRUE}, NEW mode, Background(mode)
    PROVE  QuietInv'
<1>1. /\ session => loaded
      /\ mem # NoAttempt => mem \in AttemptRecords
      /\ lease \in BOOLEAN /\ capturing \in BOOLEAN
  BY DEF IInv, LinkInv, TypeOK
<1>2. ASSUME NEW released \in BOOLEAN, WorkerFails(released, mode)
      PROVE  QuietInv'
  <2>1. lease' = FALSE /\ capturing' = capturing
    BY <1>2 DEF WorkerFails
  <2>2. CASE ~loaded
    BY <2>1, <2>2 DEF QuietInv
  <2>3. CASE loaded /\ mem = NoAttempt
    BY <2>1, <2>3 DEF QuietInv
  <2>4. CASE loaded /\ mem # NoAttempt
    <3>1. ActiveLoaded = mem /\ ~LoadFails
      BY <2>4 DEF ActiveLoaded, LoadFails
    <3>2. mem' = UncertainRecord(mem, released) /\ loaded' = TRUE
      BY <1>2, <2>4, <3>1 DEF WorkerFails
    <3>3. mem' \in AttemptRecords /\ mem'.astate = mem.astate
      BY <1>1, <2>4, <3>2, UncertainKeeps DEF Keeps
    <3> QED
      BY <2>1, <3>2, <3>3, SentinelAssumption, QuietKept
  <2> QED
    BY <2>2, <2>3, <2>4
<1>3. ASSUME NEW released \in BOOLEAN, RealtimeFailure(released, mode)
      PROVE  QuietInv'
  <2>1. /\ loaded /\ mem # NoAttempt /\ Record(UncertainRecord(mem, released), mode)
        /\ lease' = lease /\ capturing' = capturing
    BY <1>1, <1>3 DEF RealtimeFailure, devices
  <2> QED
    BY <1>1, <2>1, UncertainKeeps, RecordQuiet DEF Keeps
<1>4. ASSUME NEW released \in BOOLEAN, NEW stopped \in BOOLEAN, NEW connected \in BOOLEAN,
             ResetSession(released, stopped, connected, mode)
      PROVE  QuietInv'
  BY <1>4 DEF ResetSession, QuietInv
<1>5. ASSUME NEW released \in BOOLEAN, NEW stopped \in BOOLEAN,
             ContractExpired(released, stopped, mode)
      PROVE  QuietInv'
  BY <1>5 DEF ContractExpired, QuietInv
<1>6. ASSUME NEW uncertain \in BOOLEAN, NEW released \in BOOLEAN, NEW restarted \in BOOLEAN,
             CaptureFailure(uncertain, released, restarted, mode)
      PROVE  QuietInv'
  <2>1. /\ loaded /\ mem # NoAttempt /\ mem.astate # "Terminal" /\ mem \in AttemptRecords
    BY <1>1, <1>6 DEF CaptureFailure, QuietInv
  <2>2. /\ mem' = IF uncertain THEN UncertainRecord(mem, released)
                              ELSE InputReleasedRecord(mem)
        /\ loaded' = loaded
    BY <1>6, <2>1 DEF CaptureFailure, Record
  <2>3. mem' \in AttemptRecords /\ mem'.astate = mem.astate
    BY <2>1, <2>2, UncertainKeeps, InputReleasedKeeps DEF Keeps
  <2> QED
    BY <2>1, <2>2, <2>3, SentinelAssumption DEF QuietInv
<1>7. CASE LeaseExpired(mode)
  <2>1. lease' = FALSE /\ capturing' = capturing
    BY <1>7 DEF LeaseExpired
  <2>2. CASE mem = NoAttempt
    BY <2>1, <2>2 DEF QuietInv
  <2>3. CASE mem # NoAttempt
    <3>1. loaded /\ Record(InputReleasedRecord(mem), mode)
      BY <1>1, <1>7, <2>3 DEF LeaseExpired
    <3> QED
      BY <1>1, <2>1, <2>3, <3>1, InputReleasedKeeps, RecordQuiet DEF Keeps
  <2> QED
    BY <2>2, <2>3
<1> QED
  BY <1>2, <1>3, <1>4, <1>5, <1>6, <1>7 DEF Background

\* So no step does.
LEMMA QuietStep ==
    ASSUME IInv, QuietInv, ReleaseResults \subseteq {TRUE}, [Next]_vars
    PROVE  QuietInv'
<1>1. CASE UNCHANGED vars
  BY <1>1 DEF vars, memory, devices, QuietInv
<1>2. ASSUME NEW mode, NEW q \in Requests, Commands(q, mode)
      PROVE  QuietInv'
  BY <1>2, CommandsQuiet
<1>3. ASSUME NEW mode,
             \/ Completions(mode) \/ Background(mode)
             \/ \E released, stopped \in BOOLEAN : CompleteFinish(released, stopped, mode)
      PROVE  QuietInv'
  BY <1>3, CompletionsQuiet, BackgroundQuiet
<1>4. CASE Fire \/ Abandon \/ SessionLost \/ FramePipelineLost \/ ChangeTarget
  <2>1. /\ mem' = mem /\ loaded' = loaded
        /\ lease' \in {lease, FALSE} /\ capturing' \in {capturing, FALSE}
    BY <1>4 DEF Fire, Abandon, SessionLost, FramePipelineLost, ChangeTarget, memory, devices
  <2> QED
    BY <2>1, QuietKept
<1>5. CASE Crash
  BY <1>5 DEF Crash, QuietInv
<1> QED
  BY <1>1, <1>2, <1>3, <1>4, <1>5 DEF Next

\* What persist wrote in full passes the validation of the next load, over every
\* way an append fails, as long as input can be released.
THEOREM LoadsAgain ==
    ASSUME "lost" \notin FinishModes, ReleaseResults \subseteq {TRUE}
    PROVE  Spec => []LedgerReloads
<1>1. Init => FitInv
  BY SentinelAssumption DEF Init, FitInv, QuietInv
<1>2. IInv /\ FitInv /\ [Next]_vars => FitInv'
  <2> SUFFICES ASSUME IInv, FitInv, [Next]_vars
               PROVE  FitInv'
    OBVIOUS
  <2>1. QuietInv'
    BY QuietStep DEF FitInv
  <2>2. (mem' # NoAttempt => Fit(mem')) /\ LedgersFit'
    BY StepAdvances, RecordsFit
  <2> QED
    BY <2>1, <2>2 DEF FitInv, LedgersFit, Fit, Valid, CleanupSound, CleanupDue,
                      LocalResourcesReleased, Unresolved, Recorded, HasResult
<1>3. IInv /\ FitInv => LedgerReloads
  BY DEF IInv, TypeOK, Ledgers, FitInv, LedgerReloads
<1> QED
  BY <1>1, <1>2, <1>3, Invariance, PTL DEF Spec
(***************************************************************************)
(* The slots of the journal                                                *)
(***************************************************************************)
\* The commands of these kinds that have a result.
Stored(r, kinds) == {c \in Recorded(r) : KindOf[r.results[c].pay] \in kinds}

\* The reserve, with the results of some kinds as a set.
LEMMA ReservedStored ==
    ASSUME NEW r
    PROVE  Reserved(r) <=>
              /\ Cardinality(Stored(r, BusinessKinds \cup {"begin"})) <= BusinessLimit
              /\ Cardinality(Stored(r, Kinds \ RecoveryKinds)) <= BusinessLimit + InspectLimit
              /\ Cardinality(Stored(r, Kinds \ {"finish"}))
                    <= BusinessLimit + InspectLimit + ReleaseLimit
  BY DEF Reserved, Stored

\* Two records with the same commands recorded have the same room.
LEMMA SameRoom ==
    ASSUME NEW r, NEW n, Roomy(r),
           \A c \in CommandIds :
               /\ HasResult(n, c) <=> HasResult(r, c)
               /\ HasResult(r, c) => n.results[c].pay = r.results[c].pay
    PROVE  Recorded(n) = Recorded(r) /\ Reserved(n)
<1>1. Recorded(n) = Recorded(r)
  BY DEF Recorded
<1>2. \A kinds : Stored(n, kinds) = Stored(r, kinds)
  BY <1>1 DEF Stored, Recorded
<1>3. Reserved(r)
  BY DEF Roomy
<1> QED
  BY <1>1, <1>2, <1>3, ReservedStored

\* A limit of the reserve is kept by a command that had a slot under it.
LEMMA StoredGrows ==
    ASSUME NEW r, NEW n, NEW c, NEW kinds, NEW limit \in Nat,
           IsFiniteSet(Recorded(r)), c \notin Recorded(r),
           Recorded(n) = Recorded(r) \cup {c},
           \A d \in Recorded(r) : n.results[d] = r.results[d],
           Cardinality(Stored(r, kinds)) <= limit,
           KindOf[n.results[c].pay] \in kinds => Cardinality(Recorded(r)) < limit
    PROVE  Cardinality(Stored(n, kinds)) <= limit
<1>1. CASE KindOf[n.results[c].pay] \notin kinds
  <2>1. Stored(n, kinds) = Stored(r, kinds)
    BY <1>1 DEF Stored
  <2> QED
    BY <2>1
<1>2. CASE KindOf[n.results[c].pay] \in kinds
  <2>1. Stored(n, kinds) = Stored(r, kinds) \cup {c} /\ c \notin Stored(r, kinds)
    BY <1>2 DEF Stored
  <2>2. Stored(r, kinds) \subseteq Recorded(r)
    BY DEF Stored
  <2>3. /\ IsFiniteSet(Stored(r, kinds))
        /\ Cardinality(Stored(r, kinds)) <= Cardinality(Recorded(r))
        /\ Cardinality(Stored(r, kinds)) \in Nat /\ Cardinality(Recorded(r)) \in Nat
    BY <2>2, FS_Subset, FS_CardinalityType
  <2>4. Cardinality(Stored(r, kinds) \cup {c}) = Cardinality(Stored(r, kinds)) + 1
    BY <2>1, <2>3, FS_AddElement
  <2> QED
    BY <1>2, <2>1, <2>3, <2>4
<1> QED
  BY <1>1, <1>2

\* The slots of a kind are within each limit of the reserve that counts it.
LEMMA SlotsWithin ==
    ASSUME NEW kind \in Kinds
    PROVE  /\ kind \in BusinessKinds \cup {"begin"} => Slots(kind) = BusinessLimit
           /\ kind \notin RecoveryKinds => Slots(kind) <= BusinessLimit + InspectLimit
           /\ kind # "finish" => Slots(kind) <= BusinessLimit + InspectLimit + ReleaseLimit
           /\ Slots(kind) \in Nat
  BY LimitsAssumption
  DEF Slots, CapacityFor, InspectCapacity, Kinds, BusinessKinds, RecoveryKinds

\* An update that was granted a slot keeps the reserve.
LEMMA RoomyUpdate ==
    ASSUME NEW r \in AttemptRecords, NEW n, Updates(r, n), Grants(r, n),
           WellKept(r), Roomy(r)
    PROVE  Roomy(n)
<1>1. /\ n \in AttemptRecords /\ WellKept(n) /\ n.last \in CommandIds /\ n.pay \in Payloads
      /\ \A c \in CommandIds : HasResult(r, c) \/ c # n.last => n.results[c] = r.results[c]
  BY DEF Updates, AttemptRecords
<1>2. IsFiniteSet(Recorded(r)) /\ Reserved(r)
  BY DEF Roomy
<1>3. CASE HasResult(r, n.last)
  <2>1. Recorded(n) = Recorded(r) /\ Reserved(n)
    <3>1. \A c \in CommandIds : n.results[c] = r.results[c]
      BY <1>1, <1>3
    <3> QED
      BY <3>1, SameRoom DEF HasResult
  <2>2. HasResult(n, n.last)
    BY <1>1, <1>3 DEF HasResult
  <2> QED
    BY <1>1, <1>2, <2>1, <2>2 DEF Roomy, WellKept
<1>4. CASE ~HasResult(r, n.last)
  <2>1. Cardinality(Recorded(r)) < Slots(KindOf[n.pay])
    BY <1>4 DEF Grants
  <2>2. CASE n.outcome = Unspecified
    <3>1. \A c \in CommandIds : /\ HasResult(n, c) <=> HasResult(r, c)
                                /\ HasResult(r, c) => n.results[c].pay = r.results[c].pay
      BY <1>1, <1>4, <2>2 DEF WellKept, HasResult
    <3>2. Recorded(n) = Recorded(r) /\ Reserved(n)
      BY <3>1, SameRoom
    <3> QED
      BY <1>2, <2>1, <3>2 DEF Roomy
  <2>3. CASE n.outcome # Unspecified
    <3> DEFINE kind == KindOf[n.pay]
    <3>1. HasResult(n, n.last) /\ n.results[n.last].pay = n.pay
      BY <1>1, <2>3 DEF WellKept
    <3>2. /\ n.last \notin Recorded(r) /\ Recorded(n) = Recorded(r) \cup {n.last}
          /\ \A d \in Recorded(r) : n.results[d] = r.results[d]
      BY <1>1, <1>4, <3>1 DEF Recorded, HasResult
    <3>3. kind \in Kinds
      BY <1>1, KindAssumption
    <3>4. Cardinality(Recorded(r)) \in Nat
      BY <1>2, FS_CardinalityType
    <3>5. IsFiniteSet(Recorded(n))
      BY <1>2, <3>2, FS_AddElement
    <3> HIDE DEF kind
    <3>6. /\ kind \in BusinessKinds \cup {"begin"} => Cardinality(Recorded(r)) < BusinessLimit
          /\ kind \in Kinds \ RecoveryKinds =>
                Cardinality(Recorded(r)) < BusinessLimit + InspectLimit
          /\ kind \in Kinds \ {"finish"} =>
                Cardinality(Recorded(r)) < BusinessLimit + InspectLimit + ReleaseLimit
      <4>1. Cardinality(Recorded(r)) < Slots(kind)
        BY <2>1 DEF kind
      <4> QED
        BY <3>3, <3>4, <4>1, SlotsWithin, LimitsAssumption
    <3>7. KindOf[n.results[n.last].pay] = kind
      BY <3>1 DEF kind
    <3>8. /\ Cardinality(Stored(r, BusinessKinds \cup {"begin"})) <= BusinessLimit
          /\ Cardinality(Stored(r, Kinds \ RecoveryKinds)) <= BusinessLimit + InspectLimit
          /\ Cardinality(Stored(r, Kinds \ {"finish"}))
                <= BusinessLimit + InspectLimit + ReleaseLimit
      BY <1>2, ReservedStored
    <3>9. /\ BusinessLimit \in Nat /\ BusinessLimit + InspectLimit \in Nat
          /\ BusinessLimit + InspectLimit + ReleaseLimit \in Nat
      BY LimitsAssumption
    <3>10. Cardinality(Stored(n, BusinessKinds \cup {"begin"})) <= BusinessLimit
      BY <1>2, <3>2, <3>6, <3>7, <3>8, <3>9, StoredGrows
    <3>11. Cardinality(Stored(n, Kinds \ RecoveryKinds)) <= BusinessLimit + InspectLimit
      BY <1>2, <3>2, <3>6, <3>7, <3>8, <3>9, StoredGrows
    <3>12. Cardinality(Stored(n, Kinds \ {"finish"}))
              <= BusinessLimit + InspectLimit + ReleaseLimit
      BY <1>2, <3>2, <3>6, <3>7, <3>8, <3>9, StoredGrows
    <3> QED
      BY <2>3, <3>5, <3>10, <3>11, <3>12, ReservedStored DEF Roomy
  <2> QED
    BY <2>2, <2>3
<1> QED
  BY <1>3, <1>4

\* A file has the room of the record it mirrors.
LEMMA RoomyMirror ==
    ASSUME NEW r, NEW file, Mirrors(r, file), Roomy(r)
    PROVE  Roomy(file)
<1>1. Recorded(file) = Recorded(r) /\ Reserved(file)
  BY SameRoom DEF Mirrors
<1> QED
  BY <1>1 DEF Roomy, Mirrors

\* The first result of an attempt takes one slot.
LEMMA RoomyClaim ==
    ASSUME NEW r, NEW c, Recorded(r) = {c}, r.outcome # Unspecified
    PROVE  Roomy(r)
<1>1. IsFiniteSet({c}) /\ Cardinality({c}) = 1
  BY FS_Singleton
<1>2. \A kinds : Cardinality(Stored(r, kinds)) \in Nat /\ Cardinality(Stored(r, kinds)) <= 1
  <2>1. \A kinds : Stored(r, kinds) \subseteq {c}
    BY DEF Stored
  <2> QED
    BY <1>1, <2>1, FS_Subset, FS_CardinalityType
<1>3. \A kinds : Cardinality(Stored(r, kinds)) <= BusinessLimit
  BY <1>2, LimitsAssumption
<1>4. /\ BusinessLimit <= BusinessLimit + InspectLimit
      /\ BusinessLimit <= BusinessLimit + InspectLimit + ReleaseLimit
  BY LimitsAssumption
<1>5. Reserved(r)
  BY <1>2, <1>3, <1>4, ReservedStored, LimitsAssumption
<1> QED
  BY <1>1, <1>5 DEF Roomy

\* An update of the record to go on with leaves its ledger its reserve.
LEMMA UpdateRoomy ==
    ASSUME IInv, RoomInv, NEW r, Current(r), Roomy(r), NEW n, Updates(r, n), Grants(r, n),
           NEW mode \in {"ok", "torn"}, Persist(n, mode)
    PROVE  /\ Roomy(n)
           /\ \A a \in Attempts : ledger'[a] \in AttemptRecords => Roomy(ledger'[a])
<1>1. Roomy(n)
  BY RoomyUpdate DEF Current
<1>2. /\ \A a \in Attempts \ {r.att} : ledger'[a] = ledger[a]
      /\ ledger'[r.att] = TornLedger \/ Mirrors(n, ledger'[r.att])
  BY PersistMirrors DEF IInv, TypeOK
<1>3. ledger'[r.att] = TornLedger \/ Roomy(ledger'[r.att])
  BY <1>1, <1>2, RoomyMirror
<1> QED
  BY <1>1, <1>2, <1>3, SentinelAssumption DEF RoomInv

\* A step keeps the reserve of memory and of every file.
LEMMA RoomStep ==
    ASSUME Faithful, IInv, MirrorInv, LiveInv, RoomInv, Advances
    PROVE  RoomInv'
<1>1. ASSUME mem' # NoAttempt => Roomy(mem'),
             \A a \in Attempts : ledger'[a] \in AttemptRecords => Roomy(ledger'[a])
      PROVE  RoomInv'
  BY <1>1 DEF RoomInv, Roomy, Reserved, Recorded, HasResult
<1>2. \A a \in Attempts : ledger[a] \in AttemptRecords => Roomy(ledger[a])
  BY DEF RoomInv
<1>3. ASSUME LoadsActive, ActiveLoaded # NoAttempt
      PROVE  Roomy(ActiveLoaded)
  BY <1>2, <1>3, LoadedFrom DEF RoomInv
<1>4. CASE mem' = mem /\ loaded' = loaded /\ ledger' = ledger
  BY <1>1, <1>2, <1>4 DEF RoomInv
<1>5. CASE LoadsActive /\ loaded' = TRUE /\ mem' = ActiveLoaded /\ ledger' = ledger
  BY <1>1, <1>2, <1>3, <1>5
<1>6. CASE LoadFails /\ ledger' = ledger
  <2>1. mem' = mem \/ \E a \in LiveLedgers : mem' = ledger[a]
    BY <1>6 DEF LoadFails, ReadBeforeFailure
  <2>2. \A a \in LiveLedgers : Roomy(ledger[a])
    BY <1>2 DEF LiveLedgers, Loads, Ledgers, IInv, TypeOK
  <2> QED
    BY <1>1, <1>2, <1>6, <2>1, <2>2 DEF RoomInv
<1>7. ASSUME NEW n \in AttemptRecords, NEW mode \in AppendModes, UpdatesActive(n, mode)
      PROVE  RoomInv'
  <2>1. Roomy(ActiveLoaded) /\ Current(ActiveLoaded) /\ mode \in {"ok", "torn"}
    BY <1>3, <1>7, ActiveCurrent DEF UpdatesActive, Faithful
  <2>2. /\ Updates(ActiveLoaded, n) /\ Grants(ActiveLoaded, n) /\ Persist(n, mode)
        /\ mem' = n \/ mem' = ActiveLoaded
    BY <1>7 DEF UpdatesActive, Progress
  <2>3. /\ Roomy(n)
        /\ \A a \in Attempts : ledger'[a] \in AttemptRecords => Roomy(ledger'[a])
    BY <2>1, <2>2, UpdateRoomy
  <2> QED
    BY <1>1, <2>1, <2>2, <2>3
<1>8. ASSUME NEW a \in Attempts, NEW n \in AttemptRecords, NEW mode \in AppendModes,
             UpdatesNamed(a, n, mode)
      PROVE  RoomInv'
  <2> DEFINE r == ledger[a]
  <2>1. /\ loaded /\ mem = NoAttempt /\ Loads(r) /\ Updates(r, n) /\ Grants(r, n)
        /\ Persist(n, mode) /\ mode \in {"ok", "torn"} /\ mem' \in {n, NoAttempt}
    BY <1>8 DEF UpdatesNamed, Progress, Faithful
  <2>2. LiveLedgers = {}
    BY <2>1 DEF LiveInv
  <2>3. r \in AttemptRecords /\ r.att = a
    BY <2>1 DEF Loads, Ledgers, IInv, TypeOK, LedgerInv
  <2>4. Current(r) /\ Roomy(r)
    BY <1>2, <2>2, <2>3, MirrorsSelf DEF Current, MirrorInv
  <2> HIDE DEF r
  <2>5. /\ Roomy(n)
        /\ \A b \in Attempts : ledger'[b] \in AttemptRecords => Roomy(ledger'[b])
    BY <2>1, <2>4, UpdateRoomy
  <2> QED
    BY <1>1, <2>1, <2>5
<1>9. ASSUME NEW q \in Requests, NEW mode \in AppendModes, Claims(q, mode)
      PROVE  RoomInv'
  <2> DEFINE claim == Claimed(q.att, q.id, q.pay)
  <2>1. /\ loaded /\ Claimable(q.att) /\ Persist(claim, mode) /\ mode \in {"ok", "torn"}
        /\ mem # NoAttempt => LocalResourcesReleased(mem)
        /\ mem' \in {claim, NoAttempt} /\ q.att \in Attempts
    BY <1>9 DEF Claims, Faithful, Requests
  <2>2. /\ claim \in AttemptRecords /\ claim.att = q.att /\ Recorded(claim) = {q.id}
        /\ claim.outcome # Unspecified /\ Mirrors(claim, Appended(NoLedger, claim))
    BY ClaimedFacts DEF Unspecified
  <2> HIDE DEF claim
  <2>3. Roomy(claim)
    BY <2>2, RoomyClaim
  <2>4. ledger[q.att] = NoLedger
    BY <2>1, ClaimableIsNew
  <2>5. /\ \A b \in Attempts \ {q.att} : ledger'[b] = ledger[b]
        /\ ledger'[q.att] \in {TornLedger, Appended(NoLedger, claim)}
    <3>1. ledger \in [Attempts -> Ledgers]
      BY DEF IInv, TypeOK
    <3>2. \A b \in Attempts \ {q.att} : ledger'[b] = ledger[b]
      BY <2>1, <2>2, <3>1, PersistFacts DEF Modes
    <3> QED
      BY <2>1, <2>2, <2>4, <3>1, <3>2 DEF Persist
  <2>6. Roomy(Appended(NoLedger, claim))
    BY <2>2, <2>3, RoomyMirror
  <2>7. \A b \in Attempts : ledger'[b] \in AttemptRecords => Roomy(ledger'[b])
    BY <1>2, <2>5, <2>6, SentinelAssumption
  <2> QED
    BY <1>1, <2>1, <2>3, <2>7
<1>10. CASE Crash
  BY <1>1, <1>2, <1>10 DEF Crash
<1> QED
  BY <1>4, <1>5, <1>6, <1>7, <1>8, <1>9, <1>10 DEF Advances

\* The journal of an attempt always has the slots it keeps for inspecting, releasing
\* and finishing: record_command counts every command against its kind's limit.
THEOREM SlotsReserved ==
    ASSUME Faithful
    PROVE  Spec => []RecoveryReserve
<1>1. Init => RoomInv
  BY SentinelAssumption DEF Init, RoomInv
<1>2. IInv /\ MirrorInv /\ LiveInv /\ RoomInv /\ [Next]_vars => RoomInv'
  BY StepAdvances, RoomStep
<1>3. RoomInv => RecoveryReserve
  BY DEF RoomInv, Roomy, RecoveryReserve
<1> QED
  BY <1>1, <1>2, <1>3, Kept, PTL DEF Spec

==============================================================================
