-------------------------- MODULE TaskAttemptProofs ---------------------------
(***************************************************************************)
(* What TLAPS proves of module TaskAttempt, for every set of attempts,     *)
(* command ids and payloads and for all four capacities of the journal.    *)
(*                                                                         *)
(* The invariant is IInv.  Its heart is that a record never loses a seal   *)
(* (Keeps): a command the device has carried out stays behind a terminal   *)
(* attempt, an unresolved side effect or a stored Applied result, and an   *)
(* attempt that is not in memory stays behind a closed ledger.             *)
(***************************************************************************)
EXTENDS TaskAttempt, TLAPS

Modes == {"ok", "lost", "kept", "torn"}

(***************************************************************************)
(* Records                                                                 *)
(***************************************************************************)
\* n is r after a step that keeps the attempt, its end and every seal.
Keeps(r, n) ==
    /\ n \in AttemptRecords
    /\ n.att = r.att
    /\ r.astate = "Terminal" => n.astate = "Terminal"
    /\ \A c \in CommandIds : Sealed(r, c) => Sealed(n, c)

\* Steps that keep the seals compose.
LEMMA KeepsTransitive ==
    ASSUME NEW r, NEW n, NEW m, Keeps(r, n), Keeps(n, m)
    PROVE  Keeps(r, m)
  BY DEF Keeps

\* What store_current_result changes, and what it leaves alone.
LEMMA StoreFacts ==
    ASSUME NEW r \in AttemptRecords, r.outcome \in Outcomes
    PROVE  /\ StoreCurrentResult(r) \in AttemptRecords
           /\ StoreCurrentResult(r).att = r.att
           /\ StoreCurrentResult(r).astate = r.astate
           /\ StoreCurrentResult(r).side = r.side
           /\ StoreCurrentResult(r).last = r.last
           /\ StoreCurrentResult(r).outcome = r.outcome
           /\ \A c \in CommandIds :
                StoreCurrentResult(r).results[c] =
                    IF c = r.last THEN CurrentResult(r) ELSE r.results[c]
           /\ CurrentResult(r) \in StoredResults
           /\ CurrentResult(r).outcome = r.outcome
<1>1. CurrentResult(r) \in StoredResults /\ CurrentResult(r).outcome = r.outcome
  BY DEF CurrentResult, StoredResults, AttemptRecords, CleanupSound
<1>2. StoreCurrentResult(r)
        = [r EXCEPT !.results = [r.results EXCEPT ![r.last] = CurrentResult(r)]]
  BY DEF StoreCurrentResult, AttemptRecords
<1>3. [r.results EXCEPT ![r.last] = CurrentResult(r)]
        \in [CommandIds -> StoredResults \cup {NoResult}]
  BY <1>1 DEF AttemptRecords
<1> QED
  BY <1>1, <1>2, <1>3 DEF AttemptRecords

\* A result stored over no result, or over one that was not Applied, keeps the seals.
LEMMA StoreKeeps ==
    ASSUME NEW r \in AttemptRecords, r.outcome \in Outcomes, ~AppliedStored(r, r.last)
    PROVE  Keeps(r, StoreCurrentResult(r))
  BY StoreFacts DEF Keeps, Sealed, Unresolved, AppliedStored, HasResult

\* After it is stored, an Applied outcome is an Applied result.
LEMMA StoreApplied ==
    ASSUME NEW r \in AttemptRecords, r.outcome = "Applied"
    PROVE  AppliedStored(StoreCurrentResult(r), r.last)
<1>1. CurrentResult(r) # NoResult
  BY StoreFacts, SentinelAssumption DEF Outcomes
<1> QED
  BY <1>1, StoreFacts DEF AppliedStored, HasResult, Outcomes, AttemptRecords

\* payload_digest_conflict keeps the seals, by leaving the side effect uncertain.
LEMMA ConflictKeeps ==
    ASSUME NEW r \in AttemptRecords
    PROVE  /\ Keeps(r, ConflictRecord(r))
           /\ ConflictRecord(r).astate = r.astate
           /\ \A c \in CommandIds : Sealed(ConflictRecord(r), c)
  BY DEF Keeps, ConflictRecord, AttemptRecords, Sealed, Unresolved, SideEffectStates

\* So does mark_active_side_effect_uncertain.
LEMMA UncertainKeeps ==
    ASSUME NEW r \in AttemptRecords, NEW released \in BOOLEAN
    PROVE  /\ Keeps(r, UncertainRecord(r, released))
           /\ UncertainRecord(r, released).astate = r.astate
  BY DEF Keeps, UncertainRecord, AttemptRecords, Sealed, Unresolved, SideEffectStates,
         InputStates

\* mark_input_released does not touch what seals a command.
LEMMA InputReleasedKeeps ==
    ASSUME NEW r \in AttemptRecords
    PROVE  /\ Keeps(r, InputReleasedRecord(r))
           /\ InputReleasedRecord(r).astate = r.astate
  BY DEF Keeps, InputReleasedRecord, AttemptRecords, Sealed, Unresolved, InputStates,
         AppliedStored, HasResult

\* emergency_finish ends the attempt, which seals all its commands.
LEMMA FinishedKeeps ==
    ASSUME NEW r \in AttemptRecords,
           NEW released \in BOOLEAN, NEW stopped \in BOOLEAN, NEW running \in BOOLEAN
    PROVE  /\ Keeps(r, FinishedRecord(r, released, stopped, running))
           /\ FinishedRecord(r, released, stopped, running).astate = "Terminal"
           /\ FinishedRecord(r, released, stopped, running).last = r.last
           /\ FinishedRecord(r, released, stopped, running).results = r.results
           /\ FinishedRecord(r, released, stopped, running).cleanup \in BOOLEAN
<1> DEFINE clean == released /\ stopped /\ ~Unresolved(r)
           input == IF released THEN "Released" ELSE "Unknown"
           capture == IF stopped THEN "Stopped" ELSE "Unknown"
           target == IF running THEN "Running" ELSE "NotStarted"
           n == [r EXCEPT !.astate = "Terminal", !.input = input, !.capture = capture,
                          !.target = target, !.owned = FALSE, !.cleanup = clean]
<1>1. clean \in BOOLEAN
  OBVIOUS
<1>2. input \in InputStates /\ capture \in CaptureStates /\ target \in OwnedTargetStates
  BY DEF InputStates, CaptureStates, OwnedTargetStates
<1>3. FinishedRecord(r, released, stopped, running) = n
  BY DEF FinishedRecord
<1> HIDE DEF clean, input, capture, target
<1>4. /\ n \in AttemptRecords /\ n.astate = "Terminal" /\ n.att = r.att
      /\ n.last = r.last /\ n.results = r.results /\ n.cleanup \in BOOLEAN
  BY <1>1, <1>2 DEF AttemptRecords, AttemptStates
<1> QED
  BY <1>3, <1>4 DEF Keeps, Sealed

\* A command that is recorded under a new id keeps the seals.
LEMMA RecordKeeps ==
    ASSUME NEW r \in AttemptRecords, NEW q \in Requests,
           NEW outcome \in Outcomes \cup {Unspecified}
    PROVE  LET n == [RecordCommand(r, q.id, q.pay) EXCEPT !.outcome = outcome]
           IN  /\ Keeps(r, n)
               /\ n.astate = r.astate /\ n.side = r.side /\ n.results = r.results
               /\ n.last = q.id /\ n.outcome = outcome
  BY DEF RecordCommand, Requests, Keeps, Sealed, Unresolved, AppliedStored, HasResult,
         AttemptRecords

\* A result is stored under an id that has none.
LEMMA StoredKeeps ==
    ASSUME NEW r \in AttemptRecords, NEW q \in Requests, NEW outcome \in Outcomes,
           ~HasResult(r, q.id)
    PROVE  LET n == StoreCurrentResult(
                        [RecordCommand(r, q.id, q.pay) EXCEPT !.outcome = outcome])
           IN  Keeps(r, n) /\ n.astate = r.astate
<1> DEFINE n == [RecordCommand(r, q.id, q.pay) EXCEPT !.outcome = outcome]
<1>1. /\ Keeps(r, n) /\ n.astate = r.astate
      /\ n.results = r.results /\ n.last = q.id /\ n.outcome = outcome
  BY RecordKeeps
<1> HIDE DEF n
<1>2. n \in AttemptRecords /\ n.outcome \in Outcomes /\ ~AppliedStored(n, n.last)
  BY <1>1 DEF Keeps, AppliedStored, HasResult
<1>3. Keeps(n, StoreCurrentResult(n)) /\ StoreCurrentResult(n).astate = n.astate
  BY <1>2, StoreKeeps, StoreFacts
<1> QED
  BY <1>1, <1>3, KeepsTransitive DEF n

\* That is what inspect and reject do.
LEMMA InspectedKeeps ==
    ASSUME NEW r \in AttemptRecords, NEW q \in Requests, ~HasResult(r, q.id)
    PROVE  /\ Keeps(r, InspectedRecord(r, q))
           /\ InspectedRecord(r, q).astate = r.astate
<1>1. "Applied" \in Outcomes
  BY DEF Outcomes
<1> QED
  BY <1>1, StoredKeeps, Zenon DEF InspectedRecord

\* A rejection changes neither the state nor the stored results a seal rests on.
LEMMA RejectedKeeps ==
    ASSUME NEW r \in AttemptRecords, NEW q \in Requests, ~HasResult(r, q.id)
    PROVE  /\ Keeps(r, RejectedRecord(r, q))
           /\ RejectedRecord(r, q).astate = r.astate
<1>1. "NotApplied" \in Outcomes
  BY DEF Outcomes
<1> QED
  BY <1>1, StoredKeeps, Zenon DEF RejectedRecord

\* prepare_inner records the intent: a side effect is unresolved from here on.
LEMMA IntentKeeps ==
    ASSUME NEW r \in AttemptRecords, NEW q \in Requests
    PROVE  LET n == IntentRecord(r, q)
           IN  /\ Keeps(r, n)
               /\ n.astate = r.astate /\ n.results = r.results
               /\ n.last = q.id
               /\ Kind(q) \in SideEffectKinds => n.side = "IntentRecorded"
<1> DEFINE n == [RecordCommand(r, q.id, q.pay) EXCEPT !.outcome = Unspecified]
<1>1. /\ Keeps(r, n) /\ n.astate = r.astate /\ n.results = r.results /\ n.last = q.id
  BY RecordKeeps
<1> HIDE DEF n
<1>2. CASE Kind(q) \notin SideEffectKinds
  BY <1>1, <1>2 DEF IntentRecord, n
<1>3. CASE Kind(q) \in SideEffectKinds
  <2> DEFINE m == [n EXCEPT !.side = "IntentRecorded"]
  <2>1. /\ Keeps(n, m) /\ m.astate = n.astate /\ m.results = n.results
        /\ m.last = n.last /\ m.side = "IntentRecorded"
    BY <1>1 DEF Keeps, AttemptRecords, SideEffectStates, Sealed, Unresolved
  <2>2. IntentRecord(r, q) = m
    BY <1>3 DEF IntentRecord, n
  <2> QED
    BY <1>1, <2>1, <2>2, KeepsTransitive
<1> QED
  BY <1>2, <1>3

\* prepare_inner resolves an interrupted command without losing a seal.
LEMMA InterruptedKeeps ==
    ASSUME NEW r \in AttemptRecords, NEW q \in Requests,
           ~HasResult(r, q.id), r.last = q.id
    PROVE  /\ Keeps(r, InterruptedRecord(r, q))
           /\ InterruptedRecord(r, q).astate = r.astate
           /\ InterruptedRecord(r, q).outcome \in Outcomes
<1> DEFINE n == IF Kind(q) \in SideEffectKinds /\ r.side = "IntentRecorded"
                THEN [r EXCEPT !.side = "Uncertain", !.outcome = "Uncertain"]
                ELSE [r EXCEPT !.outcome = "NotApplied"]
<1>1. /\ Keeps(r, n) /\ n.astate = r.astate /\ n.results = r.results
      /\ n.last = r.last /\ n.outcome \in Outcomes
  BY DEF Keeps, AttemptRecords, SideEffectStates, Outcomes, Sealed, Unresolved,
         AppliedStored, HasResult
<1>2. InterruptedRecord(r, q) = StoreCurrentResult(n)
  BY DEF InterruptedRecord
<1> HIDE DEF n
<1>3. n \in AttemptRecords /\ ~AppliedStored(n, n.last)
  BY <1>1 DEF Keeps, AppliedStored, HasResult
<1>4. /\ Keeps(n, StoreCurrentResult(n)) /\ StoreCurrentResult(n).astate = n.astate
      /\ StoreCurrentResult(n).outcome = n.outcome
  BY <1>1, <1>3, StoreKeeps, StoreFacts
<1> QED
  BY <1>1, <1>2, <1>4, KeepsTransitive

\* n is r with an outcome, before the result is stored.
Settles(r, n) ==
    /\ n \in AttemptRecords
    /\ n.att = r.att
    /\ n.outcome \in Outcomes
    /\ n.last = r.last
    /\ n.results = r.results

\* complete stores the result of the running command, which has none yet.
LEMMA SettledKeeps ==
    ASSUME NEW r, NEW n, Settles(r, n), Keeps(r, n), ~HasResult(r, r.last)
    PROVE  /\ Keeps(r, StoreCurrentResult(n))
           /\ StoreCurrentResult(n).astate = n.astate
<1>1. n \in AttemptRecords /\ n.outcome \in Outcomes /\ ~AppliedStored(n, n.last)
  BY DEF Settles, AppliedStored, HasResult
<1>2. Keeps(n, StoreCurrentResult(n)) /\ StoreCurrentResult(n).astate = n.astate
  BY <1>1, StoreKeeps, StoreFacts
<1> QED
  BY <1>2, KeepsTransitive

\* complete_capture, for StartCapture and StopCapture.
LEMMA CaptureKeeps ==
    ASSUME NEW r \in AttemptRecords, NEW running \in BOOLEAN, NEW ok \in BOOLEAN,
           r.astate # "Terminal"
    PROVE  LET n == CaptureRecord(r, running, ok)
           IN  Settles(r, n) /\ Keeps(r, n) /\ n.astate # "Terminal"
<1>1. CASE ~ok
  BY <1>1 DEF CaptureRecord, Resolved, Settles, Keeps, AttemptRecords, Outcomes, Sealed,
              Unresolved, AppliedStored, HasResult
<1>2. CASE ok /\ running
  <2> DEFINE n == [[r EXCEPT !.outcome = "Applied"] EXCEPT
                        !.capture = "Running", !.astate = "Active"]
  <2>1. /\ n \in AttemptRecords /\ n.att = r.att /\ n.outcome = "Applied"
        /\ n.last = r.last /\ n.results = r.results /\ n.side = r.side
        /\ n.astate = "Active"
    BY DEF AttemptRecords, Outcomes, CaptureStates, AttemptStates
  <2>2. CaptureRecord(r, running, ok) = n
    BY <1>2 DEF CaptureRecord, Resolved
  <2> HIDE DEF n
  <2>3. Settles(r, n) /\ Keeps(r, n) /\ n.astate # "Terminal"
    BY <2>1 DEF Settles, Keeps, Outcomes, Sealed, Unresolved, AppliedStored, HasResult
  <2> QED
    BY <2>2, <2>3
<1>3. CASE ok /\ ~running
  <2> DEFINE n == [[r EXCEPT !.outcome = "Applied"] EXCEPT !.capture = "Stopped"]
  <2>1. /\ n \in AttemptRecords /\ n.att = r.att /\ n.outcome = "Applied"
        /\ n.last = r.last /\ n.results = r.results /\ n.side = r.side
        /\ n.astate = r.astate
    BY DEF AttemptRecords, Outcomes, CaptureStates
  <2>2. CaptureRecord(r, running, ok) = n
    BY <1>3 DEF CaptureRecord, Resolved
  <2> HIDE DEF n
  <2>3. Settles(r, n) /\ Keeps(r, n) /\ n.astate # "Terminal"
    BY <2>1 DEF Settles, Keeps, Outcomes, Sealed, Unresolved, AppliedStored, HasResult
  <2> QED
    BY <2>2, <2>3
<1> QED
  BY <1>1, <1>2, <1>3

\* complete_capture_frame
LEMMA CapturedFrameKeeps ==
    ASSUME NEW r \in AttemptRecords, NEW ok \in BOOLEAN, r.astate # "Terminal"
    PROVE  LET n == CapturedFrameRecord(r, ok)
           IN  Settles(r, n) /\ Keeps(r, n) /\ n.astate # "Terminal"
<1>1. CASE ~ok
  BY <1>1 DEF CapturedFrameRecord, Resolved, Settles, Keeps, AttemptRecords, Outcomes,
              Sealed, Unresolved, AppliedStored, HasResult
<1>2. CASE ok
  <2> DEFINE n == [[r EXCEPT !.outcome = "Applied"] EXCEPT
                        !.capture = "Stopped", !.astate = "Active"]
  <2>1. /\ n \in AttemptRecords /\ n.att = r.att /\ n.outcome = "Applied"
        /\ n.last = r.last /\ n.results = r.results /\ n.side = r.side
        /\ n.astate = "Active"
    BY DEF AttemptRecords, Outcomes, CaptureStates, AttemptStates
  <2>2. CapturedFrameRecord(r, ok) = n
    BY <1>2 DEF CapturedFrameRecord, Resolved
  <2> HIDE DEF n
  <2>3. Settles(r, n) /\ Keeps(r, n) /\ n.astate # "Terminal"
    BY <2>1 DEF Settles, Keeps, Outcomes, Sealed, Unresolved, AppliedStored, HasResult
  <2> QED
    BY <2>2, <2>3
<1> QED
  BY <1>1, <1>2

\* complete_release
LEMMA ReleasedKeeps ==
    ASSUME NEW r \in AttemptRecords, NEW released \in BOOLEAN
    PROVE  LET n == ReleasedRecord(r, released)
           IN  Settles(r, n) /\ Keeps(r, n) /\ n.astate = r.astate
<1> DEFINE outcome == IF released THEN "Applied" ELSE "NotApplied"
           input == IF released THEN "Released" ELSE "Unknown"
           n == [[r EXCEPT !.outcome = outcome] EXCEPT !.input = input]
<1>1. outcome \in Outcomes /\ input \in InputStates
  BY DEF Outcomes, InputStates
<1>2. ReleasedRecord(r, released) = n
  BY DEF ReleasedRecord, Resolved
<1> HIDE DEF outcome, input
<1>3. /\ n \in AttemptRecords /\ n.att = r.att /\ n.outcome = outcome
      /\ n.last = r.last /\ n.results = r.results /\ n.side = r.side
      /\ n.astate = r.astate
  BY <1>1 DEF AttemptRecords
<1> HIDE DEF n
<1>4. Settles(r, n) /\ Keeps(r, n)
  BY <1>1, <1>3 DEF Settles, Keeps, Sealed, Unresolved, AppliedStored, HasResult
<1> QED
  BY <1>2, <1>3, <1>4

\* complete_finish
LEMMA CompletedFinishKeeps ==
    ASSUME NEW r \in AttemptRecords,
           NEW released \in BOOLEAN, NEW stopped \in BOOLEAN, NEW running \in BOOLEAN
    PROVE  LET n == CompletedFinishRecord(r, released, stopped, running)
           IN  Settles(r, n) /\ Keeps(r, n) /\ n.astate = "Terminal"
<1> DEFINE f == FinishedRecord(r, released, stopped, running)
           outcome == IF f.cleanup THEN "Applied" ELSE "Uncertain"
           n == [f EXCEPT !.outcome = outcome]
<1>1. /\ f \in AttemptRecords /\ f.att = r.att /\ f.astate = "Terminal"
      /\ f.last = r.last /\ f.results = r.results
  BY FinishedKeeps DEF Keeps
<1>2. outcome \in Outcomes
  BY DEF Outcomes
<1>3. CompletedFinishRecord(r, released, stopped, running) = n
  BY DEF CompletedFinishRecord, Resolved
<1> HIDE DEF f, outcome
<1>4. /\ n \in AttemptRecords /\ n.att = r.att /\ n.outcome = outcome
      /\ n.last = r.last /\ n.results = r.results /\ n.astate = "Terminal"
  BY <1>1, <1>2 DEF AttemptRecords
<1> HIDE DEF n
<1>5. Settles(r, n) /\ Keeps(r, n)
  BY <1>2, <1>4 DEF Settles, Keeps, Sealed
<1> QED
  BY <1>3, <1>4, <1>5

\* n is r once complete has resolved its side effect.
Effects(r, n) ==
    /\ Settles(r, n)
    /\ n.astate = "Terminal" => r.astate = "Terminal"
    /\ n.side = n.outcome

\* complete_target_start
LEMMA StartedEffect ==
    ASSUME NEW r \in AttemptRecords, NEW ok \in BOOLEAN
    PROVE  /\ Effects(r, StartedRecord(r, ok))
           /\ StartedRecord(r, ok).outcome = IF ok THEN "Applied" ELSE "NotApplied"
<1>1. CASE ok
  <2> DEFINE n == [[r EXCEPT !.outcome = "Applied", !.side = "Applied"] EXCEPT
                        !.owned = TRUE, !.target = "Running", !.astate = "TargetReady"]
  <2>1. /\ n \in AttemptRecords /\ n.att = r.att /\ n.outcome = "Applied"
        /\ n.last = r.last /\ n.results = r.results /\ n.side = "Applied"
        /\ n.astate = "TargetReady"
    BY DEF AttemptRecords, Outcomes, SideEffectStates, OwnedTargetStates, AttemptStates
  <2>2. StartedRecord(r, ok) = n
    BY <1>1 DEF StartedRecord, EffectResolved
  <2> HIDE DEF n
  <2> QED
    BY <1>1, <2>1, <2>2 DEF Effects, Settles, Outcomes
<1>2. CASE ~ok
  <2> DEFINE n == [[r EXCEPT !.outcome = "NotApplied", !.side = "NotApplied"] EXCEPT
                        !.owned = FALSE, !.target = "NotStarted"]
  <2>1. /\ n \in AttemptRecords /\ n.att = r.att /\ n.outcome = "NotApplied"
        /\ n.last = r.last /\ n.results = r.results /\ n.side = "NotApplied"
        /\ n.astate = r.astate
    BY DEF AttemptRecords, Outcomes, SideEffectStates, OwnedTargetStates
  <2>2. StartedRecord(r, ok) = n
    BY <1>2 DEF StartedRecord, EffectResolved
  <2> HIDE DEF n
  <2> QED
    BY <1>2, <2>1, <2>2 DEF Effects, Settles, Outcomes
<1> QED
  BY <1>1, <1>2

\* complete_input_frame
LEMMA FrameEffect ==
    ASSUME NEW r \in AttemptRecords, NEW outcome \in Outcomes, NEW holds \in BOOLEAN
    PROVE  /\ Effects(r, FrameRecord(r, outcome, holds))
           /\ FrameRecord(r, outcome, holds).outcome = outcome
<1> DEFINE input == CASE outcome = "Uncertain"        -> "Unknown"
                      [] outcome = "Applied" /\ holds -> "Active"
                      [] OTHER                        -> "Released"
           n == [[r EXCEPT !.outcome = outcome, !.side = outcome] EXCEPT !.input = input]
<1>1. input \in InputStates
  BY DEF Outcomes, InputStates
<1>2. FrameRecord(r, outcome, holds) = n
  BY DEF FrameRecord, EffectResolved
<1> HIDE DEF input
<1>3. /\ n \in AttemptRecords /\ n.att = r.att /\ n.outcome = outcome
      /\ n.last = r.last /\ n.results = r.results /\ n.side = outcome
      /\ n.astate = r.astate
  BY <1>1 DEF AttemptRecords, Outcomes, SideEffectStates
<1> HIDE DEF n
<1> QED
  BY <1>2, <1>3 DEF Effects, Settles

\* Once its result is stored, a side effect that may have happened is sealed.
LEMMA EffectSeals ==
    ASSUME NEW r, NEW n, Effects(r, n), ~HasResult(r, r.last),
           NEW c \in CommandIds,
           AppliedStored(r, c) \/ (c = r.last /\ n.outcome # "NotApplied")
    PROVE  Sealed(StoreCurrentResult(n), c)
<1> DEFINE m == StoreCurrentResult(n)
<1>1. /\ n \in AttemptRecords /\ n.outcome \in Outcomes /\ n.last = r.last
      /\ n.results = r.results /\ n.side = n.outcome
  BY DEF Effects, Settles
<1>2. m.side = n.outcome
  BY <1>1, StoreFacts
<1>3. CASE n.outcome = "Uncertain"
  BY <1>2, <1>3 DEF Sealed, Unresolved
<1>4. CASE c = r.last /\ n.outcome = "Applied"
  BY <1>1, <1>4, StoreApplied DEF Sealed
<1>5. CASE c # r.last /\ AppliedStored(r, c)
  <2>1. m.results[c] = r.results[c]
    BY <1>1, <1>5, StoreFacts
  <2> QED
    BY <1>5, <2>1 DEF Sealed, AppliedStored, HasResult
<1> QED
  BY <1>1, <1>3, <1>4, <1>5 DEF Outcomes, AppliedStored

(***************************************************************************)
(* Appends                                                                 *)
(***************************************************************************)
\* A full append is readable as the record appended, or lost in a torn line.
LEMMA AppendedFacts ==
    ASSUME NEW file \in Ledgers, NEW r \in AttemptRecords
    PROVE  /\ Appended(file, r) \in Ledgers
           /\ Appended(file, r) # NoLedger
           /\ \/ Appended(file, r) = TornLedger
              \/ Appended(file, r).astate = r.astate /\ Appended(file, r).att = r.att
<1>1. CASE file = TornLedger
  BY <1>1, SentinelAssumption DEF Appended, Ledgers
<1>2. CASE file # TornLedger
  <2> DEFINE before == IF file = NoLedger THEN [c \in CommandIds |-> NoResult]
                                          ELSE file.results
             line == [r EXCEPT !.results = before]
  <2>1. before \in [CommandIds -> StoredResults \cup {NoResult}]
    BY <1>2 DEF Ledgers, AttemptRecords
  <2>2. Appended(file, r)
          = IF r.outcome = Unspecified THEN line ELSE StoreCurrentResult(line)
    BY <1>2 DEF Appended
  <2> HIDE DEF before
  <2>3. /\ line \in AttemptRecords /\ line.astate = r.astate
        /\ line.att = r.att /\ line.outcome = r.outcome
    BY <2>1 DEF AttemptRecords
  <2> HIDE DEF line
  <2>4. r.outcome \in Outcomes \cup {Unspecified}
    BY DEF AttemptRecords
  <2>5. /\ Appended(file, r) \in AttemptRecords
        /\ Appended(file, r).astate = r.astate /\ Appended(file, r).att = r.att
    BY <2>2, <2>3, <2>4, StoreFacts
  <2> QED
    BY <2>5, SentinelAssumption DEF Ledgers
<1> QED
  BY <1>1, <1>2

\* What persist does to the ledgers, however the append ends.
LEMMA PersistFacts ==
    ASSUME ledger \in [Attempts -> Ledgers], NEW r \in AttemptRecords,
           NEW mode \in Modes, Persist(r, mode)
    PROVE  /\ ledger' \in [Attempts -> Ledgers]
           /\ \A a \in Attempts \ {r.att} : ledger'[a] = ledger[a]
           /\ \A a \in Attempts : ledger[a] # NoLedger => ledger'[a] # NoLedger
           /\ mode # "lost" => ledger'[r.att] # NoLedger
           /\ \/ ledger'[r.att] \in {ledger[r.att], TornLedger}
              \/ ledger'[r.att].att = r.att
           /\ r.astate = "Terminal" /\ (mode # "lost" \/ Closed(ledger[r.att]))
                => Closed(ledger'[r.att])
<1> DEFINE a == r.att
<1>1. a \in Attempts /\ ledger[a] \in Ledgers
  BY DEF AttemptRecords
<1>2. CASE mode = "lost"
  BY <1>1, <1>2 DEF Persist
<1>3. CASE mode = "torn"
  <2>1. ledger' = [ledger EXCEPT ![a] = TornLedger]
    BY <1>3 DEF Persist
  <2> QED
    BY <1>1, <2>1, SentinelAssumption DEF Ledgers, Closed
<1>4. CASE mode \notin {"lost", "torn"}
  <2>1. ledger' = [ledger EXCEPT ![a] = Appended(ledger[a], r)]
    BY <1>4 DEF Persist
  <2>2. /\ Appended(ledger[a], r) \in Ledgers
        /\ Appended(ledger[a], r) # NoLedger
        /\ \/ Appended(ledger[a], r) = TornLedger
           \/ Appended(ledger[a], r).astate = r.astate /\ Appended(ledger[a], r).att = a
    BY <1>1, AppendedFacts
  <2> HIDE DEF a
  <2> QED
    BY <1>1, <2>1, <2>2 DEF Closed, a
<1> QED
  BY <1>2, <1>3, <1>4

(***************************************************************************)
(* The active attempt                                                      *)
(***************************************************************************)
\* r may be the active attempt: it is journalled, it is closed if it is
\* terminal, and every other attempt the device has worked for is closed.
Holds(r) ==
    /\ r \in AttemptRecords
    /\ ledger[r.att] # NoLedger
    /\ r.astate = "Terminal" => Closed(ledger[r.att])
    /\ \A a \in Attempts \ {r.att}, c \in CommandIds :
          <<a, c>> \in fired => Closed(ledger[a])

\* No attempt has to be the active one.
HoldsNone == \A a \in Attempts, c \in CommandIds : <<a, c>> \in fired => Closed(ledger[a])

\* The record in memory is the one a session's seals are about.
LEMMA MemoryHolds ==
    ASSUME TypeOK, LedgerInv, SealInv, loaded
    PROVE  IF mem = NoAttempt THEN HoldsNone ELSE Holds(mem)
  BY DEF TypeOK, LedgerInv, SealInv, Holds, HoldsNone

\* A released ledger that loads is closed.
LEMMA ReleasedIsClosed ==
    ASSUME NEW a \in Attempts, Loads(ledger[a]), a \notin LiveLedgers
    PROVE  Closed(ledger[a])
  BY DEF LiveLedgers, LocalResourcesReleased, Closed, Loads

\* load_active finds the attempt that has to be the active one, if there is one.
LEMMA LoadHolds ==
    ASSUME TypeOK, LedgerInv, SealInv, LoadsActive
    PROVE  IF ActiveLoaded = NoAttempt THEN HoldsNone ELSE Holds(ActiveLoaded)
<1>1. CASE loaded
  BY <1>1, MemoryHolds DEF ActiveLoaded
<1>2. CASE ~loaded /\ LiveLedgers = {}
  <2>1. ActiveLoaded = mem
    BY <1>2 DEF ActiveLoaded
  <2>2. \A a \in Attempts : ledger[a] = NoLedger \/ Closed(ledger[a])
    BY <1>2, ReleasedIsClosed DEF LoadsActive
  <2>3. HoldsNone
    BY <2>2 DEF HoldsNone, LedgerInv
  <2> QED
    BY <2>1, <2>3 DEF Holds, HoldsNone, TypeOK, LedgerInv
<1>3. CASE ~loaded /\ LiveLedgers # {}
  <2>1. PICK a \in LiveLedgers : LiveLedgers = {a}
    BY <1>3 DEF LoadsActive
  <2>2. a \in Attempts /\ Loads(ledger[a])
    BY <2>1 DEF LiveLedgers
  <2>3. (CHOOSE b \in LiveLedgers : TRUE) = a
    BY <2>1
  <2>4. ActiveLoaded = ledger[a]
    BY <1>3, <2>3 DEF ActiveLoaded
  <2>5. ledger[a] \in AttemptRecords /\ ledger[a].att = a
    BY <2>2 DEF Loads, TypeOK, Ledgers, LedgerInv
  <2>6. \A b \in Attempts \ {a} : ledger[b] = NoLedger \/ Closed(ledger[b])
    BY <1>3, <2>1, ReleasedIsClosed DEF LoadsActive
  <2>7. ledger[a] # NoLedger /\ (ledger[a].astate = "Terminal" => Closed(ledger[a]))
    BY <2>2 DEF Loads, Closed
  <2>8. \A b \in Attempts \ {a}, c \in CommandIds :
            <<b, c>> \in fired => Closed(ledger[b])
    BY <2>6 DEF LedgerInv
  <2>9. Holds(ledger[a])
    BY <2>5, <2>7, <2>8 DEF Holds
  <2>10. ledger[a] # NoAttempt
    BY <2>5, SentinelAssumption
  <2> QED
    BY <2>4, <2>9, <2>10
<1> QED
  BY <1>1, <1>2, <1>3

\* An append for the active attempt leaves it, or what it was before, active.
LEMMA JournalStep ==
    ASSUME TypeOK, LedgerInv, NEW r, Holds(r), NEW n \in AttemptRecords, n.att = r.att,
           r.astate = "Terminal" => n.astate = "Terminal",
           NEW mode \in Modes, Persist(n, mode),
           mem' = n \/ mem' = r,
           mem'.astate = "Terminal" =>
               r.astate = "Terminal" \/ (mode # "lost" /\ n.astate = "Terminal"),
           fired' = fired,
           session' => \A c \in CommandIds : <<r.att, c>> \in fired => Sealed(mem', c)
    PROVE  LedgerInv' /\ SealInv'
<1>1. /\ ledger' \in [Attempts -> Ledgers]
      /\ \A a \in Attempts \ {n.att} : ledger'[a] = ledger[a]
      /\ \A a \in Attempts : ledger[a] # NoLedger => ledger'[a] # NoLedger
      /\ mode # "lost" => ledger'[n.att] # NoLedger
      /\ \/ ledger'[n.att] \in {ledger[n.att], TornLedger}
         \/ ledger'[n.att].att = n.att
      /\ n.astate = "Terminal" /\ (mode # "lost" \/ Closed(ledger[n.att]))
           => Closed(ledger'[n.att])
  BY PersistFacts DEF TypeOK
<1>2. mem' \in AttemptRecords /\ mem'.att = n.att /\ n.att \in Attempts
  BY DEF Holds, AttemptRecords
<1>3. LedgerInv'
  <2>1. \A a \in Attempts : ledger'[a] \in AttemptRecords => ledger'[a].att = a
    BY <1>1, SentinelAssumption DEF LedgerInv
  <2>2. ledger'[mem'.att] # NoLedger
    BY <1>1, <1>2 DEF Holds
  <2>3. \A a \in Attempts, c \in CommandIds : <<a, c>> \in fired' => ledger'[a] # NoLedger
    BY <1>1 DEF LedgerInv
  <2>4. mem'.astate = "Terminal" => Closed(ledger'[mem'.att])
    BY <1>1, <1>2 DEF Holds
  <2> QED
    BY <2>1, <2>2, <2>3, <2>4 DEF LedgerInv
<1>4. SealInv'
  <2>1. \A a \in Attempts \ {n.att}, c \in CommandIds :
            <<a, c>> \in fired' => Closed(ledger'[a])
    BY <1>1 DEF Holds
  <2>2. mem' # NoAttempt
    BY <1>2, SentinelAssumption
  <2> QED
    BY <1>2, <2>1, <2>2 DEF SealInv
<1> QED
  BY <1>3, <1>4

(***************************************************************************)
(* The steps, one lemma for each action                                    *)
(***************************************************************************)
LEMMA ModesUsed ==
    /\ PersistModes \subseteq Modes
    /\ FinishModes \subseteq Modes
  BY EnvironmentAssumption DEF Modes

\* A handler that answers adds an outcome to what the Hub was told.
LEMMA AnswerType ==
    ASSUME TypeOK, NEW q \in Requests, NEW outcome \in Outcomes,
           Answer(q, outcome) \/ UNCHANGED answered
    PROVE  answered' \in [Attempts -> [CommandIds -> SUBSET Outcomes]]
<1>1. q.att \in Attempts /\ q.id \in CommandIds
  BY DEF Requests
<1>2. CASE Answer(q, outcome)
  <2> DEFINE told == answered[q.att][q.id] \cup {outcome}
             row == [answered[q.att] EXCEPT ![q.id] = told]
  <2>1. told \in SUBSET Outcomes
    BY <1>1 DEF TypeOK
  <2>2. row \in [CommandIds -> SUBSET Outcomes]
    BY <1>1, <2>1 DEF TypeOK
  <2>3. answered' = [answered EXCEPT ![q.att] = row]
    BY <1>2 DEF Answer
  <2> HIDE DEF row
  <2> QED
    BY <1>1, <2>2, <2>3 DEF TypeOK
<1>3. CASE UNCHANGED answered
  BY <1>3 DEF TypeOK
<1> QED
  BY <1>2, <1>3

\* What an idle handler and its neighbours may do without touching the record.
OthersType ==
    /\ session \in BOOLEAN
    /\ contract \in Attempts \cup {NoAttempt}
    /\ lease \in BOOLEAN
    /\ capturing \in BOOLEAN
    /\ binding \in BOOLEAN
    /\ answered \in [Attempts -> [CommandIds -> SUBSET Outcomes]]

\* The record in memory is updated and appended while no handler runs.
LEMMA RecordStep ==
    ASSUME IInv, Idle, loaded, mem # NoAttempt,
           NEW n, Keeps(mem, n), n.astate = mem.astate,
           NEW mode \in Modes, Record(n, mode),
           UNCHANGED <<handler, fired>>, OthersType', session' => session
    PROVE  IInv'
<1>1. Holds(mem)
  BY MemoryHolds DEF IInv
<1>2. /\ mem' = n /\ loaded' = loaded /\ Persist(n, mode)
      /\ n \in AttemptRecords /\ n.att = mem.att
  BY DEF Record, Keeps
<1>3. session' => \A c \in CommandIds : <<mem.att, c>> \in fired => Sealed(n, c)
  BY <1>1 DEF IInv, SealInv, Keeps, Holds, AttemptRecords
<1>4. LedgerInv' /\ SealInv'
  BY <1>1, <1>2, <1>3, JournalStep DEF IInv
<1>5. TypeOK'
  BY <1>2, PersistFacts DEF IInv, TypeOK, OthersType, handler
<1>6. LinkInv' /\ HandlerInv'
  BY <1>2 DEF IInv, LinkInv, HandlerInv, Idle, handler
<1> QED
  BY <1>4, <1>5, <1>6 DEF IInv

\* Nothing but the devices, the link and the answers changes while no handler runs.
LEMMA OutsideStep ==
    ASSUME IInv, Idle, UNCHANGED <<memory, ledger, handler, fired>>,
           OthersType', session' => session
    PROVE  IInv'
<1>1. TypeOK'
  BY DEF IInv, TypeOK, OthersType, handler, memory
<1>2. LinkInv' /\ HandlerInv'
  BY DEF IInv, LinkInv, HandlerInv, Idle, handler, memory
<1>3. LedgerInv' /\ SealInv'
  BY DEF IInv, LedgerInv, SealInv, memory
<1> QED
  BY <1>1, <1>2, <1>3 DEF IInv

\* A digest conflict preserves the invariant: the seal becomes an uncertain effect.
LEMMA DigestConflictStep ==
    ASSUME IInv, NEW q \in Requests, NEW mode \in Modes, DigestConflict(q, mode)
    PROVE  IInv'
<1> USE DEF DigestConflict
<1>1. Idle /\ loaded /\ mem # NoAttempt /\ mem \in AttemptRecords
  BY DEF Accepts, IInv, LinkInv, TypeOK
<1>2. Keeps(mem, ConflictRecord(mem)) /\ ConflictRecord(mem).astate = mem.astate
  BY <1>1, ConflictKeeps
<1>3. OthersType' /\ UNCHANGED <<handler, fired>> /\ session' = session
  BY DEF IInv, TypeOK, OthersType, devices, history, Requests
<1> QED
  BY <1>1, <1>2, <1>3, RecordStep

\* A replay preserves the invariant: only answers change.
LEMMA ReplayStep ==
    ASSUME IInv, NEW q \in Requests, Replay(q)
    PROVE  IInv'
<1> USE DEF Replay
<1>1. Idle /\ mem # NoAttempt /\ mem \in AttemptRecords
  BY DEF Accepts, IInv, TypeOK
<1>2. KnownOutcome(mem, q) \in Outcomes
  <2>1. mem.outcome \in Outcomes \cup {Unspecified} /\ q.id \in CommandIds
        /\ mem.results[q.id] \in StoredResults \cup {NoResult}
    BY <1>1 DEF AttemptRecords, Requests
  <2> QED
    BY <2>1 DEF Known, KnownOutcome, HasResult, StoredResults
<1>3. OthersType'
  BY <1>2, AnswerType DEF IInv, TypeOK, OthersType, devices, link
<1>4. UNCHANGED <<memory, ledger, handler, fired>> /\ session' = session
  BY DEF link
<1> QED
  BY <1>1, <1>3, <1>4, OutsideStep

\* A repeated begin preserves the invariant: only the contract changes.
LEMMA BeginAgainStep ==
    ASSUME IInv, NEW q \in Requests, BeginAgain(q)
    PROVE  IInv'
<1> USE DEF BeginAgain
<1>1. Idle
  BY DEF Accepts
<1>2. OthersType' /\ UNCHANGED <<memory, ledger, handler, fired>> /\ session' = session
  BY DEF IInv, TypeOK, OthersType, devices, history, Requests
<1> QED
  BY <1>1, <1>2, OutsideStep

\* An inspection preserves the invariant: it adds a result and nothing else.
LEMMA InspectStep ==
    ASSUME IInv, NEW q \in Requests, NEW mode \in Modes, Inspect(q, mode)
    PROVE  IInv'
<1> USE DEF Inspect
<1>1. Idle /\ loaded /\ mem # NoAttempt /\ mem \in AttemptRecords
  BY DEF Accepts, IInv, LinkInv, TypeOK
<1>2. Keeps(mem, InspectedRecord(mem, q)) /\ InspectedRecord(mem, q).astate = mem.astate
  BY <1>1, InspectedKeeps
<1>3. OthersType' /\ UNCHANGED <<handler, fired>> /\ session' = session
  BY DEF IInv, TypeOK, OthersType, devices, history, link
<1> QED
  BY <1>1, <1>2, <1>3, RecordStep

\* A rejection preserves the invariant: the id it stores was not carried out in this session.
LEMMA RejectStep ==
    ASSUME IInv, NEW q \in Requests, NEW mode \in Modes, Reject(q, mode)
    PROVE  IInv'
<1> USE DEF Reject
<1>1. Idle /\ loaded /\ mem # NoAttempt /\ mem \in AttemptRecords
  BY DEF Accepts, IInv, LinkInv, TypeOK
<1>2. Keeps(mem, RejectedRecord(mem, q)) /\ RejectedRecord(mem, q).astate = mem.astate
  BY <1>1, RejectedKeeps
<1>3. "NotApplied" \in Outcomes
  BY DEF Outcomes
<1>4. answered' \in [Attempts -> [CommandIds -> SUBSET Outcomes]]
  BY <1>3, AnswerType DEF AnswerIf, IInv
<1>5. OthersType' /\ UNCHANGED <<handler, fired>> /\ session' = session
  BY <1>4 DEF IInv, TypeOK, OthersType, devices, link
<1> QED
  BY <1>1, <1>2, <1>5, RecordStep

\* Resolving an interrupted command preserves the invariant.
LEMMA PrepareInterruptedStep ==
    ASSUME IInv, NEW q \in Requests, NEW mode \in Modes, PrepareInterrupted(q, mode)
    PROVE  IInv'
<1> DEFINE n == InterruptedRecord(mem, q)
<1>1. Idle /\ loaded /\ mem # NoAttempt /\ mem \in AttemptRecords
  BY DEF PrepareInterrupted, Accepts, IInv, LinkInv, TypeOK
<1>2. Keeps(mem, n) /\ n.astate = mem.astate /\ n.outcome \in Outcomes
  BY <1>1, InterruptedKeeps DEF PrepareInterrupted, Interrupted
<1>3. Record(n, mode) /\ AnswerIf(mode, q, n.outcome)
  BY DEF PrepareInterrupted
<1> HIDE DEF n
<1>4. answered' \in [Attempts -> [CommandIds -> SUBSET Outcomes]]
  BY <1>2, <1>3, AnswerType DEF AnswerIf, IInv
<1>5. OthersType' /\ UNCHANGED <<handler, fired>> /\ session' = session
  BY <1>4 DEF PrepareInterrupted, IInv, TypeOK, OthersType, devices, link
<1> QED
  BY <1>1, <1>2, <1>3, <1>5, RecordStep

\* begin_v2 only claims an attempt the device has not worked for.
LEMMA BeginStep ==
    ASSUME IInv, NEW q \in Requests, NEW mode \in Modes, Begin(q, mode)
    PROVE  IInv'
<1> DEFINE claim == Claimed(q.att, q.id, q.pay)
           a == q.att
           blank == [att |-> q.att, astate |-> "Claimed", last |-> q.id, pay |-> q.pay,
                     outcome |-> "Applied", results |-> [d \in CommandIds |-> NoResult],
                     side |-> "None", input |-> "Released", capture |-> "NotStarted",
                     target |-> "NotStarted", owned |-> FALSE, cleanup |-> FALSE]
<1>1. /\ session /\ Idle /\ Claimable(a) /\ Persist(claim, mode)
      /\ mem # NoAttempt => LocalResourcesReleased(mem)
      /\ mem' = IF mode = "ok" THEN claim ELSE NoAttempt
      /\ contract' = IF mode = "ok" THEN q.att ELSE contract
      /\ UNCHANGED <<loaded, session, devices, handler, history>>
  BY DEF Begin
<1>2. a \in Attempts /\ q.id \in CommandIds /\ q.pay \in Payloads
  BY DEF Requests
<1>3. blank \in AttemptRecords /\ blank.outcome \in Outcomes /\ blank.att = a
      /\ blank.astate = "Claimed"
  BY <1>2 DEF AttemptRecords, AttemptStates, Outcomes, SideEffectStates, InputStates,
              CaptureStates, OwnedTargetStates
<1>4. claim = StoreCurrentResult(blank)
  BY DEF Claimed
<1> HIDE DEF blank, claim
<1>5. claim \in AttemptRecords /\ claim.att = a /\ claim.astate = "Claimed"
  BY <1>3, <1>4, StoreFacts
<1>6. loaded /\ TypeOK /\ LedgerInv /\ SealInv
  BY <1>1 DEF IInv, LinkInv
<1>7. mem # NoAttempt => mem.att # a /\ Closed(ledger[mem.att])
  BY <1>1, <1>6 DEF Claimable, LocalResourcesReleased, LedgerInv
<1>8. \A c \in CommandIds : <<a, c>> \notin fired
  <2>1. ledger[a] = NoLedger \/ ~Closed(ledger[a])
    BY <1>1 DEF Claimable, Closed, Loads
  <2> QED
    BY <1>2, <1>6, <1>7, <2>1 DEF LedgerInv, SealInv
<1>9. HoldsNone
  BY <1>6, <1>7, <1>8 DEF HoldsNone, SealInv
<1>10. /\ ledger' \in [Attempts -> Ledgers]
       /\ \A b \in Attempts \ {a} : ledger'[b] = ledger[b]
       /\ \A b \in Attempts : ledger[b] # NoLedger => ledger'[b] # NoLedger
       /\ mode # "lost" => ledger'[a] # NoLedger
       /\ ledger'[a] \in {ledger[a], TornLedger} \/ ledger'[a].att = a
  BY <1>1, <1>5, <1>6, PersistFacts DEF TypeOK
<1>11. fired' = fired /\ loaded' = loaded /\ session' = session
  BY <1>1 DEF history
<1>12. LedgerInv'
  <2>1. \A b \in Attempts : ledger'[b] \in AttemptRecords => ledger'[b].att = b
    BY <1>6, <1>10, SentinelAssumption DEF LedgerInv
  <2>2. \A b \in Attempts, c \in CommandIds : <<b, c>> \in fired' => ledger'[b] # NoLedger
    BY <1>6, <1>10, <1>11 DEF LedgerInv
  <2>3. mem' # NoAttempt =>
            mem'.astate # "Terminal" /\ ledger'[mem'.att] # NoLedger
    BY <1>1, <1>5, <1>10
  <2> QED
    BY <2>1, <2>2, <2>3 DEF LedgerInv
<1>13. SealInv'
  <2>1. \A b \in Attempts, c \in CommandIds : <<b, c>> \in fired' => Closed(ledger'[b])
    BY <1>8, <1>9, <1>10, <1>11 DEF HoldsNone
  <2> QED
    BY <1>1, <1>5, <1>8, <1>11, <2>1 DEF SealInv
<1>14. TypeOK'
  BY <1>1, <1>2, <1>5, <1>6, <1>10 DEF TypeOK, devices, handler, history
<1>15. LinkInv' /\ HandlerInv'
  BY <1>1 DEF IInv, LinkInv, HandlerInv, Idle, handler
<1> QED
  BY <1>12, <1>13, <1>14, <1>15 DEF IInv

\* inspect of an attempt that is not active: its ledger stays closed if it was.
LEMMA InspectNamedStep ==
    ASSUME IInv, NEW q \in Requests, NEW mode \in Modes, InspectNamed(q, mode)
    PROVE  IInv'
<1> DEFINE a == q.att
           r == ledger[a]
<1>1. /\ session /\ Idle /\ mem = NoAttempt /\ Loads(r)
      /\ UNCHANGED <<link, devices, handler, history>>
  BY DEF InspectNamed
<1>2. loaded /\ TypeOK /\ LedgerInv /\ SealInv /\ a \in Attempts
  BY <1>1 DEF IInv, LinkInv, Requests
<1>3. r \in AttemptRecords /\ r.att = a
  BY <1>1, <1>2 DEF Loads, TypeOK, Ledgers, LedgerInv
<1>4. HoldsNone
  BY <1>1, <1>2, MemoryHolds
<1>5. Holds(r)
  BY <1>1, <1>3, <1>4 DEF Holds, HoldsNone, Loads, Closed
<1>6. fired' = fired /\ session' = session
  BY <1>1 DEF history, link
<1>7. CASE Record(ConflictRecord(r), mode)
  <2> DEFINE n == ConflictRecord(r)
  <2>1. Keeps(r, n) /\ n.astate = r.astate /\ \A c \in CommandIds : Sealed(n, c)
    BY <1>3, ConflictKeeps
  <2>2. n \in AttemptRecords /\ n.att = r.att
    BY <2>1 DEF Keeps
  <2>3. Persist(n, mode) /\ mem' = n /\ loaded' = loaded
    BY <1>7 DEF Record
  <2> HIDE DEF n
  <2>4. LedgerInv' /\ SealInv'
    BY <1>2, <1>5, <1>6, <2>1, <2>2, <2>3, JournalStep
  <2>5. TypeOK'
    BY <1>1, <1>2, <2>2, <2>3, PersistFacts DEF TypeOK, link, devices, handler, history
  <2>6. LinkInv' /\ HandlerInv'
    BY <1>1, <2>3 DEF IInv, LinkInv, HandlerInv, Idle, handler, link
  <2> QED
    BY <2>4, <2>5, <2>6 DEF IInv
<1>8. CASE /\ ~HasResult(r, q.id) /\ UNCHANGED memory
           /\ Persist(InspectedRecord(r, q), mode)
  <2> DEFINE n == InspectedRecord(r, q)
  <2>1. Keeps(r, n) /\ n.astate = r.astate
    BY <1>3, <1>8, InspectedKeeps
  <2>2. n \in AttemptRecords /\ n.att = a
    BY <1>3, <2>1 DEF Keeps
  <2>3. Persist(n, mode)
    BY <1>8
  <2> HIDE DEF n
  <2>4. /\ ledger' \in [Attempts -> Ledgers]
        /\ \A b \in Attempts \ {a} : ledger'[b] = ledger[b]
        /\ \A b \in Attempts : ledger[b] # NoLedger => ledger'[b] # NoLedger
        /\ ledger'[a] \in {ledger[a], TornLedger} \/ ledger'[a].att = a
        /\ n.astate = "Terminal" /\ Closed(ledger[a]) => Closed(ledger'[a])
    BY <1>2, <2>2, <2>3, PersistFacts DEF TypeOK
  <2>5. mem' = NoAttempt /\ loaded' = loaded
    BY <1>1, <1>8 DEF memory
  <2>6. LedgerInv'
    BY <1>2, <1>6, <2>4, <2>5, SentinelAssumption DEF LedgerInv
  <2>7. Closed(ledger[a]) => n.astate = "Terminal"
    BY <1>1, <2>1 DEF Closed, Loads
  <2>8. SealInv'
    BY <1>4, <1>6, <2>4, <2>5, <2>7 DEF SealInv, HoldsNone
  <2>9. TypeOK'
    BY <1>1, <1>2, <2>4, <2>5 DEF TypeOK, link, devices, handler, history
  <2>10. LinkInv' /\ HandlerInv'
    BY <1>1, <2>5 DEF IInv, LinkInv, HandlerInv, Idle, handler, link
  <2> QED
    BY <2>6, <2>8, <2>9, <2>10 DEF IInv
<1> QED
  BY <1>7, <1>8 DEF InspectNamed

\* The append of the intent, whatever prepare_inner has checked for it.
LEMMA IntendStep ==
    ASSUME IInv, NEW q \in Requests, NEW mode \in Modes,
           Accepts(q), New(mem, q), Intend(q, mode),
           Kind(q) \in BusinessKinds => mem.astate # "Terminal" /\ ~Unresolved(mem)
    PROVE  IInv'
<1> DEFINE n == IntentRecord(mem, q)
<1>1. /\ session /\ Idle /\ mem # NoAttempt /\ mem.att = q.att
      /\ ~HasResult(mem, q.id) /\ loaded /\ TypeOK /\ LedgerInv /\ SealInv
      /\ mem \in AttemptRecords /\ executed = FALSE
  BY DEF Accepts, New, IInv, LinkInv, TypeOK
<1>2. /\ Record(n, mode) /\ busy' = (IF mode = "ok" THEN q ELSE NoRequest)
      /\ UNCHANGED <<executed, link, devices, history>>
  BY DEF Intend
<1>3. /\ Keeps(mem, n) /\ n.astate = mem.astate /\ n.results = mem.results
      /\ n.last = q.id
      /\ Kind(q) \in SideEffectKinds => n.side = "IntentRecorded"
  BY <1>1, IntentKeeps
<1> HIDE DEF n
<1>4. /\ n \in AttemptRecords /\ n.att = mem.att
      /\ mem' = n /\ loaded' = loaded /\ Persist(n, mode)
  BY <1>2, <1>3 DEF Keeps, Record
<1>5. Holds(mem)
  BY <1>1, MemoryHolds
<1>6. fired' = fired /\ session' = session /\ executed' = FALSE
  BY <1>1, <1>2 DEF history, link
<1>7. \A c \in CommandIds : <<mem.att, c>> \in fired => Sealed(mem, c) /\ Sealed(n, c)
  BY <1>1, <1>3, <1>5 DEF SealInv, Keeps, Holds, AttemptRecords
<1>8. LedgerInv' /\ SealInv'
  BY <1>1, <1>3, <1>4, <1>5, <1>6, <1>7, JournalStep
<1>9. TypeOK'
  BY <1>1, <1>2, <1>4, PersistFacts DEF TypeOK, link, devices, history
<1>10. LinkInv'
  BY <1>1, <1>4, <1>6, SentinelAssumption DEF LinkInv
<1>11. HandlerInv'
  <2>1. CASE mode # "ok"
    BY <1>2, <2>1 DEF HandlerInv, Idle
  <2>2. CASE mode = "ok"
    <3>1. busy' = q /\ mem'.att = q.att /\ mem'.last = q.id /\ ~HasResult(mem', q.id)
      BY <1>1, <1>2, <1>3, <1>4, <2>2 DEF HasResult
    <3>2. Kind(q) \in BusinessKinds => mem'.astate # "Terminal"
      BY <1>3, <1>4
    <3>3. ASSUME Kind(q) \in SideEffectKinds, NEW c \in CommandIds,
                 <<q.att, c>> \in fired
          PROVE  AppliedStored(mem', c)
      <4>1. Sealed(mem, c) /\ mem.astate # "Terminal" /\ ~Unresolved(mem)
        BY <1>1, <1>7, <3>3 DEF SideEffectKinds, BusinessKinds
      <4>2. AppliedStored(mem, c)
        BY <4>1 DEF Sealed
      <4> QED
        BY <1>3, <1>4, <4>2 DEF AppliedStored, HasResult
    <3>4. Kind(q) \in SideEffectKinds => mem'.side = "IntentRecorded"
      BY <1>3, <1>4
    <3> QED
      BY <1>6, <3>1, <3>2, <3>3, <3>4 DEF HandlerInv, Kind
  <2> QED
    BY <2>1, <2>2
<1> QED
  BY <1>8, <1>9, <1>10, <1>11 DEF IInv

\* The kinds that skip the checks of business commands are none of them.
LEMMA KindsApart ==
    /\ RecoveryKinds \cap BusinessKinds = {}
    /\ SideEffectKinds \subseteq BusinessKinds
  BY DEF RecoveryKinds, BusinessKinds, SideEffectKinds

\* The intent of a business command preserves the invariant.
LEMMA PrepareStep ==
    ASSUME IInv, NEW q \in Requests, NEW mode \in Modes, Prepare(q, mode)
    PROVE  IInv'
  BY IntendStep DEF Prepare

\* The intent of a recovery command preserves the invariant.
LEMMA PrepareRecoveryStep ==
    ASSUME IInv, NEW q \in Requests, NEW mode \in Modes, PrepareRecovery(q, mode)
    PROVE  IInv'
  BY IntendStep, KindsApart DEF PrepareRecovery

\* Resuming a recovery command preserves the invariant.
LEMMA ResumeRecoveryStep ==
    ASSUME IInv, NEW q \in Requests, ResumeRecovery(q)
    PROVE  IInv'
<1>1. /\ session /\ Idle /\ mem # NoAttempt /\ mem.att = q.att
      /\ ~HasResult(mem, q.id) /\ mem.last = q.id /\ Kind(q) \in RecoveryKinds
      /\ busy' = q
      /\ UNCHANGED <<memory, ledger, link, devices, executed, history>>
  BY DEF ResumeRecovery, Accepts, Interrupted
<1>2. executed = FALSE /\ loaded
  BY <1>1 DEF IInv, LinkInv, TypeOK
<1>3. TypeOK'
  BY <1>1 DEF IInv, TypeOK, memory, link, devices, history
<1>4. LinkInv'
  BY <1>1, <1>2 DEF LinkInv, memory, link
<1>5. LedgerInv' /\ SealInv'
  BY <1>1 DEF IInv, LedgerInv, SealInv, memory, link, history
<1>6. HandlerInv'
  BY <1>1, KindsApart DEF HandlerInv, Kind, HasResult, memory
<1> QED
  BY <1>3, <1>4, <1>5, <1>6 DEF IInv

\* The device carries out a command whose intent is recorded.
LEMMA FireStep ==
    ASSUME IInv, Fire
    PROVE  IInv'
<1> USE DEF Fire
<1>1. /\ ~Idle /\ session /\ mem # NoAttempt /\ mem.att = busy.att
      /\ busy \in Requests /\ mem.side = "IntentRecorded"
      /\ UNCHANGED <<memory, ledger, link, devices, busy, answered>>
      /\ executed' = TRUE /\ fired' = fired \cup {Key(busy)}
  BY DEF IInv, LinkInv, HandlerInv, TypeOK, Idle
<1>2. busy.att \in Attempts /\ busy.id \in CommandIds
  BY <1>1 DEF Requests
<1>3. TypeOK'
  BY <1>1, <1>2 DEF IInv, TypeOK, memory, link, devices, Key
<1>4. LinkInv'
  BY <1>1 DEF IInv, LinkInv, memory, link, Idle
<1>5. LedgerInv'
  BY <1>1, <1>2 DEF IInv, LedgerInv, memory, Key
<1>6. SealInv'
  <2>1. \A c \in CommandIds : Sealed(mem, c)
    BY <1>1 DEF Sealed, Unresolved
  <2> QED
    BY <1>1, <1>2, <2>1 DEF IInv, SealInv, memory, link, Key
<1>7. HandlerInv'
  <2>1. /\ HandlerInv /\ mem' = mem /\ busy' = busy /\ Kind(busy) \in SideEffectKinds
    BY <1>1 DEF IInv, memory
  <2> QED
    BY <1>1, <1>2, <2>1 DEF HandlerInv, Idle, Kind, HasResult, AppliedStored, Key
<1> QED
  BY <1>3, <1>4, <1>5, <1>6, <1>7 DEF IInv

\* A handler that gives up leaves the intent behind.
LEMMA AbandonStep ==
    ASSUME IInv, Abandon
    PROVE  IInv'
<1> USE DEF Abandon
<1>1. TypeOK'
  BY DEF IInv, TypeOK, memory, link, history
<1>2. LinkInv'
  BY DEF IInv, LinkInv, memory, link, TypeOK
<1>3. LedgerInv' /\ SealInv'
  BY DEF IInv, LedgerInv, SealInv, memory, link, history
<1>4. HandlerInv'
  BY DEF HandlerInv, Idle
<1> QED
  BY <1>1, <1>2, <1>3, <1>4 DEF IInv

\* complete stores the result, appends it and ends the handler.
LEMMA CompleteStep ==
    ASSUME IInv, ~Idle, NEW n, Settles(mem, n), NEW mode \in Modes, Complete(n, mode),
           mem.astate = "Terminal" => n.astate = "Terminal",
           n.astate = "Terminal" => mem.astate = "Terminal" \/ mode # "lost",
           \A c \in CommandIds :
               <<mem.att, c>> \in fired => Sealed(StoreCurrentResult(n), c),
           lease' \in BOOLEAN, capturing' \in BOOLEAN, binding' \in BOOLEAN
    PROVE  IInv'
<1> DEFINE m == StoreCurrentResult(n)
<1>1. /\ session /\ mem # NoAttempt /\ loaded /\ TypeOK /\ LedgerInv /\ SealInv
      /\ busy \in Requests
  BY DEF IInv, LinkInv, TypeOK, Idle
<1>2. n \in AttemptRecords /\ n.outcome \in Outcomes /\ n.att = mem.att
  BY DEF Settles
<1>3. m \in AttemptRecords /\ m.att = mem.att /\ m.astate = n.astate
  BY <1>2, StoreFacts
<1> HIDE DEF m
<1>4. /\ mem' = m /\ loaded' = loaded /\ Persist(m, mode)
      /\ AnswerIf(mode, busy, n.outcome)
      /\ busy' = NoRequest /\ executed' = FALSE /\ UNCHANGED <<link, fired>>
  BY DEF Complete, Record, m
<1>5. Holds(mem)
  BY <1>1, MemoryHolds
<1>6. \A c \in CommandIds : <<mem.att, c>> \in fired => Sealed(m, c)
  BY DEF m
<1>7. LedgerInv' /\ SealInv'
  BY <1>1, <1>3, <1>4, <1>5, <1>6, JournalStep
<1>8. answered' \in [Attempts -> [CommandIds -> SUBSET Outcomes]]
  BY <1>1, <1>2, <1>4, AnswerType DEF AnswerIf
<1>9. TypeOK'
  BY <1>1, <1>3, <1>4, <1>8, PersistFacts DEF TypeOK, link
<1>10. LinkInv' /\ HandlerInv'
  BY <1>1, <1>4 DEF LinkInv, HandlerInv, Idle, link
<1> QED
  BY <1>7, <1>9, <1>10 DEF IInv

\* What a running handler knows of the active record.
LEMMA HandlerFacts ==
    ASSUME IInv, ~Idle
    PROVE  /\ mem \in AttemptRecords /\ busy \in Requests
           /\ lease \in BOOLEAN /\ capturing \in BOOLEAN /\ binding \in BOOLEAN
           /\ executed \in BOOLEAN
           /\ mem.att = busy.att /\ mem.last = busy.id
           /\ ~HasResult(mem, mem.last)
           /\ Kind(busy) \in BusinessKinds => mem.astate # "Terminal"
           /\ \A c \in CommandIds : <<mem.att, c>> \in fired => Sealed(mem, c)
           /\ Kind(busy) \in SideEffectKinds =>
                \A c \in CommandIds :
                    <<mem.att, c>> \in fired =>
                        AppliedStored(mem, c) \/ (executed /\ c = mem.last)
<1>1. /\ session /\ mem # NoAttempt /\ mem \in AttemptRecords /\ busy \in Requests
  BY DEF IInv, LinkInv, TypeOK, Idle
<1>2. \A c \in CommandIds : <<mem.att, c>> \in fired => Sealed(mem, c)
  BY <1>1 DEF IInv, SealInv, AttemptRecords
<1> QED
  BY <1>1, <1>2 DEF IInv, TypeOK, HandlerInv

\* The result of a command that is no side effect.
LEMMA CompleteOtherStep ==
    ASSUME IInv, ~Idle, NEW n, Settles(mem, n), Keeps(mem, n),
           NEW mode \in Modes, Complete(n, mode),
           n.astate = "Terminal" => mem.astate = "Terminal" \/ mode # "lost",
           lease' \in BOOLEAN, capturing' \in BOOLEAN, binding' \in BOOLEAN
    PROVE  IInv'
<1>1. Keeps(mem, StoreCurrentResult(n))
  BY HandlerFacts, SettledKeeps
<1>2. \A c \in CommandIds :
          <<mem.att, c>> \in fired => Sealed(StoreCurrentResult(n), c)
  BY <1>1, HandlerFacts DEF Keeps
<1> QED
  BY <1>2, CompleteStep DEF Keeps

\* The result of a side effect.
LEMMA CompleteEffectStep ==
    ASSUME IInv, ~Idle, Kind(busy) \in SideEffectKinds,
           NEW n, Effects(mem, n), executed => n.outcome # "NotApplied",
           NEW mode \in Modes, Complete(n, mode),
           lease' \in BOOLEAN, capturing' \in BOOLEAN, binding' \in BOOLEAN
    PROVE  IInv'
<1>1. mem.astate # "Terminal" /\ n.astate # "Terminal"
  BY HandlerFacts, KindsApart DEF Effects
<1>2. \A c \in CommandIds :
          <<mem.att, c>> \in fired => Sealed(StoreCurrentResult(n), c)
  <2> SUFFICES ASSUME NEW c \in CommandIds, <<mem.att, c>> \in fired
               PROVE  Sealed(StoreCurrentResult(n), c)
    OBVIOUS
  <2>1. AppliedStored(mem, c) \/ (c = mem.last /\ n.outcome # "NotApplied")
    BY HandlerFacts
  <2>2. ~HasResult(mem, mem.last)
    BY HandlerFacts
  <2> QED
    BY <2>1, <2>2, EffectSeals
<1> QED
  BY <1>1, <1>2, CompleteStep DEF Effects

\* The completion of every kind of command but finish preserves the invariant.
LEMMA CompletionsStep ==
    ASSUME IInv, NEW mode \in Modes, Completions(mode)
    PROVE  IInv'
<1>1. CASE CompleteStart(mode)
  <2>1. /\ ~Idle /\ Kind(busy) = "start" /\ Complete(StartedRecord(mem, executed), mode)
        /\ binding' = (binding \/ executed) /\ UNCHANGED <<lease, capturing>>
    BY <1>1 DEF CompleteStart
  <2>2. mem \in AttemptRecords /\ executed \in BOOLEAN
        /\ lease' \in BOOLEAN /\ capturing' \in BOOLEAN /\ binding' \in BOOLEAN
    BY <2>1, HandlerFacts
  <2>3. /\ Effects(mem, StartedRecord(mem, executed))
        /\ executed => StartedRecord(mem, executed).outcome # "NotApplied"
    BY <2>2, StartedEffect
  <2>4. Kind(busy) \in SideEffectKinds
    BY <2>1 DEF SideEffectKinds
  <2> QED
    BY <2>1, <2>2, <2>3, <2>4, CompleteEffectStep
<1>2. ASSUME NEW outcome \in Outcomes, NEW holds \in BOOLEAN,
             CompleteFrame(outcome, holds, mode)
      PROVE  IInv'
  <2>1. /\ ~Idle /\ Kind(busy) = "frame" /\ (outcome = "NotApplied" => ~executed)
        /\ Complete(FrameRecord(mem, outcome, holds), mode)
        /\ lease' \in BOOLEAN /\ UNCHANGED <<capturing, binding>>
    BY <1>2 DEF CompleteFrame
  <2>2. mem \in AttemptRecords /\ capturing' \in BOOLEAN /\ binding' \in BOOLEAN
    BY <2>1, HandlerFacts
  <2>3. /\ Effects(mem, FrameRecord(mem, outcome, holds))
        /\ executed => FrameRecord(mem, outcome, holds).outcome # "NotApplied"
    BY <2>1, <2>2, FrameEffect
  <2>4. Kind(busy) \in SideEffectKinds
    BY <2>1 DEF SideEffectKinds
  <2> QED
    BY <2>1, <2>2, <2>3, <2>4, CompleteEffectStep
<1>3. ASSUME NEW ok \in BOOLEAN, CompleteCapture(ok, mode)
      PROVE  IInv'
  <2> DEFINE running == Kind(busy) = "startCapture"
  <2>1. /\ ~Idle /\ Kind(busy) \in BusinessKinds
        /\ Complete(CaptureRecord(mem, running, ok), mode)
        /\ UNCHANGED <<lease, binding>>
    BY <1>3 DEF CompleteCapture, BusinessKinds
  <2>2. /\ mem \in AttemptRecords /\ mem.astate # "Terminal" /\ capturing \in BOOLEAN
        /\ lease' \in BOOLEAN /\ binding' \in BOOLEAN /\ running \in BOOLEAN
    BY <2>1, HandlerFacts
  <2>3. capturing' \in BOOLEAN
    BY <1>3, <2>2 DEF CompleteCapture
  <2> HIDE DEF running
  <2> DEFINE n == CaptureRecord(mem, running, ok)
  <2>4. Settles(mem, n) /\ Keeps(mem, n) /\ n.astate # "Terminal"
    BY <2>2, CaptureKeeps
  <2> HIDE DEF n
  <2>5. Complete(n, mode)
    BY <2>1 DEF n
  <2> QED
    BY <2>1, <2>2, <2>3, <2>4, <2>5, CompleteOtherStep
<1>4. ASSUME NEW ok \in BOOLEAN, CompleteCaptureFrame(ok, mode)
      PROVE  IInv'
  <2> DEFINE n == CapturedFrameRecord(mem, ok)
  <2>1. ~Idle /\ Kind(busy) \in BusinessKinds /\ Complete(n, mode)
        /\ UNCHANGED <<capturing, binding>>
    BY <1>4 DEF CompleteCaptureFrame, BusinessKinds
  <2>2. /\ mem \in AttemptRecords /\ mem.astate # "Terminal" /\ lease \in BOOLEAN
        /\ capturing' \in BOOLEAN /\ binding' \in BOOLEAN
    BY <2>1, HandlerFacts
  <2>3. lease' \in BOOLEAN
    BY <1>4, <2>2 DEF CompleteCaptureFrame
  <2>4. Settles(mem, n) /\ Keeps(mem, n) /\ n.astate # "Terminal"
    BY <2>2, CapturedFrameKeeps
  <2> HIDE DEF n
  <2> QED
    BY <2>1, <2>2, <2>3, <2>4, CompleteOtherStep
<1>5. ASSUME NEW released \in BOOLEAN, CompleteRelease(released, mode)
      PROVE  IInv'
  <2> DEFINE n == ReleasedRecord(mem, released)
  <2>1. ~Idle /\ Complete(n, mode) /\ UNCHANGED <<capturing, binding>>
    BY <1>5 DEF CompleteRelease
  <2>2. /\ mem \in AttemptRecords /\ lease \in BOOLEAN
        /\ capturing' \in BOOLEAN /\ binding' \in BOOLEAN
    BY <2>1, HandlerFacts
  <2>3. lease' \in BOOLEAN
    BY <1>5, <2>2 DEF CompleteRelease
  <2>4. Settles(mem, n) /\ Keeps(mem, n) /\ n.astate = mem.astate
    BY <2>2, ReleasedKeeps
  <2> HIDE DEF n
  <2> QED
    BY <2>1, <2>2, <2>3, <2>4, CompleteOtherStep
<1> QED
  BY <1>1, <1>2, <1>3, <1>4, <1>5 DEF Completions

\* FinishTaskAttempt, as long as its append is not lost without a trace.
LEMMA CompleteFinishStep ==
    ASSUME IInv, NEW released \in BOOLEAN, NEW stopped \in BOOLEAN,
           NEW mode \in Modes, mode # "lost", CompleteFinish(released, stopped, mode)
    PROVE  IInv'
<1> DEFINE n == CompletedFinishRecord(mem, released, stopped, binding)
<1>1. ~Idle /\ Complete(n, mode) /\ capturing' = FALSE /\ UNCHANGED binding
  BY DEF CompleteFinish
<1>2. mem \in AttemptRecords /\ lease \in BOOLEAN /\ binding \in BOOLEAN
  BY <1>1, HandlerFacts
<1>3. lease' \in BOOLEAN /\ binding' \in BOOLEAN
  BY <1>1, <1>2 DEF CompleteFinish
<1>4. Settles(mem, n) /\ Keeps(mem, n)
  BY <1>2, CompletedFinishKeeps
<1> HIDE DEF n
<1> QED
  BY <1>1, <1>3, <1>4, CompleteOtherStep

(***************************************************************************)
(* The steps that no command asks for                                      *)
(***************************************************************************)
\* A load that fails may leave a live attempt in memory, and no session.
LEMMA LoadFailsStep ==
    ASSUME IInv, Idle, LoadFails, UNCHANGED <<handler, fired>>, OthersType',
           ~session'
    PROVE  IInv'
<1>1. PICK r \in {mem} \cup {ledger[a] : a \in ReadBeforeFailure} : mem' = r
  BY DEF LoadFails
<1>2. loaded' = FALSE /\ ledger' = ledger /\ fired' = fired
  BY DEF LoadFails
<1>3. \/ r = mem
      \/ \E a \in Attempts : r = ledger[a] /\ Loads(ledger[a])
  BY <1>1 DEF ReadBeforeFailure, LiveLedgers
<1>4. \/ r = mem
      \/ /\ r \in AttemptRecords /\ ledger[r.att] = r /\ r # NoLedger
         /\ r.att \in Attempts
  BY <1>3 DEF Loads, IInv, TypeOK, LedgerInv, Ledgers
<1>5. TypeOK'
  BY <1>1, <1>2, <1>4 DEF IInv, TypeOK, OthersType, handler
<1>6. LedgerInv'
  BY <1>1, <1>2, <1>4 DEF IInv, LedgerInv, Closed
<1>7. SealInv'
  BY <1>2 DEF SealInv
<1>8. LinkInv' /\ HandlerInv'
  BY DEF IInv, LinkInv, HandlerInv, Idle, handler
<1> QED
  BY <1>5, <1>6, <1>7, <1>8 DEF IInv

\* The active attempt is put in memory, and a session may begin if it is over.
LEMMA ActivateStep ==
    ASSUME IInv, Idle, LoadsActive, mem' = ActiveLoaded, loaded' = TRUE,
           UNCHANGED <<ledger, handler, fired>>, OthersType',
           session' => \/ session
                       \/ ActiveLoaded = NoAttempt
                       \/ ActiveLoaded.astate = "Terminal"
    PROVE  IInv'
<1> DEFINE r == ActiveLoaded
<1>1. TypeOK /\ LedgerInv /\ SealInv
  BY DEF IInv
<1>2. IF r = NoAttempt THEN HoldsNone ELSE Holds(r)
  BY <1>1, LoadHolds
<1>3. session => loaded /\ r = mem
  BY DEF IInv, LinkInv, ActiveLoaded
<1>4. mem' = r
  OBVIOUS
<1> HIDE DEF r
<1>5. TypeOK'
  BY <1>1, <1>2, <1>4 DEF TypeOK, OthersType, handler, Holds
<1>6. LedgerInv'
  BY <1>1, <1>2, <1>4 DEF LedgerInv, Holds
<1>7. SealInv'
  <2>1. ASSUME NEW a \in Attempts, NEW c \in CommandIds, <<a, c>> \in fired,
               session', r # NoAttempt, r.att = a
        PROVE  Sealed(r, c)
    BY <1>1, <1>3, <2>1 DEF SealInv, Sealed, r
  <2>2. ASSUME NEW a \in Attempts, NEW c \in CommandIds, <<a, c>> \in fired,
               r = NoAttempt \/ r.att # a
        PROVE  Closed(ledger[a])
    BY <1>2, <2>2 DEF Holds, HoldsNone
  <2> QED
    BY <1>4, <2>1, <2>2 DEF SealInv
<1>8. LinkInv' /\ HandlerInv'
  BY DEF IInv, LinkInv, HandlerInv, Idle, handler
<1> QED
  BY <1>5, <1>6, <1>7, <1>8 DEF IInv

\* The active attempt is updated and appended, with or without a session.
LEMMA UpdateActiveStep ==
    ASSUME IInv, Idle, LoadsActive, loaded' = TRUE, ActiveLoaded # NoAttempt,
           NEW n, Keeps(ActiveLoaded, n), NEW mode \in Modes, Persist(n, mode),
           mem' = n \/ mem' = ActiveLoaded,
           mem'.astate = "Terminal" =>
               ActiveLoaded.astate = "Terminal" \/ (mode # "lost" /\ n.astate = "Terminal"),
           UNCHANGED <<handler, fired>>, OthersType',
           session' => \/ mem'.astate = "Terminal"
                       \/ session /\ mem' = n
    PROVE  IInv'
<1> DEFINE r == ActiveLoaded
<1>1. TypeOK /\ LedgerInv /\ SealInv
  BY DEF IInv
<1>2. Holds(r)
  BY <1>1, LoadHolds
<1>3. session => loaded /\ r = mem
  BY DEF IInv, LinkInv, ActiveLoaded
<1>4. n \in AttemptRecords /\ n.att = r.att
  BY DEF Keeps
<1>5. session' => \A c \in CommandIds : <<r.att, c>> \in fired => Sealed(mem', c)
  <2> SUFFICES ASSUME session', NEW c \in CommandIds, <<r.att, c>> \in fired
               PROVE  Sealed(mem', c)
    OBVIOUS
  <2>1. CASE mem'.astate = "Terminal"
    BY <2>1 DEF Sealed
  <2>2. CASE session /\ mem' = n
    <3>1. Sealed(r, c)
      BY <1>1, <1>2, <1>3, <2>2 DEF SealInv, Holds, AttemptRecords
    <3> QED
      BY <2>2, <3>1 DEF Keeps
  <2> QED
    BY <2>1, <2>2
<1>6. r.astate = "Terminal" => n.astate = "Terminal"
  BY DEF Keeps
<1>7. mem' \in AttemptRecords
  BY <1>2, <1>4 DEF Holds
<1>8. LedgerInv' /\ SealInv'
  BY <1>1, <1>2, <1>4, <1>5, <1>6, JournalStep
<1>9. TypeOK'
  BY <1>1, <1>4, <1>7, PersistFacts DEF TypeOK, OthersType, handler
<1>10. LinkInv' /\ HandlerInv'
  BY DEF IInv, LinkInv, HandlerInv, Idle, handler
<1> QED
  BY <1>8, <1>9, <1>10 DEF IInv

\* A Worker failure preserves the invariant: the loaded attempt becomes uncertain.
LEMMA WorkerFailsStep ==
    ASSUME IInv, NEW released \in BOOLEAN, NEW mode \in Modes, WorkerFails(released, mode)
    PROVE  IInv'
<1> DEFINE r == ActiveLoaded
           n == UncertainRecord(r, released)
<1>1. Idle /\ UNCHANGED <<handler, fired>> /\ session' = session
  BY DEF WorkerFails, history, link
<1>2. OthersType'
  BY DEF WorkerFails, IInv, TypeOK, OthersType, link, history
<1>3. CASE LoadFails
  BY <1>1, <1>2, <1>3, LoadFailsStep DEF LoadFails, IInv, LinkInv
<1>4. CASE LoadsActive /\ loaded' = TRUE /\ r = NoAttempt /\ mem' = r /\ UNCHANGED ledger
  BY <1>1, <1>2, <1>4, ActivateStep
<1>5. CASE LoadsActive /\ loaded' = TRUE /\ r # NoAttempt /\ mem' = n /\ Persist(n, mode)
  <2>1. r \in AttemptRecords
    BY <1>5, LoadHolds DEF IInv, Holds
  <2>2. Keeps(r, n) /\ n.astate = r.astate
    BY <2>1, UncertainKeeps
  <2> HIDE DEF n
  <2> QED
    BY <1>1, <1>2, <1>5, <2>2, UpdateActiveStep
<1> QED
  BY <1>3, <1>4, <1>5 DEF WorkerFails

\* A session begins with no attempt, or with one that has been ended.
LEMMA ResetSessionStep ==
    ASSUME IInv, NEW released \in BOOLEAN, NEW stopped \in BOOLEAN,
           NEW connected \in BOOLEAN, NEW mode \in Modes,
           ResetSession(released, stopped, connected, mode)
    PROVE  IInv'
<1> DEFINE r == ActiveLoaded
           n == FinishedRecord(r, released, stopped, binding)
<1>1. Idle /\ ~session /\ UNCHANGED <<handler, fired>>
  BY DEF ResetSession, history
<1>2. OthersType'
  BY DEF ResetSession, IInv, TypeOK, OthersType, history
<1>3. CASE LoadFails /\ session' = FALSE
  BY <1>1, <1>2, <1>3, LoadFailsStep
<1>4. CASE /\ LoadsActive /\ loaded' = TRUE
           /\ r = NoAttempt \/ LocalResourcesReleased(r)
           /\ mem' = r /\ UNCHANGED ledger
  BY <1>1, <1>2, <1>4, ActivateStep DEF LocalResourcesReleased
<1>5. CASE /\ LoadsActive /\ loaded' = TRUE /\ r # NoAttempt
           /\ mem' = IF mode = "ok" THEN n ELSE r
           /\ Persist(n, mode)
           /\ session' => mode = "ok"
  <2>1. r \in AttemptRecords /\ binding \in BOOLEAN
    BY <1>5, LoadHolds DEF IInv, Holds, TypeOK
  <2>2. Keeps(r, n) /\ n.astate = "Terminal"
    BY <2>1, FinishedKeeps
  <2> HIDE DEF n
  <2> QED
    BY <1>1, <1>2, <1>5, <2>2, UpdateActiveStep
<1> QED
  BY <1>3, <1>4, <1>5 DEF ResetSession

\* The end of a session preserves the invariant.
LEMMA SessionLostStep ==
    ASSUME IInv, SessionLost
    PROVE  IInv'
<1>1. Idle /\ UNCHANGED <<memory, ledger, handler, fired>> /\ (session' => session)
  BY DEF SessionLost, history
<1>2. OthersType'
  BY DEF SessionLost, IInv, TypeOK, OthersType, history
<1> QED
  BY <1>1, <1>2, OutsideStep

\* The end of the frame pipeline preserves the invariant.
LEMMA FramePipelineLostStep ==
    ASSUME IInv, FramePipelineLost
    PROVE  IInv'
<1>1. Idle /\ UNCHANGED <<memory, ledger, handler, fired>> /\ (session' => session)
  BY DEF FramePipelineLost, history, link
<1>2. OthersType'
  BY DEF FramePipelineLost, IInv, TypeOK, OthersType, history, link
<1> QED
  BY <1>1, <1>2, OutsideStep

\* tick_safety, for the input lease.
LEMMA LeaseExpiredStep ==
    ASSUME IInv, NEW mode \in Modes, LeaseExpired(mode)
    PROVE  IInv'
<1>1. Idle /\ session /\ loaded /\ UNCHANGED <<handler, fired>> /\ (session' => session)
  BY DEF LeaseExpired, history, IInv, LinkInv
<1>2. OthersType'
  BY DEF LeaseExpired, EndSessionUnless, IInv, TypeOK, OthersType, history, link
<1>3. CASE mem = NoAttempt
  BY <1>1, <1>2, <1>3, OutsideStep DEF LeaseExpired
<1>4. CASE mem # NoAttempt
  <2> DEFINE n == InputReleasedRecord(mem)
  <2>1. mem \in AttemptRecords
    BY <1>4 DEF IInv, TypeOK
  <2>2. Keeps(mem, n) /\ n.astate = mem.astate
    BY <2>1, InputReleasedKeeps
  <2>3. Record(n, mode)
    BY <1>4 DEF LeaseExpired
  <2> HIDE DEF n
  <2> QED
    BY <1>1, <1>2, <1>4, <2>2, <2>3, RecordStep
<1> QED
  BY <1>3, <1>4

\* tick_safety, for the contract: the session goes on only if the end is journalled.
LEMMA ContractExpiredStep ==
    ASSUME IInv, NEW released \in BOOLEAN, NEW stopped \in BOOLEAN, NEW mode \in Modes,
           ContractExpired(released, stopped, mode)
    PROVE  IInv'
<1> DEFINE n == FinishedRecord(mem, released, stopped, binding)
<1>1. /\ Idle /\ session /\ loaded /\ mem # NoAttempt /\ UNCHANGED <<handler, fired>>
      /\ Persist(n, mode) /\ (mem' = IF mode = "ok" THEN n ELSE mem)
      /\ loaded' = TRUE /\ session' = (mode = "ok")
  BY DEF ContractExpired, EndSessionUnless, history, IInv, LinkInv
<1>2. OthersType'
  BY DEF ContractExpired, EndSessionUnless, IInv, TypeOK, OthersType, history
<1>3. LoadsActive /\ ActiveLoaded = mem
  BY <1>1 DEF LoadsActive, ActiveLoaded
<1>4. mem \in AttemptRecords /\ binding \in BOOLEAN
  BY <1>1 DEF IInv, TypeOK
<1>5. Keeps(mem, n) /\ n.astate = "Terminal"
  BY <1>4, FinishedKeeps
<1> HIDE DEF n
<1> QED
  BY <1>1, <1>2, <1>3, <1>5, UpdateActiveStep

\* The record a failed capture or a failed program leaves behind.
LEMMA CaptureFailureStep ==
    ASSUME IInv, NEW uncertain \in BOOLEAN, NEW released \in BOOLEAN,
           NEW restarted \in BOOLEAN, NEW mode \in Modes,
           CaptureFailure(uncertain, released, restarted, mode)
    PROVE  IInv'
<1> DEFINE n == IF uncertain THEN UncertainRecord(mem, released) ELSE InputReleasedRecord(mem)
<1>1. Idle /\ session /\ loaded /\ UNCHANGED <<handler, fired>> /\ (session' => session)
  BY DEF CaptureFailure, history, IInv, LinkInv
<1>2. OthersType'
  BY DEF CaptureFailure, EndSessionUnless, IInv, TypeOK, OthersType, history, link
<1>3. CASE mem = NoAttempt
  BY <1>1, <1>2, <1>3, OutsideStep DEF CaptureFailure
<1>4. CASE mem # NoAttempt
  <2>1. mem \in AttemptRecords
    BY <1>4 DEF IInv, TypeOK
  <2>2. Keeps(mem, n) /\ n.astate = mem.astate
    BY <2>1, UncertainKeeps, InputReleasedKeeps
  <2>3. Record(n, mode)
    BY <1>4 DEF CaptureFailure
  <2> HIDE DEF n
  <2> QED
    BY <1>1, <1>2, <1>4, <2>2, <2>3, RecordStep
<1> QED
  BY <1>3, <1>4

\* A realtime failure preserves the invariant: the attempt becomes uncertain.
LEMMA RealtimeFailureStep ==
    ASSUME IInv, NEW released \in BOOLEAN, NEW mode \in Modes,
           RealtimeFailure(released, mode)
    PROVE  IInv'
<1> DEFINE n == UncertainRecord(mem, released)
<1>1. /\ Idle /\ loaded /\ mem # NoAttempt /\ Record(n, mode)
      /\ UNCHANGED <<handler, fired>> /\ session' = session
  BY DEF RealtimeFailure, history, link, IInv, LinkInv
<1>2. OthersType'
  BY DEF RealtimeFailure, IInv, TypeOK, OthersType, history, link, devices
<1>3. Keeps(mem, n) /\ n.astate = mem.astate
  BY <1>1, UncertainKeeps DEF IInv, TypeOK
<1> HIDE DEF n
<1> QED
  BY <1>1, <1>2, <1>3, RecordStep

\* A change of the target preserves the invariant.
LEMMA ChangeTargetStep ==
    ASSUME IInv, ChangeTarget
    PROVE  IInv'
<1>1. Idle /\ UNCHANGED <<memory, ledger, handler, fired>> /\ session' = session
  BY DEF ChangeTarget, history, link
<1>2. OthersType'
  BY DEF ChangeTarget, IInv, TypeOK, OthersType, history, link
<1> QED
  BY <1>1, <1>2, OutsideStep

\* A crash leaves the ledgers, and with them the intent of a running handler.
LEMMA CrashStep ==
    ASSUME IInv, Crash
    PROVE  IInv'
<1>1. TypeOK'
  BY DEF Crash, IInv, TypeOK, history
<1>2. LinkInv' /\ HandlerInv' /\ SealInv'
  BY DEF Crash, LinkInv, HandlerInv, SealInv, Idle
<1>3. LedgerInv'
  BY DEF Crash, IInv, LedgerInv, history
<1> QED
  BY <1>1, <1>2, <1>3 DEF IInv

\* A stuttering step preserves the invariant.
LEMMA StutterStep ==
    ASSUME IInv, UNCHANGED vars
    PROVE  IInv'
<1>1. UNCHANGED <<mem, loaded, ledger, session, contract, lease, capturing, binding,
                  busy, executed, fired, answered>>
  BY DEF vars, memory, handler, devices, link, history
<1>2. TypeOK' /\ LinkInv'
  BY <1>1 DEF IInv, TypeOK, LinkInv, Idle, Kind
<1>3. LedgerInv' /\ SealInv'
  BY <1>1 DEF IInv, LedgerInv, SealInv
<1>4. HandlerInv'
  BY <1>1 DEF IInv, HandlerInv, Idle, Kind, HasResult, AppliedStored
<1> QED
  BY <1>2, <1>3, <1>4 DEF IInv

(***************************************************************************)
(* The theorems                                                            *)
(***************************************************************************)
LEMMA InitHolds ==
    ASSUME Init
    PROVE  IInv
<1>1. TypeOK
  BY DEF Init, TypeOK, Ledgers
<1> QED
  BY <1>1, SentinelAssumption DEF Init, IInv, LinkInv, LedgerInv, SealInv, HandlerInv, Idle

\* Every command of the session loop preserves the invariant.
LEMMA CommandsStep ==
    ASSUME IInv, NEW q \in Requests, NEW mode \in Modes, Commands(q, mode)
    PROVE  IInv'
  BY DigestConflictStep, ReplayStep, BeginAgainStep, BeginStep, InspectStep,
     InspectNamedStep, RejectStep, PrepareStep, PrepareRecoveryStep,
     ResumeRecoveryStep, PrepareInterruptedStep
  DEF Commands

\* Every handler that runs without a command preserves the invariant.
LEMMA BackgroundStep ==
    ASSUME IInv, NEW mode \in Modes, Background(mode)
    PROVE  IInv'
  BY WorkerFailsStep, RealtimeFailureStep, ResetSessionStep, ContractExpiredStep,
     CaptureFailureStep, LeaseExpiredStep
  DEF Background

\* IInv is inductive, provided the append of complete_finish is never lost
\* without a trace: the one append after which a terminal attempt in memory
\* could be reopened from its ledger.
LEMMA StepHolds ==
    ASSUME "lost" \notin FinishModes, IInv, [Next]_vars
    PROVE  IInv'
<1>1. CASE UNCHANGED vars
  BY <1>1, StutterStep
<1>2. ASSUME NEW mode \in PersistModes, NEW q \in Requests, Commands(q, mode)
      PROVE  IInv'
  BY <1>2, CommandsStep, ModesUsed
<1>3. ASSUME NEW mode \in PersistModes, Completions(mode) \/ Background(mode)
      PROVE  IInv'
  BY <1>3, CompletionsStep, BackgroundStep, ModesUsed
<1>4. ASSUME NEW released \in BOOLEAN, NEW stopped \in BOOLEAN, NEW mode \in FinishModes,
             CompleteFinish(released, stopped, mode)
      PROVE  IInv'
  BY <1>4, CompleteFinishStep, ModesUsed
<1>5. CASE Fire \/ Abandon \/ SessionLost \/ FramePipelineLost \/ ChangeTarget \/ Crash
  BY <1>5, FireStep, AbandonStep, SessionLostStep, FramePipelineLostStep,
     ChangeTargetStep, CrashStep
<1> QED
  BY <1>1, <1>2, <1>3, <1>4, <1>5 DEF Next

\* The invariant holds throughout every behaviour of the Agent.
THEOREM Invariance ==
    ASSUME "lost" \notin FinishModes
    PROVE  Spec => []IInv
<1>1. Init => IInv
  BY InitHolds
<1>2. IInv /\ [Next]_vars => IInv'
  BY StepHolds
<1> QED
  BY <1>1, <1>2, PTL DEF Spec

\* The journal, the files and the history keep their types.
THEOREM TypeCorrect ==
    ASSUME "lost" \notin FinishModes
    PROVE  Spec => []TypeOK
<1>1. IInv => TypeOK
  BY DEF IInv
<1> QED
  BY <1>1, Invariance, PTL

\* The running handler's record is unresolved, without a result of its own, and
\* every other command carried out has its Applied result.
LEMMA HandlerSafe ==
    ASSUME IInv
    PROVE  AtMostOnce /\ ResolvedBeforeNext
<1> SUFFICES ASSUME AboutToFire
             PROVE  AtMostOnce /\ ResolvedBeforeNext
  BY DEF AtMostOnce, ResolvedBeforeNext
<1>1. /\ busy \in Requests /\ ~Idle /\ Kind(busy) \in SideEffectKinds /\ ~executed
      /\ ~HasResult(mem, busy.id)
      /\ \A c \in CommandIds : <<busy.att, c>> \in fired => AppliedStored(mem, c)
  BY DEF AboutToFire, IInv, TypeOK, HandlerInv, Idle
<1>2. busy.id \in CommandIds
  BY <1>1 DEF Requests
<1> QED
  BY <1>1, <1>2 DEF AtMostOnce, ResolvedBeforeNext, AppliedStored, Key

\* A side effect is carried out at most once, over retries, restarts, resets and
\* failed appends: prepare_inner lets a command through only if the device has
\* not carried it out.
THEOREM CarriedOutOnce ==
    ASSUME "lost" \notin FinishModes
    PROVE  Spec => []AtMostOnce
  BY Invariance, HandlerSafe, PTL

\* No side effect starts on top of an unresolved one of the same attempt.
THEOREM NoneOnTop ==
    ASSUME "lost" \notin FinishModes
    PROVE  Spec => []ResolvedBeforeNext
  BY Invariance, HandlerSafe, PTL

(***************************************************************************)
(* The journal implements the gate                                         *)
(***************************************************************************)
\* While a handler runs, the other steps are the end of the handler or a crash.
LEMMA OthersKeepFired ==
    ASSUME Next, ~Fire
    PROVE  fired' = fired /\ (Idle \/ busy' = NoRequest)
<1>1. ASSUME NEW q \in Requests, NEW mode, Commands(q, mode)
      PROVE  fired' = fired /\ Idle
  BY <1>1 DEF Commands, DigestConflict, Replay, BeginAgain, Begin, Inspect, InspectNamed,
              Reject, Prepare, PrepareRecovery, ResumeRecovery, PrepareInterrupted,
              Accepts, Intend, history
<1>2. ASSUME NEW mode, Completions(mode)
      PROVE  fired' = fired /\ busy' = NoRequest
  BY <1>2 DEF Completions, CompleteStart, CompleteFrame, CompleteCapture,
              CompleteCaptureFrame, CompleteRelease, Complete
<1>3. ASSUME NEW mode, Background(mode)
      PROVE  fired' = fired /\ Idle
  BY <1>3 DEF Background, WorkerFails, RealtimeFailure, ResetSession, ContractExpired,
              CaptureFailure, LeaseExpired, history
<1>4. ASSUME NEW released, NEW stopped, NEW mode, CompleteFinish(released, stopped, mode)
      PROVE  fired' = fired /\ busy' = NoRequest
  BY <1>4 DEF CompleteFinish, Complete
<1>5. CASE Abandon \/ SessionLost \/ FramePipelineLost \/ ChangeTarget \/ Crash
  BY <1>5 DEF Abandon, SessionLost, FramePipelineLost, ChangeTarget, Crash, history
<1> QED
  BY <1>1, <1>2, <1>3, <1>4, <1>5 DEF Next

\* Every step of the journal is a step of the gate or leaves the gate as it was.
LEMMA GateStep ==
    ASSUME IInv, IInv', [Next]_vars
    PROVE  [Gate!Next]_(Gate!vars)
<1>1. CASE UNCHANGED vars
  BY <1>1 DEF vars, handler, history, Gate!vars, Pending, AboutToFire, Kind, Key
<1>2. CASE Fire
  <2>1. AboutToFire /\ fired' = fired \cup {Key(busy)} /\ executed' = TRUE
    BY <1>2 DEF Fire, AboutToFire, Idle
  <2>2. Pending = {Key(busy)} /\ Pending' = {}
    BY <2>1 DEF Pending, AboutToFire
  <2>3. Gate!CarryOut
    BY <2>1, <2>2 DEF Gate!CarryOut
  <2> QED
    BY <2>3 DEF Gate!Next
<1>3. CASE Next /\ ~Fire
  <2>1. fired' = fired /\ (Idle \/ busy' = NoRequest)
    BY <1>3, OthersKeepFired
  <2>2. CASE AboutToFire
    <3>1. Pending # {} /\ Pending' = {}
      BY <2>1, <2>2 DEF Pending, AboutToFire, Idle
    <3>2. Gate!Drop
      BY <2>1, <3>1 DEF Gate!Drop
    <3> QED
      BY <3>2 DEF Gate!Next
  <2>3. CASE ~AboutToFire /\ AboutToFire'
    <3> DEFINE k == Key(busy)'
    <3>1. AtMostOnce' /\ busy' \in Requests
      <4>1. AtMostOnce'
        BY HandlerSafe, PTL
      <4> QED
        BY <2>3, <4>1 DEF IInv, TypeOK, AboutToFire
    <3>2. k \in Attempts \X CommandIds /\ k \notin fired
      BY <2>1, <2>3, <3>1 DEF AtMostOnce, Key, Requests
    <3>3. Pending = {} /\ Pending' = {k}
      BY <2>3 DEF Pending
    <3> HIDE DEF k
    <3>4. Gate!Admit(k)
      BY <2>1, <3>2, <3>3 DEF Gate!Admit
    <3> QED
      BY <3>2, <3>4 DEF Gate!Next
  <2>4. CASE ~AboutToFire /\ ~AboutToFire'
    BY <2>1, <2>4 DEF Pending, Gate!vars
  <2> QED
    BY <2>2, <2>3, <2>4
<1> QED
  BY <1>1, <1>2, <1>3

\* The journal implements the gate of SideEffectGate: with its replays, its
\* restarts and its resets, a command reaches the device once and never again.
THEOREM GateImplemented ==
    ASSUME "lost" \notin FinishModes
    PROVE  Spec => GateSpec
<1>1. Init => Gate!Init
  BY DEF Init, Gate!Init, Pending, AboutToFire
<1>2. IInv /\ IInv' /\ [Next]_vars => [Gate!Next]_(Gate!vars)
  BY GateStep
<1> QED
  BY <1>1, <1>2, Invariance, PTL DEF Spec, GateSpec, Gate!Spec
===============================================================================
