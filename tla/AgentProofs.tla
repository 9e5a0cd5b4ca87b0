----------------------------- MODULE AgentProofs -----------------------------
(***************************************************************************)
(* What is proved of the components that MCAgent composes.                 *)
(***************************************************************************)
EXTENDS WorkerProofs, FrameProofs, FiniteSetTheorems, WellFoundedInduction, Sequences, TLAPS

------------------------------------------------------------------------------
(***************************************************************************)
(* CommandTranslator: it keeps its inductive invariant, for any contracts  *)
(* and commands and any number of sessions                                 *)
(***************************************************************************)
LEMMA WireBounds ==
  /\ MaxSequence \in Nat /\ MaxInput \in Nat /\ MaxAccepts \in Nat
  /\ NoAttempt \notin Attempts
<1>1. {MaxSequence, MaxInput, MaxAccepts} \subseteq Nat /\ NoAttempt \notin Attempts
  BY MCAgentAssumption DEF MCAgentAssumption
<1> QED
  BY <1>1

AllIds == UNION {MCIds[a] : a \in Attempts}

\* What an input that reached the device is recorded as.
InputRecords == [att : Attempts, id : AllIds, input : 1 .. MaxInput, accept : 1 .. MaxAccepts]

LEMMA RequestFacts ==
  ASSUME NEW q \in C!Requests
  PROVE  /\ q.att \in Attempts /\ q.payload \in C!Payloads /\ C!Key(q) \in C!Keys
         /\ q.payload.kind # "begin" => q.id \in AllIds
<1>1. CASE q \in [att : Attempts, id : {BeginId}, payload : {C!Opening}]
  BY <1>1 DEF C!Payloads, C!Opening, C!Key, C!Keys
<1>2. ASSUME q \notin [att : Attempts, id : {BeginId}, payload : {C!Opening}]
      PROVE  /\ q.att \in Attempts /\ q.payload \in C!Payloads /\ C!Key(q) \in C!Keys
             /\ q.id \in AllIds
  <2>1. PICK a \in Attempts : q \in [att : {a}, id : MCIds[a], payload : C!Payloads \ {C!Opening}]
    BY <1>2 DEF C!Requests
  <2>2. q.att = a /\ q.id \in MCIds[a] /\ q.payload \in C!Payloads
    BY <2>1
  <2>3. <<q.att, q.id>> \in {a} \X (MCIds[a] \cup {BeginId})
    BY <2>2
  <2> QED
    BY <2>2, <2>3 DEF C!Key, C!Keys, AllIds
<1> QED
  BY <1>1, <1>2

LEMMA PayloadFacts ==
  ASSUME NEW p \in C!Payloads, p.kind \in {"frame", "point"}
  PROVE  p.input \in 1 .. MaxInput
BY DEF C!Payloads, C!Plain, C!Points, C!Frames, C!Opening

LEMMA TranslatorInit == ASSUME C!Init PROVE C!IInv
<1>1. /\ DOMAIN wireDigests = {} /\ wireInputs = <<>>
      /\ wireContract = NoAttempt /\ wireRunning = NoAttempt
  BY DEF C!Init, C!Empty
<1>2. wireInputs \in Seq(InputRecords) /\ DOMAIN wireInputs = {}
  BY <1>1
<1>3. /\ DOMAIN wireDigests \subseteq C!Keys
      /\ \A k \in DOMAIN wireDigests : wireDigests[k] \in C!Payloads
  BY <1>1
<1>4. /\ wireOpen \in BOOLEAN /\ wireLast = 0 /\ wireInput = 0 /\ wireAccepts = 0
      /\ wireDone = {} /\ wireHandled = {}
  BY DEF C!Init
<1>5. C!TypeOK
  BY WireBounds, <1>1, <1>2, <1>3, <1>4
     DEF C!TypeOK, InputRecords, AllIds
<1> QED
  BY <1>1, <1>2, <1>5 DEF C!IInv, C!Accepted, C!Spent, C!InputsInOrder, C!ContractIsRunning

\* The inputs that reached the device, one by one.
LEMMA InputTypes ==
  ASSUME C!TypeOK
  PROVE  /\ wireInputs \in Seq(InputRecords)
         /\ wireAccepts \in Nat /\ wireInput \in Nat
         /\ \A i \in DOMAIN wireInputs :
               /\ wireInputs[i] \in InputRecords
               /\ wireInputs[i].accept \in Nat /\ wireInputs[i].input \in Nat
<1>1. wireInputs \in Seq(InputRecords) /\ wireAccepts \in Nat /\ wireInput \in Nat
  BY WireBounds DEF C!TypeOK, InputRecords, AllIds
<1>2. \A i \in DOMAIN wireInputs : wireInputs[i] \in InputRecords
  BY <1>1
<1>3. \A x \in InputRecords : x.accept \in Nat /\ x.input \in Nat
  BY WireBounds DEF InputRecords
<1> QED
  BY <1>1, <1>2, <1>3

\* What the journals keep of a command is a key.
LEMMA JournalFacts ==
  ASSUME C!TypeOK, NEW k \in C!Keys
  PROVE  wireHandled \subseteq C!Journalled(k) /\ C!Journalled(k) \subseteq C!Keys
BY DEF C!TypeOK, C!Journalled

LEMMA RememberFacts ==
  ASSUME C!TypeOK, NEW q \in C!Requests, C!Remember(q)
  PROVE  /\ DOMAIN wireDigests' \subseteq C!Keys
         /\ \A k \in DOMAIN wireDigests' : wireDigests'[k] \in C!Payloads
BY RequestFacts DEF C!TypeOK, C!Remember

\* A step that lets no input through and accepts no Begin keeps what is known of the inputs.
LEMMA WireQuiet ==
  ASSUME C!IInv, UNCHANGED C!history, wireHandled \subseteq wireHandled',
         wireRunning' = wireRunning \/ wireRunning' = NoAttempt,
         wireContract' = NoAttempt \/ UNCHANGED <<wireContract, wireInput>>
  PROVE  C!Accepted' /\ C!Spent' /\ C!InputsInOrder' /\ C!ContractIsRunning'
BY DEF C!IInv, C!history, C!Accepted, C!Spent, C!InputsInOrder, C!ContractIsRunning

\* A step of the stream: the translator of the session is new, or there is none.
LEMMA StreamStep ==
  ASSUME C!IInv,
         C!Connect \/ C!Disconnect
  PROVE  C!IInv'
<1>1. /\ UNCHANGED <<C!journal, C!history>> /\ C!NoTranslator
      /\ wireLast' = 0 /\ wireOpen' \in BOOLEAN
  BY DEF C!Connect, C!Disconnect
<1>2. DOMAIN wireDigests' = {}
  BY <1>1 DEF C!NoTranslator, C!Empty
<1>3. C!TypeOK'
  BY WireBounds, <1>1, <1>2
     DEF C!IInv, C!TypeOK, C!NoTranslator, C!journal, C!history
<1> QED
  BY <1>1, <1>3, WireQuiet DEF C!IInv, C!NoTranslator, C!journal

\* A command that is refused, or does nothing to the inputs.
LEMMA WireOtherStep ==
  ASSUME C!IInv, NEW s \in 1 .. MaxSequence, wireLast' = s,
         \/ C!SessionCommand
         \/ \E k \in C!Keys : C!Refuse(k)
         \/ \E q \in C!Requests : C!BeginRefused(q) \/ C!Command(q) \/ C!Finish(q)
  PROVE  C!IInv'
<1> USE DEF C!translator, C!journal, C!history
<1>1. CASE C!SessionCommand
  BY WireBounds, <1>1, WireQuiet DEF C!SessionCommand, C!IInv, C!TypeOK
<1>2. ASSUME NEW k \in C!Keys, C!Refuse(k) PROVE C!IInv'
  BY WireBounds, <1>2, WireQuiet, JournalFacts
     DEF C!Refuse, C!IInv, C!TypeOK
<1>3. ASSUME NEW q \in C!Requests, C!BeginRefused(q) PROVE C!IInv'
  BY WireBounds, <1>3, WireQuiet DEF C!BeginRefused, C!IInv, C!TypeOK
<1>4. ASSUME NEW q \in C!Requests, C!Command(q) PROVE C!IInv'
  BY WireBounds, <1>4, WireQuiet, JournalFacts, RememberFacts, RequestFacts
     DEF C!Command, C!IInv, C!TypeOK
<1>5. ASSUME NEW q \in C!Requests, C!Finish(q) PROVE C!IInv'
  <2>1. /\ C!Remember(q) /\ wireHandled' = C!Journalled(C!Key(q))
        /\ UNCHANGED <<wireOpen, wireContract, wireInput, C!history>>
    BY <1>5 DEF C!Finish
  <2>2. \/ wireRunning' = NoAttempt /\ wireDone' = wireDone \cup {q.att}
        \/ UNCHANGED <<wireRunning, wireDone>>
    BY <1>5 DEF C!Finish
  <2>3. q.att \in Attempts /\ wireHandled \subseteq wireHandled' /\ wireHandled' \subseteq C!Keys
    BY <2>1, RequestFacts, JournalFacts DEF C!IInv
  <2>4. C!TypeOK'
    BY WireBounds, <2>1, <2>2, <2>3, RememberFacts DEF C!IInv, C!TypeOK
  <2> QED
    BY <2>1, <2>2, <2>3, <2>4, WireQuiet DEF C!IInv
<1> QED
  BY <1>1, <1>2, <1>3, <1>4, <1>5

\* A Begin that is accepted opens a contract no input was let through under.
LEMMA BeginAcceptedStep ==
  ASSUME C!IInv, NEW s \in 1 .. MaxSequence, wireLast' = s,
         NEW q \in C!Requests, C!BeginAccepted(q)
  PROVE  C!IInv'
<1>1. /\ wireRunning' = q.att /\ wireContract' = q.att /\ wireInput' = 0
      /\ wireAccepts' = wireAccepts + 1
      /\ wireAccepts < MaxAccepts /\ wireHandled' = wireHandled \cup {C!Key(q)}
      /\ UNCHANGED <<wireOpen, wireDone, wireInputs>>
  BY DEF C!BeginAccepted, C!AcceptBegin
<1>2. q.att \in Attempts /\ q.payload \in C!Payloads /\ C!Key(q) \in C!Keys
  BY RequestFacts
<1>3. /\ DOMAIN wireDigests' \subseteq C!Keys
      /\ \A k \in DOMAIN wireDigests' : wireDigests'[k] \in C!Payloads
  BY <1>2 DEF C!BeginAccepted, C!AcceptBegin, C!IInv, C!TypeOK
<1>4. C!TypeOK'
  BY WireBounds, <1>1, <1>2, <1>3 DEF C!IInv, C!TypeOK
<1>5. \A i \in DOMAIN wireInputs :
        wireInputs[i].accept <= wireAccepts /\ wireInputs[i].accept \in Nat
  BY InputTypes DEF C!IInv, C!Spent
<1>6. C!Accepted'
  BY <1>1 DEF C!IInv, C!TypeOK, C!Accepted
<1>6a. wireAccepts \in Nat
  BY DEF C!IInv, C!TypeOK
<1>7. C!Spent'
  <2>1. \A i \in DOMAIN wireInputs :
          /\ <<wireInputs[i].att, wireInputs[i].id>> \in wireHandled'
          /\ wireInputs[i].accept <= wireAccepts' /\ wireInputs[i].accept # wireAccepts'
    <3> TAKE i \in DOMAIN wireInputs
    <3>1. <<wireInputs[i].att, wireInputs[i].id>> \in wireHandled
      BY DEF C!IInv, C!Spent
    <3>2. wireInputs[i].accept <= wireAccepts /\ wireInputs[i].accept \in Nat
      BY <1>5
    <3>3. wireInputs[i].accept <= wireAccepts + 1 /\ wireInputs[i].accept # wireAccepts + 1
      BY <3>2, <1>6a
    <3> QED
      BY <1>1, <3>1, <3>3
  <2>2. wireInputs' = wireInputs
    BY <1>1
  <2> QED
    BY <2>1, <2>2, Zenon DEF C!Spent
<1>8. C!InputsInOrder' /\ C!ContractIsRunning'
  BY <1>1 DEF C!IInv, C!InputsInOrder, C!ContractIsRunning
<1> QED
  BY <1>4, <1>6, <1>7, <1>8 DEF C!IInv

\* An input that is translated is of the contract held, and its sequence is higher.
LEMMA TranslatedFacts ==
  ASSUME C!IInv, NEW q \in C!Requests, q.payload.kind \in {"frame", "point"},
         C!Translates(q)
  PROVE  q.att = wireContract /\ wireContract # NoAttempt /\ q.payload.input > wireInput
<1>0. q.att \in Attempts
  BY RequestFacts
<1>1. CASE q.payload.kind = "frame"
  <2>1. C!TranslatesFrame(q)
    BY <1>1 DEF C!Translates, C!TranslatesKind, C!TranslatesFrame, C!TranslatesPoint,
       C!TranslatesDevice,
              C!NeedsNoContract, C!Needs
  <2>2. CASE q.payload.uses = {}
    BY <2>1, <2>2 DEF C!TranslatesFrame, C!Bound
  <2>3. CASE q.payload.uses # {}
    BY <2>1, <2>3 DEF C!TranslatesFrame, C!Capable
  <2> QED
    BY <2>1, <2>2, <2>3 DEF C!TranslatesFrame
<1>2. CASE q.payload.kind = "point"
  <2>1. C!TranslatesPoint(q)
    BY <1>2 DEF C!Translates, C!TranslatesKind, C!TranslatesFrame, C!TranslatesPoint,
       C!TranslatesDevice,
              C!NeedsNoContract, C!Needs
  <2> QED
    BY WireBounds, <1>0, <2>1 DEF C!TranslatesPoint, C!Capable
<1> QED
  BY <1>1, <1>2

\* The inputs before one that is let through: another command, and under the same contract
\* a lower sequence.
LEMMA InputStep ==
  ASSUME C!IInv, NEW s \in 1 .. MaxSequence, wireLast' = s,
         NEW q \in C!Requests, C!Input(q)
  PROVE  C!IInv'
<1> DEFINE new == [att |-> q.att, id |-> q.id, input |-> q.payload.input, accept |-> wireAccepts]
<1>1. /\ C!Remember(q) /\ wireInput' = q.payload.input /\ q.payload.kind \in {"frame", "point"}
      /\ UNCHANGED <<wireOpen, wireContract, wireRunning, wireDone, wireAccepts>>
      /\ C!Translates(q)
  BY DEF C!Input, C!Spends
<1>2. q.att = wireContract /\ wireContract # NoAttempt /\ wireInput' > wireInput
  BY <1>1, TranslatedFacts
<1>3. q.att \in Attempts /\ q.id \in AllIds /\ wireInput' \in 1 .. MaxInput /\ C!Key(q) \in C!Keys
  BY <1>1, RequestFacts, PayloadFacts
<1>4. \/ /\ C!New(q) /\ wireHandled' = C!Journalled(C!Key(q))
         /\ wireInputs' = Append(wireInputs, new)
      \/ UNCHANGED <<wireHandled, wireInputs>>
  BY DEF C!Input
<1>5. wireHandled \subseteq wireHandled' /\ wireHandled' \subseteq C!Keys
  BY <1>3, <1>4, JournalFacts DEF C!IInv, C!TypeOK
<1>10. wireAccepts \in 1 .. MaxAccepts
  BY WireBounds, <1>2 DEF C!IInv, C!TypeOK, C!Accepted
<1>6. /\ wireInputs \in Seq(InputRecords) /\ wireAccepts \in 1 .. MaxAccepts
      /\ wireInput \in Nat /\ wireInput' \in Nat
      /\ \A i \in DOMAIN wireInputs :
            /\ wireInputs[i] \in InputRecords
            /\ wireInputs[i].accept \in Nat /\ wireInputs[i].input \in Nat
  BY WireBounds, <1>3, <1>10, InputTypes DEF C!IInv
<1>7. CASE UNCHANGED <<wireHandled, wireInputs>>
  <2>1. C!TypeOK'
    BY WireBounds, <1>1, <1>3, <1>7, RememberFacts DEF C!IInv, C!TypeOK
  <2>2. C!Spent'
    <3>1. ASSUME NEW i \in DOMAIN wireInputs, wireInputs[i].accept = wireAccepts
          PROVE  wireInputs[i].att = wireContract /\ wireInputs[i].input <= wireInput'
      <4>1. wireInputs[i].att = wireContract /\ wireInputs[i].input <= wireInput
        BY <1>2, <3>1 DEF C!IInv, C!Spent
      <4> QED
        BY <1>2, <1>6, <4>1
    <3> QED
      BY <1>1, <1>7, <3>1 DEF C!IInv, C!Spent
  <2> QED
    BY <1>1, <1>7, <2>1, <2>2 DEF C!IInv, C!Accepted, C!InputsInOrder, C!ContractIsRunning
<1>8. CASE /\ C!New(q) /\ wireHandled' = C!Journalled(C!Key(q))
           /\ wireInputs' = Append(wireInputs, new)
  <2>1. new \in InputRecords
    BY <1>1, <1>3, <1>6 DEF InputRecords
  <2>2. /\ wireInputs' \in Seq(InputRecords) /\ Len(wireInputs') = Len(wireInputs) + 1
        /\ \A i \in 1 .. Len(wireInputs) : wireInputs'[i] = wireInputs[i]
        /\ wireInputs'[Len(wireInputs) + 1] = new
    BY <1>6, <1>8, <2>1
  <2>3. /\ DOMAIN wireInputs = 1 .. Len(wireInputs)
        /\ DOMAIN wireInputs' = 1 .. Len(wireInputs) + 1 /\ Len(wireInputs) \in Nat
    BY <1>6, <2>2
  <2>4. \A i \in DOMAIN wireInputs' : i \in DOMAIN wireInputs \/ i = Len(wireInputs) + 1
    BY <2>3
  <2>5. C!Key(q) \notin wireHandled /\ C!Key(q) \in wireHandled'
    BY <1>8 DEF C!New, C!Journalled, C!Key
  <2>6. C!TypeOK'
    <3>1. C!TypeOK /\ C!Remember(q)
      BY <1>1 DEF C!IInv
    <3>2. /\ DOMAIN wireDigests' \subseteq C!Keys
          /\ \A k \in DOMAIN wireDigests' : wireDigests'[k] \in C!Payloads
      BY <3>1, RememberFacts
    <3>3. wireLast' \in 0 .. MaxSequence /\ wireInput' \in 0 .. MaxInput
      BY WireBounds, <1>3
    <3> QED
      BY <1>1, <1>5, <2>2, <3>1, <3>2, <3>3 DEF C!TypeOK, InputRecords, AllIds
  <2>7. ASSUME NEW i \in DOMAIN wireInputs
        PROVE  /\ <<wireInputs[i].att, wireInputs[i].id>> \in wireHandled
               /\ wireInputs[i].accept <= wireAccepts
               /\ wireInputs[i].accept = wireAccepts =>
                    wireInputs[i].att = q.att /\ wireInputs[i].input < wireInput'
    <3>1. /\ <<wireInputs[i].att, wireInputs[i].id>> \in wireHandled
          /\ wireInputs[i].accept <= wireAccepts
          /\ wireInputs[i].accept = wireAccepts =>
               wireInputs[i].att = wireContract /\ wireInputs[i].input <= wireInput
      BY <1>2 DEF C!IInv, C!Spent
    <3> QED
      BY <1>2, <1>6, <3>1
  <2>8. new.att = q.att /\ new.id = q.id /\ new.input = wireInput' /\ new.accept = wireAccepts
    BY <1>1
  <2> HIDE DEF new
  <2>9. C!Spent'
    <3>1. ASSUME NEW i \in DOMAIN wireInputs'
          PROVE  /\ <<wireInputs'[i].att, wireInputs'[i].id>> \in wireHandled'
                 /\ wireInputs'[i].accept <= wireAccepts
                 /\ wireInputs'[i].accept = wireAccepts =>
                      wireInputs'[i].att = wireContract /\ wireInputs'[i].input <= wireInput'
      <4>1. CASE i \in DOMAIN wireInputs
        BY <1>2, <1>5, <1>6, <2>2, <2>3, <2>7, <4>1
      <4>2. CASE i = Len(wireInputs) + 1
        <5>1. wireInputs'[i] = new
          BY <2>2, <4>2
        <5>2. <<new.att, new.id>> \in wireHandled'
          BY <2>5, <2>8 DEF C!Key
        <5>3. new.accept <= wireAccepts /\ new.att = wireContract /\ new.input <= wireInput'
          BY <1>2, <1>6, <2>8
        <5> QED
          BY <5>1, <5>2, <5>3
      <4> QED
        BY <2>4, <4>1, <4>2
    <3> QED
      BY <1>1, <3>1 DEF C!Spent
  <2>10. C!InputsInOrder'
    <3>1. ASSUME NEW i \in DOMAIN wireInputs', NEW j \in DOMAIN wireInputs', i < j
          PROVE  /\ <<wireInputs'[i].att, wireInputs'[i].id>> #
                      <<wireInputs'[j].att, wireInputs'[j].id>>
                 /\ wireInputs'[i].accept = wireInputs'[j].accept =>
                      /\ wireInputs'[i].att = wireInputs'[j].att
                      /\ wireInputs'[i].input < wireInputs'[j].input
      <4>1. i \in DOMAIN wireInputs
        BY <2>3, <3>1
      <4>2. CASE j \in DOMAIN wireInputs
        BY <2>2, <2>3, <3>1, <4>1, <4>2 DEF C!IInv, C!InputsInOrder
      <4>3. CASE j = Len(wireInputs) + 1
        BY <2>2, <2>3, <2>5, <2>7, <2>8, <4>1, <4>3 DEF C!Key
      <4> QED
        BY <2>4, <4>2, <4>3
    <3> QED
      BY <3>1 DEF C!InputsInOrder
  <2> QED
    BY <1>1, <2>6, <2>9, <2>10 DEF C!IInv, C!Accepted, C!ContractIsRunning
<1> QED
  BY <1>4, <1>7, <1>8

\* Every step of a session keeps the invariant.
LEMMA TranslatorStep == C!IInv /\ C!Next => C!IInv'
<1> SUFFICES ASSUME C!IInv, C!Next PROVE C!IInv'
  OBVIOUS
<1>1. CASE C!Connect \/ C!Disconnect
  BY <1>1, StreamStep
<1>2. CASE C!TaskCommand
  BY <1>2, WireOtherStep, BeginAcceptedStep, InputStep DEF C!TaskCommand, C!Receive, C!Task
<1>3. CASE C!RefusedCommand
  BY <1>3, WireOtherStep DEF C!RefusedCommand, C!Receive
<1>4. CASE C!OtherCommand
  BY <1>4, WireOtherStep DEF C!OtherCommand, C!Receive
<1>5. CASE C!OldCommand
  BY <1>5, StreamStep DEF C!OldCommand, C!Replayed
<1> QED
  BY <1>1, <1>2, <1>3, <1>4, <1>5 DEF C!Next

LEMMA TranslatorStutter == C!IInv /\ UNCHANGED wireVars => C!IInv'
BY DEF wireVars, C!IInv, C!TypeOK, C!Accepted, C!Spent, C!InputsInOrder, C!ContractIsRunning

------------------------------------------------------------------------------
(***************************************************************************)
(* HubSession: the pointer names a complete generation                     *)
(***************************************************************************)

\* The type invariant, variable by variable.
LEMMA HubTypes ==
  H!TypeOK <=> /\ hubPointer \in 0 .. MaxEnrolments /\ hubConfig \in 0 .. MaxEnrolments
      /\ hubSession \in 0 .. MaxEnrolments
               /\ hubUsed \in 0 .. MaxEnrolments /\ hubWhole \in SUBSET (1 .. MaxEnrolments)
               /\ hubRegistration \in {"idle", "claiming", "validated", "published", "activated"}
               /\ hubPhase \in H!Phases /\ hubFrame \in {"off", "attaching", "on", "lost"}
               /\ hubWasWaiting \in BOOLEAN /\ hubWanted \in BOOLEAN
               /\ hubLive \in BOOLEAN /\ hubTaken \in SUBSET (1 .. MaxEnrolments)
  BY DEF H!TypeOK, H!Generations

LEMMA HubTypesNext ==
  H!TypeOK' <=> /\ hubPointer' \in 0 .. MaxEnrolments /\ hubConfig' \in 0 .. MaxEnrolments
      /\ hubSession' \in 0 .. MaxEnrolments
                /\ hubUsed' \in 0 .. MaxEnrolments /\ hubWhole' \in SUBSET (1 .. MaxEnrolments)
                /\ hubRegistration' \in {"idle", "claiming", "validated", "published",
                       "activated"}
                /\ hubPhase' \in H!Phases /\ hubFrame' \in {"off", "attaching", "on", "lost"}
                /\ hubWasWaiting' \in BOOLEAN /\ hubWanted' \in BOOLEAN
                /\ hubLive' \in BOOLEAN /\ hubTaken' \in SUBSET (1 .. MaxEnrolments)
  BY DEF H!TypeOK, H!Generations

LEMMA HubInit == H!Init => H!IInv
<1> SUFFICES ASSUME H!Init PROVE H!IInv
  OBVIOUS
<1>1. H!TypeOK
  <2>1. /\ hubWasWaiting \in BOOLEAN /\ hubWanted \in BOOLEAN
        /\ hubLive \in BOOLEAN
    BY ONLY H!Init, Zenon DEF H!Init
  <2> QED
    BY <2>1, HubTypes, MCAgentAssumption DEF MCAgentAssumption, H!Init, H!Phases
<1>2. H!RegistrationInv /\ H!CandidateInv /\ H!PointerNamesWhole
  BY DEF H!Init, H!RegistrationInv, H!CandidateInv, H!PointerNamesWhole
<1> QED
  BY <1>1, <1>2 DEF H!IInv

LEMMA HubStep == H!IInv /\ H!Next => H!IInv'
<1> SUFFICES ASSUME H!IInv, H!Next PROVE H!IInv'
  OBVIOUS
<1> USE HubTypes, HubTypesNext, MCAgentAssumption DEF MCAgentAssumption, H!IInv,
    H!RegistrationInv, H!CandidateInv, H!PointerNamesWhole,
             H!Phases, H!Overtakes, H!Tidied, H!Readable, H!disk, H!supervisor, H!worker,
                 H!Ends, H!Polled
<1>1. CASE H!RegisterHub
  BY <1>1 DEF H!RegisterHub
<1>2. CASE H!RegistrationFails
  BY <1>2 DEF H!RegistrationFails
<1>3. CASE H!WriteCandidate
  BY <1>3 DEF H!WriteCandidate
<1>4. CASE H!ReplacePointer
  BY <1>4 DEF H!ReplacePointer
<1>5. CASE H!Activate
  BY <1>5 DEF H!Activate
<1>6. CASE H!RequestReconnect
  BY <1>6 DEF H!RequestReconnect
<1>7. CASE H!Connect
  BY <1>7 DEF H!Connect
<1>8. CASE H!Establish
  BY <1>8 DEF H!Establish
<1>9. CASE H!TaskBegins
  BY <1>9 DEF H!TaskBegins
<1>10. CASE H!ReconnectWanted
  <2>1. hubWanted' \in BOOLEAN
    BY ONLY <1>10, Zenon DEF H!ReconnectWanted
  <2> QED
    BY <1>10, <2>1 DEF H!ReconnectWanted
<1>11. CASE H!EnrollmentWatch
  BY <1>11 DEF H!EnrollmentWatch
<1>12. CASE H!ControlLost
  BY <1>12 DEF H!ControlLost
<1>13. CASE H!FrameLost
  BY <1>13 DEF H!FrameLost
<1>14. CASE H!FrameAttaches
  BY <1>14 DEF H!FrameAttaches
<1>15. CASE H!CleanUp
  BY <1>15 DEF H!CleanUp, H!Joined, H!ClearTargetSession
<1>16. CASE H!JoinTimesOut
  <2>1. hubWhole' = hubWhole \/ hubWhole' = hubWhole \cap {hubPointer}
    BY <1>16 DEF H!JoinTimesOut, H!ClearTargetSession
  <2>2. hubConfig' = hubConfig \/ (hubConfig' = hubPointer /\ hubPointer \in hubWhole)
    BY <1>16 DEF H!JoinTimesOut, H!ClearTargetSession
  <2>3. hubTaken' \in SUBSET (1 .. MaxEnrolments)
    BY <1>16 DEF H!JoinTimesOut
  <2>4. H!TypeOK' /\ H!RegistrationInv'
    BY <1>16, <2>1, <2>2, <2>3 DEF H!JoinTimesOut, H!Joined, H!ClearTargetSession
  <2>5. H!CandidateInv' /\ H!PointerNamesWhole'
    BY <1>16, <2>1, <2>2 DEF H!JoinTimesOut, H!Joined
  <2> QED
    BY <2>4, <2>5
<1>17. CASE H!Crash
  BY <1>17 DEF H!Crash
<1>18. CASE H!Start
  <2> hubWanted' \in BOOLEAN /\ hubLive' \in BOOLEAN
    BY ONLY <1>18, Zenon DEF H!Start
  <2>1. H!TypeOK'
    BY <1>18 DEF H!Start
  <2>2. H!RegistrationInv' /\ H!CandidateInv'
    BY <1>18 DEF H!Start
  <2>3. H!PointerNamesWhole'
    BY <1>18 DEF H!Start
  <2> QED
    BY <2>1, <2>2, <2>3
<1>19. CASE H!SecondAgent
  <2>1. H!TypeOK'
    BY <1>19 DEF H!SecondAgent
  <2>2. H!RegistrationInv' /\ H!CandidateInv'
    BY <1>19 DEF H!SecondAgent
  <2>3. H!PointerNamesWhole'
    BY <1>19 DEF H!SecondAgent
  <2> QED
    BY <2>1, <2>2, <2>3
<1> QED
  BY <1>1, <1>2, <1>3, <1>4, <1>5, <1>6, <1>7, <1>8, <1>9, <1>10, <1>11, <1>12, <1>13, <1>14,
     <1>15, <1>16, <1>17, <1>18, <1>19 DEF H!Next

------------------------------------------------------------------------------
(***************************************************************************)
(* ManagedProcess: what the Agent launches is held, what it closes is gone *)
(***************************************************************************)

ProcessRecords == [life : {"none", "up", "gone"}, launched : BOOLEAN, window : 0 .. MaxWindows]

\* Ending processes changes their life and nothing else.
LEMMA EndedFacts ==
  ASSUME G!TypeOK, NEW S
  PROVE  /\ G!Ended(S) \in [Processes -> ProcessRecords]
         /\ \A x \in Processes : /\ G!Ended(S)[x].launched = gameProcs[x].launched
                                 /\ x \in S => G!Ended(S)[x].life = "gone"
                                 /\ x \notin S => G!Ended(S)[x] = gameProcs[x]
  BY DEF G!TypeOK, G!Ended, ProcessRecords

LEMMA ProcessInit == G!Init => G!IInv
<1> SUFFICES ASSUME G!Init PROVE G!IInv
  OBVIOUS
<1>1. gameUsed \in BOOLEAN /\ FALSE \in BOOLEAN
  BY ONLY G!Init, Zenon DEF G!Init
<1>2. G!TypeOK
  BY <1>1, MCAgentAssumption DEF G!Init, G!TypeOK, G!Idle, MCAgentAssumption
<1>3. G!StepInv
  BY DEF G!Init, G!StepInv, G!Idle
<1>4. gameManaged = Nobody /\ gameClosed = Nobody /\ (\A x \in Processes : ~gameProcs[x].launched)
  BY DEF G!Init
<1>5. G!LifeInv
  BY <1>4 DEF G!LifeInv
<1>6. G!LaunchedIsHeld
  BY <1>4, Zenon DEF G!LaunchedIsHeld
<1> QED
  BY <1>2, <1>3, <1>5, <1>6 DEF G!IInv

LEMMA ProcessStep == G!IInv /\ G!Next => G!IInv'
<1> SUFFICES ASSUME G!IInv, G!Next PROVE G!IInv'
  OBVIOUS
<1> USE MCAgentAssumption DEF MCAgentAssumption, G!IInv, G!TypeOK, G!StepInv, G!LifeInv,
    G!LaunchedIsHeld, G!Idle, G!Down,
        G!Up, ProcessRecords
<1>1. ASSUME NEW x \in Processes, G!UserStarts(x) PROVE G!IInv'
  <2>1. /\ gameProcs' \in [Processes -> ProcessRecords]
        /\ \A y \in Processes \ {x} : gameProcs'[y] = gameProcs[y]
        /\ gameProcs'[x].life = "up" /\ gameProcs'[x].launched = gameProcs[x].launched
    BY <1>1 DEF G!UserStarts
  <2> QED
    BY <1>1, <2>1 DEF G!UserStarts
<1>2. ASSUME NEW x \in Processes, G!ShowsWindow(x) PROVE G!IInv'
  BY <1>2, EndedFacts DEF G!ShowsWindow
<1>3. ASSUME NEW x \in Processes, G!Exits(x) PROVE G!IInv'
  BY <1>3, EndedFacts DEF G!Exits
<1>4. ASSUME NEW x \in Processes, G!LockTarget(x) PROVE G!IInv'
  <2>1. gameUsed' \in BOOLEAN
    BY ONLY <1>4, Zenon DEF G!LockTarget
  <2> QED
    BY <1>4, <2>1 DEF G!LockTarget
<1>5. ASSUME NEW profile \in G!GameProfiles, G!StartTaskTarget(profile) PROVE G!IInv'
  <2> DEFINE record == G!Remaining(profile)
  <2>1. /\ record \in {gameManaged, Nobody}
        /\ record = gameManaged \/ ~G!Up(gameManaged.process)
    BY DEF G!Remaining
  <2>2. gameManaged' = record /\ gameDoing = G!Idle
        /\ UNCHANGED <<gameBinding, gameUsed, gameClosed, gameEscaped>>
    BY <1>5 DEF G!StartTaskTarget
  <2>3. CASE record # Nobody /\ gameDoing' = [kind |-> "known", process |-> record.process]
             /\ UNCHANGED gameProcs
    BY <2>1, <2>2, <2>3
  <2>4. ASSUME NEW y \in Processes, record = Nobody,
               gameDoing' = [kind |-> "adopt", process |-> y], UNCHANGED gameProcs
        PROVE  G!IInv'
    BY <2>1, <2>2, <2>4
  <2>5. ASSUME NEW y \in Processes, record = Nobody, gameProcs[y].life = "none", G!Spawned(y),
               gameDoing' = [kind |-> "spawned", process |-> y]
        PROVE  G!IInv'
    <3>1. /\ gameProcs' \in [Processes -> ProcessRecords]
          /\ \A z \in Processes \ {y} : gameProcs'[z] = gameProcs[z]
          /\ gameProcs'[y].life = "up"
      BY <2>5 DEF G!Spawned
    <3> QED
      BY <2>1, <2>2, <2>5, <3>1
  <2>6. CASE UNCHANGED <<gameProcs, gameDoing>>
    BY <2>1, <2>2, <2>6
  <2> QED
    BY <1>5, <2>3, <2>4, <2>5, <2>6 DEF G!StartTaskTarget, G!Existing
<1>6. CASE G!AssignToJob
  BY <1>6, EndedFacts DEF G!AssignToJob, G!JobOf, G!Closed, G!Owns, G!Found
<1>7. CASE G!AssignFails
  BY <1>7, EndedFacts DEF G!AssignFails, G!JobOf, G!Closed, G!Owns, G!Found
<1>8. CASE G!WindowReady
  <2> DEFINE x == gameDoing.process
             record == [process |-> x, window |-> gameProcs[x].window, owned |-> G!Owns]
  <2>1. gameUsed' \in BOOLEAN /\ G!Owns \in BOOLEAN
    <3>1. gameUsed' \in BOOLEAN
      BY ONLY <1>8, Zenon DEF G!WindowReady
    <3>2. G!Owns \in BOOLEAN
      BY <1>8 DEF G!WindowReady, G!Owns
    <3> QED
      BY <3>1, <3>2
  <2>2. /\ x \in Processes /\ gameProcs[x].life = "up" /\ gameProcs[x].window \in 1 .. MaxWindows
        /\ gameManaged' = record /\ UNCHANGED <<gameProcs, gameClosed, gameEscaped>>
        /\ gameDoing' = G!Idle
        /\ gameBinding' \in {gameBinding, [process |-> x, window |-> gameProcs[x].window]}
    BY <1>8 DEF G!WindowReady
  <2>3. record \in [process : Processes, window : 1 .. MaxWindows, owned : BOOLEAN]
        /\ record # Nobody
    BY <2>1, <2>2
  <2>4. G!TypeOK'
    BY <2>1, <2>2, <2>3
  <2>5. G!StepInv' /\ G!LifeInv'
    BY <2>2, <2>3
  <2>6. G!LaunchedIsHeld'
    <3> SUFFICES ASSUME NEW y \in Processes, gameProcs[y].life = "up", gameProcs[y].launched,
                        y \notin gameEscaped
                 PROVE  y = x /\ G!Owns
      BY <2>2, <2>3
    <3> QED
      BY <1>8 DEF G!WindowReady, G!Owns
  <2> QED
    BY <2>4, <2>5, <2>6
<1>9. CASE G!WindowFails
  BY <1>9, EndedFacts DEF G!WindowFails, G!JobOf, G!Closed, G!Owns, G!Found
<1>10. CASE G!Rediscover
  BY <1>10, EndedFacts DEF G!Rediscover, G!JobOf, G!Closed, G!Owns, G!Found
<1>11. CASE G!CloseNothing
  BY <1>11, EndedFacts DEF G!CloseNothing, G!JobOf, G!Closed, G!Owns, G!Found
<1>12. CASE G!CloseAsks
  BY <1>12, EndedFacts DEF G!CloseAsks, G!JobOf, G!Closed, G!Owns, G!Found
<1>13. CASE G!CloseGraceful
  BY <1>13, EndedFacts DEF G!CloseGraceful, G!JobOf, G!Closed, G!Owns, G!Found
<1>14. CASE G!CloseForced
  <2> DEFINE x == gameDoing.process
  <2>1. /\ x \in Processes /\ gameManaged.process = x /\ gameProcs' = G!Ended({x})
        /\ gameManaged' = Nobody /\ gameClosed' = x /\ gameDoing' = G!Idle
        /\ gameBinding' \in {Nobody, gameBinding} /\ UNCHANGED <<gameUsed, gameEscaped>>
        /\ gameDoing.kind = "asked"
    BY <1>14 DEF G!CloseForced, G!Closed
  <2>2. /\ gameProcs' \in [Processes -> ProcessRecords]
        /\ gameProcs'[x].life = "gone" /\ gameProcs'[x].launched = gameProcs[x].launched
        /\ \A y \in Processes \ {x} : gameProcs'[y] = gameProcs[y]
    BY <2>1, EndedFacts
  <2> QED
    BY <2>1, <2>2
<1>15. CASE G!CloseFails
  BY <1>15, EndedFacts DEF G!CloseFails, G!JobOf, G!Closed, G!Owns, G!Found
<1>16. CASE G!AgentStops
  BY <1>16, EndedFacts DEF G!AgentStops, G!JobOf, G!Closed, G!Owns, G!Found
<1>17. CASE G!AgentDies
  BY <1>17, EndedFacts DEF G!AgentDies, G!JobOf, G!Closed, G!Owns, G!Found
<1>18. CASE G!AgentStarts
  BY <1>18, EndedFacts DEF G!AgentStarts, G!JobOf, G!Closed, G!Owns, G!Found
<1> QED
  BY <1>1, <1>2, <1>3, <1>4, <1>5, <1>6, <1>7, <1>8, <1>9, <1>10, <1>11, <1>12, <1>13, <1>14,
     <1>15, <1>16, <1>17, <1>18 DEF G!Next

------------------------------------------------------------------------------
(***************************************************************************)
(* ManagedGame: a close is accounted for                                   *)
(***************************************************************************)

PolicyRecords ==
  [game : Games, session : Nat, version : Nat \ {0}, enabled : BOOLEAN, occupied : BOOLEAN]

\* A policy keeps its identity when the task that occupies its game is gone.
LEMMA PolicyFacts ==
  ASSUME NEW p \in Stored
  PROVE  /\ p \in PolicyRecords /\ p # Nothing /\ Identity(p) \in Identities
         /\ Freed(p) \in Stored /\ Identity(Freed(p)) = Identity(p)
<1>1. \A q \in Policies : /\ q \in PolicyRecords /\ q # Nothing
                          /\ Freed(q) = [q EXCEPT !.occupied = FALSE]
  BY ManagedGameAssumption DEF ManagedGameAssumption, PolicyRecords, Freed, Stored
<1>2. PICK q \in Policies : p = q \/ p = Freed(q)
  BY DEF Stored
<1>3. Freed(q) \in PolicyRecords /\ Identity(Freed(q)) = Identity(q)
  BY <1>1, FALSE \in BOOLEAN DEF PolicyRecords, Identity
<1>4. p # Nothing
  BY ManagedGameAssumption DEF ManagedGameAssumption
<1>5. Identity(p) = Identity(q) /\ Identity(q) \in Identities
  BY <1>2, <1>3 DEF Identities, Identity
<1>6. Freed(p) = Freed(q)
  BY <1>1, <1>2, <1>3, <1>4 DEF Freed, PolicyRecords
<1> QED
  BY <1>1, <1>2, <1>3, <1>4, <1>5, <1>6 DEF Stored

\* closing_state: a policy is activated behind the gate that names it.
LEMMA ActivatedFacts ==
  ASSUME NEW s \in States, NEW p \in Stored
  PROVE  /\ Activated(s, p) \in Actives /\ Activated(s, p) # Nothing
         /\ Activated(s, p).policy = p
         /\ Activated(s, p).closing <=> Gated(s, Identity(p))
<1>1. s # Nothing /\ Nothing \notin Actives
  BY ManagedGameAssumption DEF ManagedGameAssumption
<1>2. (s.closing # Nothing /\ s.closing.id = Identity(p) /\ s.closing.failed) \in BOOLEAN
  BY DEF States, Receipts
<1>3. Activated(s, p) \in Actives
  BY <1>2 DEF Activated, Actives, States, Receipts
<1> QED
  BY <1>1, <1>3 DEF Activated, Gated

LEMMA GameInit == Init => IInv
<1> SUFFICES ASSUME Init PROVE IInv
  OBVIOUS
<1>1. report \in BOOLEAN /\ link \in [up : BOOLEAN, acks : SUBSET Receipts]
  BY ONLY Init, Zenon DEF Init, NoLink
<1>2. NewState \in States
  BY DEF NewState, States
<1>3. TypeOK
  BY <1>1, <1>2, ManagedGameAssumption DEF Init, TypeOK, ManagedGameAssumption
<1>4. NamedInv /\ GateInv
  BY DEF Init, NamedInv, GateInv
<1> QED
  BY <1>3, <1>4 DEF IInv

\* What leaves gate and receipt alone keeps their names, whatever becomes of its write.
LEMMA SameNames ==
  ASSUME IInv, state' \in States, state'.closing = state.closing,
         state'.receipt = state.receipt, disk' \in {disk, state, state'},
         UNCHANGED <<closed, failed>>
  PROVE  /\ NamedInv'
         /\ disk' \in States \cup {Nothing}
         /\ \A id : Gated(state', id) <=> Gated(state, id)
         /\ \A id : Gated(state, id) /\ Gated(disk, id) => Gated(disk', id)
<1>1. state # Nothing /\ state' # Nothing
  BY ManagedGameAssumption DEF ManagedGameAssumption, IInv, TypeOK
<1> USE DEF Gated, Receipted
<1>2. NamedInv'
  BY <1>1 DEF IInv, NamedInv
<1>3. disk' \in States \cup {Nothing}
  BY DEF IInv, TypeOK
<1> QED
  BY <1>1, <1>2, <1>3

\* And while the active policy keeps its identity and its closing flag.
LEMMA SameGate ==
  ASSUME IInv, state' \in States, state'.closing = state.closing,
         state'.receipt = state.receipt, disk' \in {disk, state, state'},
         UNCHANGED <<closed, failed, busy>>,
         \/ UNCHANGED active
         \/ /\ active # Nothing /\ active' # Nothing /\ active'.closing = active.closing
            /\ Identity(active'.policy) = Identity(active.policy)
         \/ /\ busy = "no"
            /\ active' # Nothing => (active'.closing <=> Gated(state', Identity(active'.policy)))
  PROVE  NamedInv' /\ GateInv' /\ disk' \in States \cup {Nothing}
  BY SameNames DEF IInv, GateInv

\* What TypeOK says, read off once.
LEMMA GameTypes ==
  ASSUME IInv
  PROVE  /\ target \in Profiles \cup {Nothing} /\ state \in States
         /\ disk \in States \cup {Nothing}
         /\ bound \in {Profile[x] : x \in Games} \cup {Nothing}
         /\ active \in Actives \cup {Nothing} /\ report \in BOOLEAN
         /\ busy \in {"no", "idle", "manual"} /\ link \in [up : BOOLEAN, acks : SUBSET Receipts]
         /\ closed \in Identities \cup {Nothing} /\ failed \in Identities \cup {Nothing}
         /\ drops \in 0 .. MaxDrops
         /\ state # Nothing
         /\ active # Nothing => active.policy \in Stored
  BY ManagedGameAssumption DEF ManagedGameAssumption, IInv, TypeOK, Actives

\* Configuring stores a policy and activates it if its game is bound.
LEMMA ConfigureStep ==
  ASSUME IInv, NEW p \in Policies, Configure(p) PROVE IInv'
<1>1. p \in Stored /\ p.game \in Games
  BY ManagedGameAssumption DEF ManagedGameAssumption, Stored
<1>2. /\ state' \in States /\ state'.closing = state.closing /\ state'.receipt = state.receipt
      /\ disk' \in {disk, state, state'}
  BY <1>1, GameTypes DEF Configure, Persisted, NotPersisted, States
<1>3. \/ UNCHANGED active
      \/ active' \in {Activated(state', p), Nothing}
  <2>1. CASE Current(p)
    BY <2>1 DEF Configure
  <2>2. CASE ~Current(p)
    BY <2>2 DEF Configure, ActiveFor
  <2> QED
    BY <2>1, <2>2
<1>4. /\ active' \in Actives \cup {Nothing}
      /\ active' # Nothing => \/ UNCHANGED active
                              \/ active'.closing <=> Gated(state', Identity(active'.policy))
  BY <1>1, <1>2, <1>3, ActivatedFacts, GameTypes
<1>5. UNCHANGED <<target, bound, report, busy, link, closed, failed, drops>> /\ busy = "no"
  BY DEF Configure
<1>6. NamedInv' /\ GateInv' /\ disk' \in States \cup {Nothing}
  BY <1>2, <1>4, <1>5, SameGate
<1> QED
  BY <1>2, <1>4, <1>5, <1>6, GameTypes DEF IInv, TypeOK

\* A write that may be left out.
LEMMA TouchFacts == ASSUME NEW a, Touch(a) PROVE disk' \in {disk, state}
  BY DEF Touch

\* A launch binds the profile of its game, and activates the one policy that has it.
LEMMA LaunchStep ==
  ASSUME IInv, NEW x \in Games, LaunchTarget(x) PROVE IInv'
<1>1. Profile[x] \in Profiles
  BY ManagedGameAssumption DEF ManagedGameAssumption
<1>2. BoundTo(Profile[x]) # Nothing =>
        \E p \in Stored : BoundTo(Profile[x]) = Activated(state, p)
  <2> DEFINE matching == {y \in Games : state.policies[y] # Nothing /\ Profile[y] = Profile[x]}
             y == CHOOSE y \in matching : TRUE
  <2>1. CASE Cardinality(matching) = 1 /\ matching # {}
    <3>1. y \in matching
      BY <2>1
    <3>2. state.policies[y] \in Stored
      BY <3>1, GameTypes DEF States
    <3>3. BoundTo(Profile[x]) = Activated(state, state.policies[y])
      BY <2>1 DEF BoundTo
    <3> QED
      BY <3>2, <3>3
  <2>2. CASE Cardinality(matching) # 1
    BY <2>2 DEF BoundTo
  <2>3. CASE matching = {}
    BY <2>3, FS_EmptySet DEF BoundTo
  <2> QED
    BY <2>1, <2>2, <2>3
<1>3. /\ active' = BoundTo(Profile[x]) /\ disk' \in {disk, state} /\ busy = "no"
      /\ target' = Profile[x] /\ bound' = Profile[x]
      /\ UNCHANGED <<state, report, busy, link, closed, failed, drops>>
  BY TouchFacts DEF LaunchTarget
<1>4. /\ active' \in Actives \cup {Nothing}
      /\ active' # Nothing => (active'.closing <=> Gated(state', Identity(active'.policy)))
  BY <1>2, <1>3, ActivatedFacts, GameTypes
<1>5. NamedInv' /\ GateInv' /\ disk' \in States \cup {Nothing}
  BY <1>3, <1>4, SameGate, GameTypes
<1> QED
  BY <1>1, <1>3, <1>4, <1>5, GameTypes DEF IInv, TypeOK

\* What moves the target, the clock or the report alone.
LEMMA QuietStep ==
  ASSUME IInv, \/ \E p \in Profiles : LaunchLocally(p)
               \/ StopSession \/ CloseUnmanaged \/ Connect \/ ReportClose
  PROVE  IInv'
<1>1. UNCHANGED <<state, disk, active, busy, closed, failed, drops, bound>>
  BY DEF LaunchLocally, StopSession, CloseUnmanaged, Connect, ReportClose, TargetGone
<1>2. NamedInv' /\ GateInv'
  BY <1>1, SameGate, GameTypes
<1>3. target' \in Profiles \cup {Nothing}
  BY GameTypes DEF LaunchLocally, StopSession, CloseUnmanaged, Connect, ReportClose, TargetGone
<1>4. report' \in BOOLEAN /\ link' \in [up : BOOLEAN, acks : SUBSET Receipts]
  <2>1. CASE Connect
    <3>1. report' \in BOOLEAN
      BY <2>1 DEF Connect
    <3>2. link' = [up |-> TRUE, acks |-> {}]
      BY <2>1 DEF Connect, NoLink
    <3> QED
      BY <3>1, <3>2, TRUE \in BOOLEAN
  <2>2. CASE ReportClose
    <3>1. report' \in BOOLEAN
      BY ONLY <2>2, Zenon DEF ReportClose
    <3>2. state.receipt \in Receipts
      BY <2>2, GameTypes DEF ReportClose, States
    <3> QED
      BY <2>2, <3>1, <3>2, GameTypes DEF ReportClose
  <2> QED
    BY <2>1, <2>2, GameTypes DEF LaunchLocally, StopSession, CloseUnmanaged
<1> QED
  BY <1>1, <1>2, <1>3, <1>4, GameTypes DEF IInv, TypeOK

\* Activity and the clock keep the policy and its closing flag.
LEMMA ActivityStep ==
  ASSUME IInv, \/ LocalInput \/ (\E kind \in Refreshing : CommandApplied(kind)) \/ IdleTimePasses
  PROVE  IInv'
<1>1. /\ active # Nothing
      /\ \E b \in BOOLEAN : active' = [active EXCEPT !.idle = b]
      /\ disk' \in {disk, state}
      /\ UNCHANGED <<state, target, bound, report, busy, link, closed, failed, drops>>
  <2>1. CASE Activity
    BY <2>1, TouchFacts, FALSE \in BOOLEAN DEF Activity
  <2>2. CASE IdleTimePasses
    BY <2>2, TRUE \in BOOLEAN DEF IdleTimePasses
  <2> QED
    BY <2>1, <2>2 DEF LocalInput, CommandApplied
<1>2. /\ active' \in Actives /\ active'.policy = active.policy /\ active'.closing = active.closing
  BY <1>1, GameTypes DEF Actives
<1>3. active' # Nothing
  BY <1>2, ManagedGameAssumption DEF ManagedGameAssumption
<1>4. NamedInv' /\ GateInv' /\ disk' \in States \cup {Nothing}
  BY <1>1, <1>2, <1>3, SameGate, GameTypes
<1> QED
  BY <1>1, <1>2, <1>4, GameTypes DEF IInv, TypeOK

\* What a close writes down.
LEMMA ReceiptFacts ==
  ASSUME NEW id \in Identities, NEW b \in BOOLEAN
  PROVE  /\ [id |-> id, failed |-> b] \in Receipts
         /\ [id |-> id, failed |-> b] # Nothing
         /\ [id |-> id, failed |-> b].id = id
  BY ManagedGameAssumption DEF ManagedGameAssumption, Receipts

\* The gate of a state.
LEMMA GateRecords ==
  ASSUME NEW s \in States, NEW r \in Receipts
  PROVE  /\ [s EXCEPT !.closing = r] \in States
         /\ [s EXCEPT !.closing = r].closing = r
         /\ [s EXCEPT !.closing = r].receipt = s.receipt
  BY DEF States

\* A close that begins has the gate, in memory and, once it is under way, on disk.
LEMMA BeginStep ==
  ASSUME IInv, NEW who \in {"idle", "manual"}, active # Nothing, busy = "no",
         who = "idle" => ~active.closing, BeginClose(who)
  PROVE  IInv'
<1> DEFINE id == Identity(active.policy)
           r == [id |-> id, failed |-> FALSE]
<1>1. active \in Actives /\ active.policy \in Stored /\ id \in Identities
  BY GameTypes, PolicyFacts
<1>2. /\ state' = [state EXCEPT !.closing = r]
      /\ disk' = state' \/ (busy' = "no" /\ disk' = disk)
      /\ busy' \in {"no", who}
      /\ closed' = IF Displaced(closed) THEN Nothing ELSE closed
      /\ failed' = IF Displaced(failed) THEN Nothing ELSE failed
      /\ UNCHANGED <<target, bound, report, link, drops>>
  BY DEF BeginClose, Persisted, NotPersisted
<1>3. /\ state' \in States /\ r # Nothing /\ state'.closing = r /\ state'.receipt = state.receipt
      /\ state' # Nothing
  <2>1. r \in Receipts /\ r # Nothing
    BY <1>1, ReceiptFacts, FALSE \in BOOLEAN
  <2> HIDE DEF r
  <2>2. state' \in States /\ state'.closing = r /\ state'.receipt = state.receipt
    BY <1>2, <2>1, GateRecords, GameTypes
  <2> QED
    BY <2>1, <2>2, ManagedGameAssumption DEF ManagedGameAssumption
<1>4. /\ active' \in Actives /\ active' # Nothing /\ active'.policy = active.policy
      /\ active'.closing
  BY <1>1, FALSE \in BOOLEAN, TRUE \in BOOLEAN, ManagedGameAssumption
     DEF ManagedGameAssumption, BeginClose, Actives
<1> HIDE DEF id, r
<1>5. id = Identity(active.policy) /\ r.id = id
  BY DEF id, r
<1>6. NamedInv'
  BY <1>2, <1>3, <1>5, GameTypes DEF IInv, NamedInv, Gated, Receipted, Displaced
<1>7. Gated(state', id)
  BY <1>3, <1>5 DEF Gated
<1>8. busy' = "idle" => id # failed'
  <2>1. Nothing # id
    BY <1>1, ManagedGameAssumption DEF ManagedGameAssumption
  <2>2. SUFFICES ASSUME busy' = "idle", id = failed' PROVE FALSE
    OBVIOUS
  <2>3. failed = id /\ failed # Nothing
    BY <1>2, <2>1, <2>2
  <2>4. Gated(state, id)
    BY <2>3 DEF IInv, NamedInv
  <2>5. active.closing
    BY <1>5, <2>4 DEF IInv, GateInv
  <2> QED
    BY <1>2, <2>2, <2>5
<1>9. GateInv'
  BY <1>2, <1>4, <1>5, <1>7, <1>8 DEF GateInv
<1>10. TypeOK'
  BY <1>2, <1>3, <1>4, GameTypes DEF TypeOK
<1> QED
  BY <1>6, <1>9, <1>10 DEF IInv

\* What is known while a close is under way.
LEMMA BusyFacts ==
  ASSUME IInv, busy # "no"
  PROVE  /\ active # Nothing /\ active \in Actives /\ active.policy \in Stored
         /\ Identity(active.policy) \in Identities /\ active.policy.game \in Games
         /\ Gated(state, Identity(active.policy)) /\ Gated(disk, Identity(active.policy))
         /\ disk \in States
<1>1. /\ active # Nothing /\ Gated(state, Identity(active.policy))
      /\ Gated(disk, Identity(active.policy))
  BY DEF IInv, GateInv
<1>2. disk \in States
  BY <1>1, GameTypes DEF Gated
<1> QED
  BY <1>1, <1>2, GameTypes, PolicyFacts DEF PolicyRecords

\* The close has succeeded: its receipt takes the place of the gate.
LEMMA SuccessStep ==
  ASSUME IInv, CloseSucceeds PROVE IInv'
<1> DEFINE id == Identity(active.policy)
           r == [id |-> id, failed |-> FALSE]
           rest == [state EXCEPT !.policies[active.policy.game] = Nothing, !.closing = Nothing]
<1>1. busy # "no" /\ id \in Identities /\ Gated(state, id) /\ Gated(disk, id) /\ disk \in States
  BY BusyFacts DEF CloseSucceeds
<1>2. /\ r \in Receipts /\ r # Nothing /\ r.id = id /\ ~r.failed
  BY <1>1, FALSE \in BOOLEAN, ReceiptFacts
<1>3. rest \in States /\ rest.closing = Nothing /\ rest.receipt = state.receipt
  BY GameTypes, BusyFacts, <1>1 DEF States
<1>4. [rest EXCEPT !.receipt = r] \in States /\ [rest EXCEPT !.receipt = r].receipt = r
  BY <1>2, <1>3 DEF States
<1>5. /\ state' = IF busy = "idle" THEN [rest EXCEPT !.receipt = r] ELSE rest
      /\ disk' \in {state', disk}
      /\ report' = (report \/ busy = "idle")
      /\ closed' = IF busy = "idle" THEN id ELSE IF closed = id THEN Nothing ELSE closed
      /\ failed' = Nothing /\ target' = Nothing /\ active' = Nothing /\ bound' = Nothing
      /\ busy' = "no" /\ UNCHANGED <<link, drops>>
  BY DEF CloseSucceeds, Persisted, NotPersisted, TargetGone
<1> HIDE DEF id, r, rest
<1>6. state' \in States /\ state' # Nothing /\ disk # Nothing
  BY <1>1, <1>3, <1>4, <1>5, ManagedGameAssumption DEF ManagedGameAssumption
<1>7. NamedInv'
  <2>1. CASE busy = "idle"
    BY <1>1, <1>2, <1>4, <1>5, <1>6, <2>1 DEF NamedInv, Gated, Receipted
  <2>2. CASE busy # "idle"
    BY <1>1, <1>3, <1>5, <1>6, <2>2 DEF IInv, NamedInv, Gated, Receipted
  <2> QED
    BY <2>1, <2>2
<1>8. GateInv'
  BY <1>5 DEF GateInv
<1>9. report' \in BOOLEAN /\ closed' \in Identities \cup {Nothing}
  BY <1>1, <1>5, GameTypes
<1>10. TypeOK'
  BY <1>1, <1>5, <1>6, <1>9, GameTypes DEF TypeOK
<1> QED
  BY <1>7, <1>8, <1>10 DEF IInv

\* The close has failed: the gate stays, and says so.
LEMMA FailureStep ==
  ASSUME IInv, CloseFails PROVE IInv'
<1> DEFINE id == Identity(active.policy)
           r == [id |-> id, failed |-> TRUE]
           rest == [state EXCEPT !.closing = r]
<1>1. busy # "no" /\ id \in Identities /\ Gated(state, id) /\ Gated(disk, id) /\ disk \in States
  BY BusyFacts DEF CloseFails
<1>2. /\ r \in Receipts /\ r # Nothing /\ r.id = id
      /\ rest \in States /\ rest.closing = r /\ rest.receipt = state.receipt
  <2>1. r \in Receipts /\ r # Nothing /\ r.id = id
    BY <1>1, TRUE \in BOOLEAN, ReceiptFacts
  <2> HIDE DEF r
  <2> QED
    BY <2>1, GateRecords, GameTypes
<1>3. /\ [state EXCEPT !.closing = r, !.receipt = r] \in States
      /\ [state EXCEPT !.closing = r, !.receipt = r].closing = r
      /\ [state EXCEPT !.closing = r, !.receipt = r].receipt = r
  BY <1>2, GameTypes DEF States
<1>4. /\ state' = IF busy = "idle" THEN [state EXCEPT !.closing = r, !.receipt = r] ELSE rest
      /\ report' = (report \/ busy = "idle")
      /\ closed' = IF busy = "idle" THEN Nothing ELSE closed
      /\ failed' = id /\ busy' = "no" /\ UNCHANGED <<target, bound, link, drops>>
  BY DEF CloseFails
<1>11. disk' = state' \/ disk' = disk
  BY DEF CloseFails, Persisted, NotPersisted
<1>5. /\ active' \in Actives /\ active' # Nothing /\ active'.policy = active.policy
      /\ active'.closing
  BY <1>1, BusyFacts, TRUE \in BOOLEAN, ManagedGameAssumption
     DEF CloseFails, ManagedGameAssumption, Actives
<1> HIDE DEF id, r, rest
<1>6. /\ state' \in States /\ state' # Nothing /\ disk # Nothing /\ state'.closing = r
      /\ busy # "idle" => state'.receipt = state.receipt
  BY <1>1, <1>2, <1>3, <1>4, ManagedGameAssumption DEF ManagedGameAssumption
<1>7. NamedInv'
  <2>1. Gated(state', id) /\ Gated(disk', id)
    BY <1>1, <1>2, <1>6, <1>11 DEF Gated
  <2>2. CASE busy = "idle"
    BY <1>4, <2>1, <2>2 DEF NamedInv
  <2>3. CASE busy # "idle"
    <3>1. ASSUME NEW s \in {state, disk}, closed # Nothing
          PROVE  closed = id \/ Receipted(s, closed)
      BY <1>1, <3>1 DEF IInv, NamedInv, Gated
    <3>2. ASSUME closed # Nothing PROVE closed = id \/ Receipted(state', closed)
      BY <1>6, <2>3, <3>1, <3>2 DEF Receipted
    <3>3. ASSUME closed # Nothing PROVE closed = id \/ Receipted(disk', closed)
      BY <1>11, <3>1, <3>2, <3>3
    <3> QED
      BY <1>4, <2>1, <2>3, <3>2, <3>3 DEF NamedInv
  <2> QED
    BY <2>2, <2>3
<1>8. GateInv'
  BY <1>4, <1>5 DEF GateInv
<1>9. report' \in BOOLEAN /\ closed' \in Identities \cup {Nothing}
  BY <1>4, GameTypes
<1>10. TypeOK'
  BY <1>1, <1>4, <1>5, <1>6, <1>9, <1>11, GameTypes DEF TypeOK
<1> QED
  BY <1>7, <1>8, <1>10 DEF IInv

\* release_task_occupancy frees policies and changes no identity.
LEMMA SessionEndsFacts ==
  ASSUME IInv, SessionEnds
  PROVE  /\ state' \in States /\ state'.closing = state.closing /\ state'.receipt = state.receipt
         /\ disk' \in {disk, state, state'}
         /\ link' \in [up : BOOLEAN, acks : SUBSET Receipts]
         /\ active' \in Actives \cup {Nothing}
         /\ \/ UNCHANGED active
            \/ /\ active # Nothing /\ active' # Nothing /\ active'.closing = active.closing
               /\ Identity(active'.policy) = Identity(active.policy)
<1> DEFINE freed == [state EXCEPT !.policies = [x \in Games |-> Freed(state.policies[x])]]
<1>1. freed \in States /\ freed.closing = state.closing /\ freed.receipt = state.receipt
  <2>1. \A x \in Games : Freed(state.policies[x]) \in Stored \cup {Nothing}
    <3> SUFFICES ASSUME NEW x \in Games PROVE Freed(state.policies[x]) \in Stored \cup {Nothing}
      OBVIOUS
    <3>1. state.policies[x] \in Stored \cup {Nothing}
      BY GameTypes DEF States
    <3> QED
      BY <3>1, PolicyFacts DEF Freed
  <2> QED
    BY <2>1, GameTypes DEF States
<1>2. link' \in [up : BOOLEAN, acks : SUBSET Receipts]
  BY FALSE \in BOOLEAN DEF SessionEnds, NoLink
<1>3. CASE UNCHANGED <<state, active>> /\ disk' = disk
  BY <1>2, <1>3, GameTypes
<1>4. CASE /\ state' = freed /\ disk' = state'
           /\ active' = IF active = Nothing THEN Nothing
                        ELSE [active EXCEPT !.policy = Freed(active.policy)]
  <2>1. CASE active = Nothing
    BY <1>1, <1>2, <1>4, <2>1
  <2>2. CASE active # Nothing
    <3>1. active \in Actives /\ active.policy \in Stored
      BY <2>2, GameTypes
    <3>2. /\ Freed(active.policy) \in Stored
          /\ Identity(Freed(active.policy)) = Identity(active.policy)
      BY <3>1, PolicyFacts
    <3>3. /\ active' \in Actives /\ active'.closing = active.closing
          /\ active'.policy = Freed(active.policy)
      BY <1>4, <2>2, <3>1, <3>2 DEF Actives
    <3>4. active' # Nothing
      BY <3>3, ManagedGameAssumption DEF ManagedGameAssumption
    <3> QED
      BY <1>1, <1>2, <1>4, <2>2, <3>2, <3>3, <3>4
  <2> QED
    BY <2>1, <2>2
<1> QED
  BY <1>3, <1>4 DEF SessionEnds, Persisted, NotPersisted

LEMMA DisconnectStep == ASSUME IInv, Disconnect PROVE IInv'
<1>1. /\ SessionEnds /\ busy = "no" /\ drops' \in 0 .. MaxDrops
      /\ UNCHANGED <<target, bound, report, busy, closed, failed>>
  BY GameTypes, ManagedGameAssumption DEF Disconnect, ManagedGameAssumption
<1>2. NamedInv' /\ GateInv' /\ disk' \in States \cup {Nothing}
  BY <1>1, SessionEndsFacts, SameGate
<1> QED
  BY <1>1, <1>2, SessionEndsFacts, GameTypes DEF IInv, TypeOK

\* The acknowledgement of the receipt that waits ends it, and with it what was to be told.
LEMMA AcknowledgeStep == ASSUME IInv, NEW r \in link.acks, Acknowledge(r) PROVE IInv'
<1>1. /\ busy = "no" /\ r \in Receipts /\ r # Nothing
      /\ UNCHANGED <<target, bound, busy, failed, drops>>
  BY GameTypes, ManagedGameAssumption DEF Acknowledge, ManagedGameAssumption
<1>2. CASE r # state.receipt
  <2>1. SessionEnds /\ UNCHANGED <<report, closed>>
    BY <1>2 DEF Acknowledge
  <2>2. NamedInv' /\ GateInv' /\ disk' \in States \cup {Nothing}
    BY <1>1, <2>1, SessionEndsFacts, SameGate
  <2> QED
    BY <1>1, <2>1, <2>2, SessionEndsFacts, GameTypes DEF IInv, TypeOK
<1>3. CASE r = state.receipt
  <2>1. /\ state' = [state EXCEPT !.receipt = Nothing] /\ report' = FALSE
        /\ closed' = IF closed = r.id /\ ~r.failed THEN Nothing ELSE closed
        /\ disk' \in {state', disk} /\ active' = active
        /\ link' \in {NoLink, [link EXCEPT !.acks = @ \ {r}]}
    BY <1>3 DEF Acknowledge, Persisted
  <2>2. /\ state' \in States /\ state'.receipt = Nothing /\ state'.closing = state.closing
        /\ state' # Nothing
    BY <2>1, GameTypes, ManagedGameAssumption DEF ManagedGameAssumption, States
  <2>3. \A id : Gated(state', id) <=> Gated(state, id)
    BY <2>2, GameTypes DEF Gated
  <2>4. closed' # Nothing => closed' = closed /\ Gated(state, closed)
    BY <1>3, <2>1, GameTypes DEF IInv, NamedInv, Receipted
  <2>5. NamedInv'
    <3>1. /\ closed' # Nothing => Gated(state', closed')
          /\ failed' # Nothing => Gated(state', failed')
      BY <1>1, <2>3, <2>4 DEF IInv, NamedInv
    <3>2. /\ closed' # Nothing => Gated(disk, closed') \/ Receipted(disk, closed')
          /\ failed' # Nothing => Gated(disk, failed')
      BY <1>1, <2>4 DEF IInv, NamedInv
    <3> QED
      BY <2>1, <3>1, <3>2 DEF NamedInv
  <2>6. GateInv'
    BY <1>1, <2>1, <2>3 DEF IInv, GateInv
  <2>7. link' \in [up : BOOLEAN, acks : SUBSET Receipts]
    <3>1. NoLink \in [up : BOOLEAN, acks : SUBSET Receipts]
      BY FALSE \in BOOLEAN DEF NoLink
    <3>2. [link EXCEPT !.acks = @ \ {r}] \in [up : BOOLEAN, acks : SUBSET Receipts]
      BY GameTypes
    <3> QED
      BY <2>1, <3>1, <3>2
  <2>8. report' \in BOOLEAN /\ closed' \in Identities \cup {Nothing}
    BY <2>1, FALSE \in BOOLEAN, GameTypes
  <2> QED
    BY <1>1, <2>1, <2>2, <2>5, <2>6, <2>7, <2>8, GameTypes DEF IInv, TypeOK
<1> QED
  BY <1>2, <1>3

\* A new process goes on from the file.
LEMMA CrashStep == ASSUME IInv, Crash PROVE IInv'
<1>1. /\ state' = IF disk = Nothing THEN NewState ELSE disk
      /\ report' = (state'.receipt # Nothing)
      /\ target' = Nothing /\ bound' = Nothing /\ active' = Nothing /\ busy' = "no"
      /\ link' = NoLink /\ UNCHANGED <<disk, failed>> /\ drops' = drops + 1 /\ drops < MaxDrops
      /\ closed' \in IF busy = "idle" THEN {closed, Identity(active.policy)} ELSE {closed}
  BY DEF Crash
<1>2. NewState \in States
  BY DEF NewState, States
<1>3. state' \in States /\ state' # Nothing
  BY <1>1, <1>2, GameTypes, ManagedGameAssumption DEF ManagedGameAssumption
<1>4. /\ closed' # Nothing => Gated(disk, closed') \/ Receipted(disk, closed')
      /\ failed # Nothing => Gated(disk, failed)
  <2>1. CASE closed' = closed
    BY <2>1 DEF IInv, NamedInv
  <2>2. CASE busy = "idle" /\ closed' = Identity(active.policy)
    BY <2>2, BusyFacts DEF IInv, NamedInv
  <2> QED
    BY <1>1, <2>1, <2>2
<1>5. closed' \in Identities \cup {Nothing}
  BY <1>1, BusyFacts, GameTypes
<1>6. NamedInv'
  <2>1. CASE disk = Nothing
    BY <1>1, <1>4, <2>1 DEF NamedInv, Gated, Receipted
  <2>2. CASE disk # Nothing
    BY <1>1, <1>4, <2>2 DEF NamedInv
  <2> QED
    BY <2>1, <2>2
<1>7. GateInv'
  BY <1>1 DEF GateInv
<1>8. report' \in BOOLEAN /\ link' \in [up : BOOLEAN, acks : SUBSET Receipts]
  BY <1>1, FALSE \in BOOLEAN DEF NoLink
<1>9. drops' \in 0 .. MaxDrops
  BY <1>1, GameTypes, ManagedGameAssumption DEF ManagedGameAssumption
<1> QED
  BY <1>1, <1>3, <1>5, <1>6, <1>7, <1>8, <1>9, GameTypes DEF IInv, TypeOK

LEMMA GameStep == ASSUME IInv, Next PROVE IInv'
<1>1. CASE IdleClose
  BY <1>1, BeginStep DEF IdleClose, Due
<1>2. CASE \E id \in Identities : CloseTarget(id)
  BY <1>2, BeginStep DEF CloseTarget
<1>3. CASE CloseLocally
  BY <1>3, BeginStep DEF CloseLocally
<1> QED
  BY <1>1, <1>2, <1>3, ConfigureStep, LaunchStep, QuietStep, ActivityStep, SuccessStep,
     FailureStep, DisconnectStep, AcknowledgeStep, CrashStep DEF Next

\* What is closed for idleness is named, and what has failed is not closed again.
LEMMA GameAccounted == IInv => CloseAccounted
  BY GameTypes DEF IInv, NamedInv, GateInv, Gated, Receipted, CloseAccounted

------------------------------------------------------------------------------
(***************************************************************************)
(* Telemetry: the queue is bounded, and detail lies within its lease       *)
(***************************************************************************)
LEMMA QueueBound == Capacity \in Nat
<1>1. {Capacity} \subseteq Nat
  BY MCAgentAssumption DEF MCAgentAssumption
<1> QED
  BY <1>1

\* The instance counts as the prover's theorems do.
LEMMA QueueCount ==
  ASSUME NEW S
  PROVE  L!Cardinality(S) = Cardinality(S) /\ L!IsFiniteSet(S) = IsFiniteSet(S)
  BY DEF L!Cardinality, Cardinality, L!IsFiniteSet, IsFiniteSet

\* Records that fit into the queue.
Queued(records) ==
  /\ records \subseteq L!Records
  /\ IsFiniteSet(records) /\ Cardinality(records) <= Capacity

\* A buffer of the given process, where the leases of over have lapsed or are long, and
\* those of live may have detail written under them.
Buffered(b, process, over, live) ==
  /\ b \in L!Buffers /\ Queued(b.records)
  /\ \A r \in b.records : r.id[1] <= process /\ (r.id[1] = process => r.id[2] <= b.sequence)
  /\ \A l \in Leases :
       /\ b.receipts[l].generation <= process
       /\ b.receipts[l].generation = process => b.receipts[l].boundary <= b.sequence + 1
  /\ \A l \in live : b.receipts[l].disposition \in {"applied", "rejected"}
  /\ \A l \in Leases \ over :
       /\ ~b.receipts[l].old
       /\ b.receipts[l].disposition = "none" =>
            \A r \in b.records : ~(r.lease = l /\ r.id[1] = process)
  /\ L!Within(b)

\* The same of a file.
Filed(file, process, over) ==
  /\ file \in L!Files /\ Queued(file.records)
  /\ \A r \in file.records : r.id[1] <= process
  /\ \A l \in Leases : file.receipts[l].generation <= process
  /\ \A l \in Leases \ over : ~file.receipts[l].old
  /\ L!Within(file)

\* The leases whose receipts may be forgotten, and the others that are live.
Over == logLapsed \cup LongLeases

Short == (logActive \ logLapsed) \ LongLeases

\* What the channel has besides.
Linked ==
  /\ logRooted \in BOOLEAN /\ logGeneration \in Nat
  /\ logActive \subseteq Leases /\ logLapsed \subseteq Leases
  /\ logLink \in {"down", "up"}
  /\ logLink = "down" => logActive = {} /\ logWire = <<>> /\ logLog = L!IdleLog
  /\ Len(logWire) <= 1

LEMMA QueueInvariant ==
  L!IInv <=> /\ Linked
             /\ Buffered(logBuffer, logGeneration, Over, Short)
             /\ Filed(logSaved, logGeneration, Over)
<1>1. \A b \in {logBuffer, logSaved} : L!IsFiniteSet(b.records) = IsFiniteSet(b.records)
                                       /\ L!Cardinality(b.records) = Cardinality(b.records)
  BY QueueCount
<1>2. L!TypeOK /\ logGeneration \in Nat <=>
          /\ Linked /\ logBuffer \in L!Buffers /\ logSaved \in L!Files
          /\ Queued(logBuffer.records) /\ Queued(logSaved.records)
  BY <1>1 DEF L!TypeOK, Linked, Queued, L!Buffers, L!Files
<1> QED
  BY <1>2 DEF L!IInv, L!NumberedInv, L!SavedInv, L!LeaseInv, L!DetailWithinLease, L!Live,
      Buffered, Filed, Over, Short

------------------------------------------------------------------------------
LEMMA WithoutOne ==
  ASSUME NEW S, IsFiniteSet(S), NEW x \in S
  PROVE  IsFiniteSet(S \ {x}) /\ Cardinality(S \ {x}) = Cardinality(S) - 1
  BY FS_RemoveElement

\* Some natural numbers have a least one.
LEMMA LeastOf ==
  ASSUME NEW S \in SUBSET Nat, S # {}
  PROVE  \E n \in S : \A m \in S : n <= m
<1>1. PICK n \in S : \A m \in S : <<m, n>> \notin OpToRel(<, Nat)
  BY WFMin, NatLessThanWellFounded, Zenon
<1>2. \A m \in S : ~(m < n)
  BY <1>1, Zenon DEF OpToRel
<1> QED
  BY <1>2

\* The first of some records is one of them.
LEMMA FirstExists ==
  ASSUME NEW records \in SUBSET L!Records, records # {}
  PROVE  L!First(records) \in records
<1> DEFINE processes == {r.id[1] : r \in records}
<1>1. processes \in SUBSET Nat /\ processes # {}
  BY DEF L!Records
<1>2. PICK process \in processes : \A other \in processes : process <= other
  BY <1>1, LeastOf
<1> DEFINE sequences == {r.id[2] : r \in {x \in records : x.id[1] = process}}
<1>3. sequences \in SUBSET Nat /\ sequences # {}
  BY <1>2 DEF L!Records
<1>4. PICK sequence \in sequences : \A other \in sequences : sequence <= other
  BY <1>3, LeastOf
<1>5. PICK r \in records : r.id[1] = process /\ r.id[2] = sequence
  BY <1>4
<1>6. ASSUME NEW s \in records
      PROVE  ~L!Before(s, r)
  <2>1. process \in Nat /\ sequence \in Nat /\ s.id[1] \in Nat /\ s.id[2] \in Nat
    BY <1>1, <1>3, <1>6 DEF L!Records
  <2>2. process <= s.id[1] /\ (s.id[1] = process => sequence <= s.id[2])
    BY <1>2, <1>4
  <2> QED
    BY <1>5, <2>1, <2>2 DEF L!Before
<1> QED
  BY <1>5, <1>6 DEF L!First

LEMMA FewerQueued ==
  ASSUME NEW records, Queued(records), NEW fewer \in SUBSET records
  PROVE  Queued(fewer)
  BY QueueBound, FS_Subset, FS_CardinalityType DEF Queued

\* Records that are changed one by one stay as few.
LEMMA ChangedQueued ==
  ASSUME NEW records, Queued(records), NEW f \in [records -> L!Records]
  PROVE  Queued({f[r] : r \in records})
<1> DEFINE changed == {f[r] : r \in records}
<1>1. f \in Surjection(records, changed)
  BY DEF Surjection
<1>2. IsFiniteSet(changed) /\ Cardinality(changed) <= Cardinality(records)
  BY <1>1, FS_Surjection DEF Queued
<1>3. Cardinality(changed) \in Nat /\ Cardinality(records) \in Nat
  BY <1>2, FS_CardinalityType DEF Queued
<1> QED
  BY <1>2, <1>3, QueueBound DEF Queued

\* A new record goes to the queue, or takes the place of another.
LEMMA EnqueueFacts ==
  ASSUME NEW b \in L!Buffers, Queued(b.records), NEW r \in L!Records
  PROVE  /\ L!Enqueue(b, r) \in L!Buffers
         /\ Queued(L!Enqueue(b, r).records)
         /\ L!Enqueue(b, r).records \subseteq b.records \cup {r}
         /\ L!Enqueue(b, r).receipts = b.receipts
         /\ L!Enqueue(b, r).sequence = b.sequence
         /\ L!Enqueue(b, r).uncounted >= b.uncounted
<1> DEFINE queued  == b.records \cup {r}
           claimed == IF r.lease = NoLease THEN b.claims ELSE b.claims \cup {L!ClaimOf(r)}
           minor   == {x \in queued : x.lease # NoLease \/ x.severity # "warn"}
           evicted == L!First(IF minor = {} THEN queued ELSE minor)
<1>1. queued \subseteq L!Records /\ r.lease \in Leases \cup {NoLease}
  BY DEF Queued, L!Records
<1>2. claimed \subseteq L!Claims
  BY <1>1 DEF L!Buffers, L!ClaimOf, L!Claims, L!Records
<1>3. /\ IsFiniteSet(queued) /\ Cardinality(queued) \in Nat
      /\ Cardinality(queued) <= Capacity + 1 /\ Cardinality(queued) = L!Cardinality(queued)
  BY FS_AddElement, FS_CardinalityType, QueueBound, QueueCount DEF Queued
<1>4. evicted \in queued
  <2>1. CASE minor = {}
    BY <2>1, <1>1, FirstExists
  <2>2. CASE minor # {}
    <3>1. minor \in SUBSET L!Records
      BY <1>1
    <3>2. L!First(minor) \in minor
      BY <2>2, <3>1, FirstExists
    <3> QED
      BY <2>2, <3>2
  <2> QED
    BY <2>1, <2>2
<1>5. CASE Cardinality(queued) <= Capacity
  <2>1. L!Enqueue(b, r) = [b EXCEPT !.records = queued, !.claims = claimed]
    BY <1>3, <1>5 DEF L!Enqueue
  <2>2. Queued(queued)
    BY <1>1, <1>3, <1>5 DEF Queued
  <2> HIDE DEF queued, claimed
  <2>3. b.uncounted \in Nat
    BY DEF L!Buffers
  <2>4. L!Enqueue(b, r) \in L!Buffers
    BY <2>1, <1>1, <1>2 DEF L!Buffers
  <2>5. L!Enqueue(b, r).records = queued
    BY <2>1 DEF L!Buffers
  <2> QED
    BY <2>1, <2>2, <2>3, <2>4, <2>5 DEF L!Buffers, queued
<1>6. CASE ~(Cardinality(queued) <= Capacity)
  <2>1. L!Enqueue(b, r) = [b EXCEPT !.records = queued \ {evicted},
                                    !.claims = L!RemoveClaim(claimed, evicted),
                                    !.uncounted = b.uncounted + 1]
    BY <1>3, <1>6 DEF L!Enqueue
  <2>2. L!RemoveClaim(claimed, evicted) \subseteq L!Claims
    BY <1>2 DEF L!RemoveClaim
  <2> DEFINE rest == queued \ {evicted}
             claims == L!RemoveClaim(claimed, evicted)
  <2>3. IsFiniteSet(rest) /\ Cardinality(rest) = Cardinality(queued) - 1
    <3> HIDE DEF queued, evicted
    <3> QED
      BY <1>3, <1>4, WithoutOne
  <2>4. rest \subseteq L!Records
    BY <1>1
  <2>5. rest \subseteq b.records \cup {r}
    OBVIOUS
  <2> HIDE DEF rest, claims
  <2>6. Queued(rest)
    BY <1>3, <2>3, <2>4, QueueBound DEF Queued
  <2>7. L!Enqueue(b, r) = [b EXCEPT !.records = rest, !.claims = claims,
                                    !.uncounted = b.uncounted + 1]
    BY <2>1 DEF rest, claims
  <2>8. b.uncounted \in Nat /\ b.uncounted + 1 \in Nat
    BY DEF L!Buffers
  <2>9. L!Enqueue(b, r) \in L!Buffers
    <3>1. claims \subseteq L!Claims
      BY <2>2 DEF claims
    <3> QED
      BY <2>4, <2>7, <2>8, <3>1 DEF L!Buffers
  <2>10. L!Enqueue(b, r).records = rest
    BY <2>7 DEF L!Buffers
  <2> QED
    BY <2>5, <2>6, <2>7, <2>8, <2>9, <2>10 DEF L!Buffers
<1> QED
  BY <1>5, <1>6

------------------------------------------------------------------------------
\* A buffer with less in it, or of a longer wait, is kept as well.
LEMMA BufferedFrom ==
  ASSUME NEW b, NEW p \in Nat, NEW over, NEW live, Buffered(b, p, over, live),
         live \subseteq Leases \ over,
         NEW c \in L!Buffers, Queued(c.records), c.sequence = b.sequence,
         \A r \in c.records : \E s \in b.records : s.id = r.id /\ s.lease = r.lease,
         \A l \in Leases :
           \/ /\ c.receipts[l].disposition = b.receipts[l].disposition
              /\ c.receipts[l].boundary = b.receipts[l].boundary
              /\ c.receipts[l].generation = b.receipts[l].generation
           \/ l \in over /\ c.receipts[l] = L!NoReceipt,
         \A l \in Leases \ over : ~c.receipts[l].old
  PROVE  Buffered(c, p, over, live)
<1>1. \A r \in c.records : r.id[1] <= p /\ (r.id[1] = p => r.id[2] <= c.sequence)
  BY DEF Buffered
<1>2. \A l \in Leases :
        /\ c.receipts[l].generation <= p
        /\ c.receipts[l].generation = p => c.receipts[l].boundary <= c.sequence + 1
  <2> TAKE l \in Leases
  <2>1. CASE c.receipts[l] = L!NoReceipt
    BY <2>1 DEF L!NoReceipt, L!Buffers
  <2>2. CASE c.receipts[l] # L!NoReceipt
    BY <2>2 DEF Buffered
  <2> QED
    BY <2>1, <2>2
<1>3. \A l \in live : c.receipts[l].disposition \in {"applied", "rejected"}
  BY DEF Buffered
<1>4. \A l \in Leases \ over :
        c.receipts[l].disposition = "none" =>
          \A r \in c.records : ~(r.lease = l /\ r.id[1] = p)
  BY DEF Buffered
<1>5. ASSUME NEW r \in c.records, r.lease \notin LongLeases \cup {NoLease}
      PROVE  c.receipts[r.lease].generation = r.id[1] =>
               /\ c.receipts[r.lease].disposition = "applied" =>
                    r.id[2] >= c.receipts[r.lease].boundary
               /\ c.receipts[r.lease].disposition \in {"revoked", "expired"} =>
                    r.id[2] < c.receipts[r.lease].boundary
  <2>1. r.lease \in Leases
    BY <1>5 DEF Queued, L!Records
  <2>2. PICK s \in b.records : s.id = r.id /\ s.lease = r.lease
    OBVIOUS
  <2>3. CASE c.receipts[r.lease] = L!NoReceipt
    BY <2>3 DEF L!NoReceipt
  <2>4. CASE c.receipts[r.lease] # L!NoReceipt
    BY <1>5, <2>1, <2>2, <2>4 DEF Buffered, L!Within
  <2> QED
    BY <2>3, <2>4
<1>6. L!Within(c)
  BY <1>5 DEF L!Within
<1> QED
  BY <1>1, <1>2, <1>3, <1>4, <1>6 DEF Buffered

\* Fewer live leases and more lapsed ones ask for less.
LEMMA BufferedLess ==
  ASSUME NEW b, NEW p, NEW over, NEW live, Buffered(b, p, over, live),
         NEW more, over \subseteq more, NEW fewer \in SUBSET live
  PROVE  Buffered(b, p, more, fewer)
  BY DEF Buffered

\* A new record, under no lease or a live one.
LEMMA RecordKeeps ==
  ASSUME NEW b, NEW p \in Nat, NEW over, NEW live, Buffered(b, p, over, live),
         LongLeases \subseteq over, NEW severity \in {"debug", "info", "warn"}, NEW lease,
         \/ lease = NoLease
         \/ /\ lease \in Leases
            /\ lease \in LongLeases \/ b.receipts[lease].disposition \in {"applied", "rejected"}
  PROVE  /\ Buffered(L!Record(b, p, severity, lease), p, over, live)
         /\ L!Record(b, p, severity, lease).uncounted >= b.uncounted
         /\ L!Record(b, p, severity, lease).receipts = b.receipts
<1> DEFINE a == [b EXCEPT !.sequence = b.sequence + 1]
           r == [id |-> <<p, b.sequence + 1>>, severity |-> severity, lease |-> lease,
                 delayed |-> FALSE, age |-> 0]
           c == L!Record(b, p, severity, lease)
<1>1. b \in L!Buffers /\ b.sequence \in Nat /\ Queued(b.records)
  BY DEF Buffered, L!Buffers
<1>2. /\ a \in L!Buffers /\ a.records = b.records /\ a.receipts = b.receipts
      /\ a.sequence = b.sequence + 1 /\ a.uncounted = b.uncounted
  BY <1>1 DEF L!Buffers
<1>3. r \in L!Records
  BY <1>1 DEF L!Records
<1>4. c = L!Enqueue(a, r)
  BY DEF L!Record
<1> HIDE DEF a, c
<1>5. /\ c \in L!Buffers /\ Queued(c.records) /\ c.records \subseteq b.records \cup {r}
      /\ c.receipts = b.receipts /\ c.sequence = b.sequence + 1
      /\ c.uncounted >= b.uncounted
  <2> HIDE DEF r
  <2> QED
    BY <1>1, <1>2, <1>3, <1>4, EnqueueFacts
<1>6. \A x \in c.records : x.id[1] <= p /\ (x.id[1] = p => x.id[2] <= c.sequence)
  <2> TAKE x \in c.records
  <2>1. CASE x = r
    BY <1>1, <1>5, <2>1
  <2>2. CASE x \in b.records
    <3>1. x.id[2] \in Nat
      BY <1>1, <2>2 DEF Queued, L!Records
    <3> QED
      BY <1>1, <1>5, <2>2, <3>1 DEF Buffered
  <2> QED
    BY <1>5, <2>1, <2>2
<1>7. \A l \in Leases :
        /\ c.receipts[l].generation <= p
        /\ c.receipts[l].generation = p => c.receipts[l].boundary <= c.sequence + 1
  <2> TAKE l \in Leases
  <2>1. b.receipts[l].boundary \in Nat
    BY <1>1 DEF L!Buffers, L!Receipts
  <2> QED
    BY <1>1, <1>5, <2>1 DEF Buffered
<1>8. \A l \in Leases \ over :
        /\ ~c.receipts[l].old
        /\ c.receipts[l].disposition = "none" =>
             \A x \in c.records : ~(x.lease = l /\ x.id[1] = p)
  <2> TAKE l \in Leases \ over
  <2>1. ~c.receipts[l].old
    BY <1>5 DEF Buffered
  <2>2. ASSUME c.receipts[l].disposition = "none", NEW x \in c.records, x.lease = l,
               x.id[1] = p
        PROVE  FALSE
    <3>1. CASE x = r
      <4>1. lease = l /\ lease # NoLease
        BY <2>2, <3>1, MCAgentAssumption DEF MCAgentAssumption
      <4> QED
        BY <1>5, <2>2, <4>1
    <3>2. CASE x \in b.records
      BY <1>5, <2>2, <3>2 DEF Buffered
    <3> QED
      BY <1>5, <3>1, <3>2
  <2> QED
    BY <2>1, <2>2
<1>9. L!Within(c)
  <2> SUFFICES ASSUME NEW x \in c.records, x.lease \notin LongLeases \cup {NoLease},
                      b.receipts[x.lease].generation = x.id[1]
               PROVE  /\ b.receipts[x.lease].disposition = "applied" =>
                           x.id[2] >= b.receipts[x.lease].boundary
                      /\ b.receipts[x.lease].disposition \in {"revoked", "expired"} =>
                           x.id[2] < b.receipts[x.lease].boundary
    BY <1>5 DEF L!Within
  <2>1. CASE x \in b.records
    BY <2>1 DEF Buffered, L!Within
  <2>2. CASE x = r
    <3>1. lease \in Leases /\ x.lease = lease /\ x.id[2] = b.sequence + 1 /\ x.id[1] = p
      BY <2>2
    <3>2. b.receipts[lease].boundary \in Nat
      BY <1>1, <3>1 DEF L!Buffers, L!Receipts
    <3> QED
      BY <1>1, <3>1, <3>2 DEF Buffered
  <2> QED
    BY <1>5, <2>1, <2>2
<1>10. \A l \in live : c.receipts[l].disposition \in {"applied", "rejected"}
  BY <1>5 DEF Buffered
<1> HIDE DEF r
<1> QED
  BY <1>5, <1>6, <1>7, <1>8, <1>9, <1>10 DEF Buffered, c

\* Pruning drops what is old, and nothing of a live lease's receipt.
LEMMA PruneKeeps ==
  ASSUME NEW b, NEW p \in Nat, NEW over, NEW live, Buffered(b, p, over, live),
         live \subseteq Leases \ over
  PROVE  Buffered(L!Prune(b), p, over, live)
<1> DEFINE young    == {r \in b.records : r.age < 2}
           receipts == [l \in Leases |-> IF b.receipts[l].old THEN L!NoReceipt
                                                              ELSE b.receipts[l]]
           claims   == {c \in b.claims : \E r \in young : c = L!ClaimOf(r)}
           gone     == L!Cardinality(b.records \ young)
           c        == L!Prune(b)
<1>1. b \in L!Buffers /\ Queued(b.records) /\ b.uncounted \in Nat /\ b.claims \subseteq L!Claims
      /\ b.receipts \in L!Receipts
  BY DEF Buffered, L!Buffers
<1>2. Queued(young)
  BY <1>1, FewerQueued
<1>3. gone \in Nat
  <2>1. IsFiniteSet(b.records)
    BY <1>1 DEF Queued
  <2>2. IsFiniteSet(b.records \ young)
    BY <2>1, FS_Subset
  <2> QED
    BY <2>2, QueueCount, FS_CardinalityType
<1>4. receipts \in L!Receipts
  BY <1>1 DEF L!Receipts, L!NoReceipt
<1>5. claims \subseteq L!Claims
  BY <1>1
<1>6. c = [b EXCEPT !.records = young, !.receipts = receipts, !.claims = claims,
                    !.uncounted = b.uncounted + gone]
  BY DEF L!Prune
<1>7. young \subseteq L!Records
  BY <1>2 DEF Queued
<1>8. \A l \in Leases : ~b.receipts[l].old => receipts[l] = b.receipts[l]
  OBVIOUS
<1>9. \A l \in Leases : b.receipts[l].old => receipts[l] = L!NoReceipt
  OBVIOUS
<1>10. \A l \in Leases \ over : ~b.receipts[l].old
  BY DEF Buffered
<1>11. young \subseteq b.records
  OBVIOUS
<1> HIDE DEF young, receipts, claims, gone, c
<1>12. b.uncounted + gone \in Nat
  BY <1>1, <1>3
<1>13. /\ c \in L!Buffers /\ c.records = young /\ c.receipts = receipts
       /\ c.sequence = b.sequence
  BY <1>1, <1>4, <1>5, <1>6, <1>7, <1>12 DEF L!Buffers
<1>14. \A l \in Leases :
         \/ c.receipts[l] = b.receipts[l]
         \/ l \in over /\ c.receipts[l] = L!NoReceipt
  BY <1>8, <1>9, <1>10, <1>13
<1>15. \A l \in Leases \ over : ~c.receipts[l].old
  BY <1>8, <1>10, <1>13
<1>16. \A r \in c.records : \E s \in b.records : s.id = r.id /\ s.lease = r.lease
  BY <1>11, <1>13
<1>17. Buffered(c, p, over, live)
  BY <1>2, <1>13, <1>14, <1>15, <1>16, BufferedFrom
<1> QED
  BY <1>17 DEF c

\* Only the count of the records lost is changed.
LEMMA CountKeeps ==
  ASSUME NEW b, NEW p \in Nat, NEW over, NEW live, Buffered(b, p, over, live), NEW n \in Nat
  PROVE  Buffered([b EXCEPT !.uncounted = n], p, over, live)
<1> DEFINE c == [b EXCEPT !.uncounted = n]
<1>1. c \in L!Buffers /\ c.records = b.records /\ c.receipts = b.receipts
      /\ c.sequence = b.sequence
  BY DEF Buffered, L!Buffers
<1> HIDE DEF c
<1>2. Buffered(c, p, over, live)
  BY <1>1 DEF Buffered, L!Within
<1> QED
  BY <1>2 DEF c

LEMMA FlushKeeps ==
  ASSUME NEW b, NEW over, NEW live, Buffered(b, logGeneration, over, live),
         logGeneration \in Nat, LongLeases \subseteq over
  PROVE  /\ Buffered(L!FlushCounters(b), logGeneration, over, live)
         /\ L!FlushCounters(b).uncounted \in Nat
<1>1. b.uncounted \in Nat
  BY DEF Buffered, L!Buffers
<1>2. CASE b.uncounted = 0
  BY <1>1, <1>2 DEF L!FlushCounters
<1>3. CASE b.uncounted # 0
  <2> DEFINE c == L!Record(b, logGeneration, "info", NoLease)
             d == [c EXCEPT !.uncounted = c.uncounted - b.uncounted]
  <2>1. Buffered(c, logGeneration, over, live) /\ c.uncounted >= b.uncounted
    BY RecordKeeps
  <2>2. L!FlushCounters(b) = d
    BY <1>3 DEF L!FlushCounters
  <2> HIDE DEF c
  <2>3. c.uncounted \in Nat
    BY <2>1 DEF Buffered, L!Buffers
  <2>4. c.uncounted - b.uncounted \in Nat
    BY <1>1, <2>1, <2>3
  <2>5. Buffered(d, logGeneration, over, live)
    BY <2>1, <2>4, CountKeeps
  <2>6. d.uncounted = c.uncounted - b.uncounted
    BY <2>1 DEF Buffered, L!Buffers
  <2> QED
    BY <2>2, <2>4, <2>5, <2>6
<1> QED
  BY <1>2, <1>3

\* A delayed record is the same record, under a new claim.
LEMMA MarkKeeps ==
  ASSUME NEW b, NEW p \in Nat, NEW over, NEW live, Buffered(b, p, over, live),
         live \subseteq Leases \ over
  PROVE  Buffered(L!MarkDelayed(b), p, over, live)
<1> DEFINE late     == {r \in b.records : r.age > 0 /\ ~r.delayed}
           claimed  == {r \in late : r.lease # NoLease}
           records  == (b.records \ late) \cup {L!Delayed(r) : r \in late}
           claims   == {c \in b.claims : \A r \in claimed : c \in L!RemoveClaim({c}, r)}
                         \cup {L!ClaimOf(L!Delayed(r)) : r \in claimed}
           f        == [r \in b.records |-> IF r \in late THEN L!Delayed(r) ELSE r]
           c        == L!MarkDelayed(b)
<1>1. b \in L!Buffers /\ Queued(b.records) /\ b.claims \subseteq L!Claims
  BY DEF Buffered, L!Buffers
<1>2. \A r \in L!Records : /\ L!Delayed(r) \in L!Records /\ L!Delayed(r).id = r.id
                           /\ L!Delayed(r).lease = r.lease
  BY DEF L!Delayed, L!Records
<1>3. b.records \subseteq L!Records /\ late \subseteq b.records
  BY <1>1 DEF Queued
<1>4. f \in [b.records -> L!Records]
  <2> HIDE DEF late
  <2> QED
    BY <1>2, <1>3
<1>5. records = {f[r] : r \in b.records}
  <2> HIDE DEF late
  <2> QED
    BY <1>3
<1>6. Queued(records)
  <2> HIDE DEF f, records
  <2> QED
    BY <1>1, <1>4, <1>5, ChangedQueued
<1>7. \A r \in records : \E s \in b.records : s.id = r.id /\ s.lease = r.lease
  <2> HIDE DEF late
  <2> QED
    BY <1>2, <1>3
<1>8. claims \subseteq L!Claims
  <2>1. \A r \in claimed : L!ClaimOf(L!Delayed(r)) \in L!Claims
    <3> TAKE r \in claimed
    <3>1. r \in L!Records /\ r.lease # NoLease
      BY <1>3
    <3>2. L!Delayed(r) \in L!Records /\ L!Delayed(r).lease # NoLease
      BY <1>2, <3>1
    <3> QED
      BY <3>2 DEF L!ClaimOf, L!Claims, L!Records
  <2> HIDE DEF claimed
  <2> QED
    BY <1>1, <2>1
<1>9. c = [b EXCEPT !.records = records, !.claims = claims]
  BY DEF L!MarkDelayed
<1> HIDE DEF records, claims, c, late
<1>10. records \subseteq L!Records
  BY <1>6 DEF Queued
<1>11. /\ c \in L!Buffers /\ c.records = records /\ c.receipts = b.receipts
       /\ c.sequence = b.sequence
  BY <1>1, <1>8, <1>9, <1>10 DEF L!Buffers
<1>12. \A l \in Leases \ over : ~b.receipts[l].old
  BY DEF Buffered
<1>13. Buffered(c, p, over, live)
  BY <1>6, <1>7, <1>11, <1>12, BufferedFrom
<1> QED
  BY <1>13 DEF c

\* What the Hub's receipts settle leaves the queue.
LEMMA SettledKeeps ==
  ASSUME NEW b, NEW p \in Nat, NEW over, NEW live, Buffered(b, p, over, live),
         live \subseteq Leases \ over, NEW ids, NEW disposition
  PROVE  Buffered(L!Settled(b, ids, disposition), p, over, live)
<1> DEFINE gone   == {r \in b.records : r.id \in ids}
           claims == {c \in b.claims : c.id \notin ids}
           lost   == IF disposition = "rejected" THEN b.uncounted + L!Cardinality(gone)
                                                 ELSE b.uncounted
           c      == [b EXCEPT !.records = b.records \ gone, !.claims = claims,
                               !.uncounted = lost]
<1>1. b \in L!Buffers /\ Queued(b.records) /\ b.uncounted \in Nat /\ b.claims \subseteq L!Claims
  BY DEF Buffered, L!Buffers
<1>2. Queued(b.records \ gone)
  <2> HIDE DEF gone
  <2> QED
    BY <1>1, FewerQueued
<1>3. lost \in Nat
  <2>1. IsFiniteSet(gone)
    BY <1>1, FS_Subset DEF Queued
  <2>2. L!Cardinality(gone) \in Nat
    BY <2>1, QueueCount, FS_CardinalityType
  <2> HIDE DEF gone
  <2> QED
    BY <1>1, <2>2
<1>4. claims \subseteq L!Claims
  BY <1>1
<1>5. L!Settled(b, ids, disposition) = IF disposition = "retry" THEN b ELSE c
  BY DEF L!Settled
<1>6. b.records \ gone \subseteq L!Records
  BY <1>2 DEF Queued
<1> DEFINE rest == b.records \ gone
<1>7. rest \subseteq b.records
  OBVIOUS
<1>8. c = [b EXCEPT !.records = rest, !.claims = claims, !.uncounted = lost]
  OBVIOUS
<1>9. Queued(rest)
  BY <1>2
<1> HIDE DEF rest, gone, claims, lost, c
<1>10. /\ c \in L!Buffers /\ c.records = rest /\ c.receipts = b.receipts
       /\ c.sequence = b.sequence
  BY <1>1, <1>3, <1>4, <1>8, <1>9 DEF L!Buffers, Queued
<1>11. \A l \in Leases \ over : ~b.receipts[l].old
  BY DEF Buffered
<1>12. Buffered(c, p, over, live)
  BY <1>7, <1>9, <1>10, <1>11, BufferedFrom
<1> QED
  BY <1>5, <1>12

\* Time changes the ages only, and makes a receipt old when every lease has lapsed.
LEMMA OlderRecords ==
  ASSUME NEW records, Queued(records), NEW age \in 1 .. 2
  PROVE  /\ Queued(L!Later(records, age))
         /\ L!Later(records, age) \subseteq L!Records
         /\ \A r \in L!Later(records, age) :
              \E s \in records : s.id = r.id /\ s.lease = r.lease
<1> DEFINE Older(r) == [r EXCEPT !.age = IF age > r.age THEN age ELSE r.age]
           f == [r \in records |-> Older(r)]
<1>1. \A r \in records : Older(r) \in L!Records /\ Older(r).id = r.id /\ Older(r).lease = r.lease
  BY DEF Queued, L!Records
<1>2. L!Later(records, age) = {Older(r) : r \in records}
  BY DEF L!Later
<1> HIDE DEF Older
<1>3. f \in [records -> L!Records] /\ L!Later(records, age) = {f[r] : r \in records}
  BY <1>1, <1>2
<1> HIDE DEF f
<1>4. Queued(L!Later(records, age))
  BY <1>3, ChangedQueued
<1> QED
  BY <1>1, <1>2, <1>4 DEF Queued

LEMMA OlderReceipts ==
  ASSUME NEW receipts \in L!Receipts, NEW age \in 1 .. 2
  PROVE  /\ L!Outdated(receipts, age) \in L!Receipts
         /\ \A l \in Leases :
              /\ L!Outdated(receipts, age)[l].disposition = receipts[l].disposition
              /\ L!Outdated(receipts, age)[l].boundary = receipts[l].boundary
              /\ L!Outdated(receipts, age)[l].generation = receipts[l].generation
              /\ age = 1 /\ ~receipts[l].old => ~L!Outdated(receipts, age)[l].old
<1> DEFINE Old(l) == receipts[l] # L!NoReceipt /\ (age = 2 \/ receipts[l].old)
           later == [l \in Leases |-> [receipts[l] EXCEPT !.old = Old(l)]]
<1>1. L!Outdated(receipts, age) = later
  BY DEF L!Outdated
<1>2. \A l \in Leases : Old(l) \in BOOLEAN /\ (Old(l) => age = 2 \/ receipts[l].old)
  OBVIOUS
<1> HIDE DEF Old
<1>3. later \in L!Receipts
  BY <1>2 DEF L!Receipts
<1>4. \A l \in Leases : /\ later[l].disposition = receipts[l].disposition
                        /\ later[l].boundary = receipts[l].boundary
                        /\ later[l].generation = receipts[l].generation
                        /\ later[l].old = Old(l)
  BY DEF L!Receipts
<1> HIDE DEF later
<1> QED
  BY <1>1, <1>2, <1>3, <1>4

LEMMA AgedKeeps ==
  ASSUME NEW b, NEW p \in Nat, NEW over \in SUBSET Leases, NEW live, Buffered(b, p, over, live),
         live \subseteq Leases \ over, NEW age \in 1 .. 2
  PROVE  Buffered(L!Aged(b, age), p, IF age = 2 THEN Leases ELSE over,
                  IF age = 2 THEN {} ELSE live)
<1> DEFINE more == IF age = 2 THEN Leases ELSE over
           less == IF age = 2 THEN {} ELSE live
           c    == L!Aged(b, age)
<1>1. b \in L!Buffers /\ Queued(b.records) /\ b.receipts \in L!Receipts
  BY DEF Buffered, L!Buffers
<1>2. Buffered(b, p, more, less) /\ less \subseteq Leases \ more
  BY BufferedLess
<1>3. /\ c \in L!Buffers /\ c.records = L!Later(b.records, age)
      /\ c.receipts = L!Outdated(b.receipts, age) /\ c.sequence = b.sequence
  BY <1>1, OlderRecords, OlderReceipts DEF L!Aged, L!Buffers
<1>4. \A l \in Leases \ more : age = 1 /\ ~b.receipts[l].old
  BY DEF Buffered
<1> HIDE DEF more, less, c
<1>5. \A l \in Leases \ more : ~c.receipts[l].old
  BY <1>1, <1>3, <1>4, OlderReceipts
<1>6. Buffered(c, p, more, less)
  BY <1>1, <1>2, <1>3, <1>5, OlderRecords, OlderReceipts, BufferedFrom
<1> QED
  BY <1>6 DEF c, more, less

LEMMA AgedFiled ==
  ASSUME NEW file, NEW p, NEW over \in SUBSET Leases, Filed(file, p, over), NEW age \in 1 .. 2
  PROVE  Filed(L!Aged(file, age), p, IF age = 2 THEN Leases ELSE over)
<1> DEFINE more == IF age = 2 THEN Leases ELSE over
           c    == L!Aged(file, age)
<1>1. file \in L!Files /\ Queued(file.records) /\ file.receipts \in L!Receipts
  BY DEF Filed, L!Files
<1>2. /\ c \in L!Files /\ c.records = L!Later(file.records, age)
      /\ c.receipts = L!Outdated(file.receipts, age)
  BY <1>1, OlderRecords, OlderReceipts DEF L!Aged, L!Files
<1>3. \A l \in Leases \ more : age = 1 /\ ~file.receipts[l].old
  BY DEF Filed
<1> HIDE DEF more, c
<1>4. \A l \in Leases \ more : ~c.receipts[l].old
  BY <1>1, <1>2, <1>3, OlderReceipts
<1>5. \A r \in c.records : \E s \in file.records : s.id = r.id /\ s.lease = r.lease
  BY <1>1, <1>2, OlderRecords
<1>6. \A l \in Leases : /\ c.receipts[l].disposition = file.receipts[l].disposition
                        /\ c.receipts[l].boundary = file.receipts[l].boundary
                        /\ c.receipts[l].generation = file.receipts[l].generation
  BY <1>1, <1>2, OlderReceipts
<1>7. Queued(c.records)
  BY <1>1, <1>2, OlderRecords
<1>8. L!Within(c)
  <2> SUFFICES ASSUME NEW r \in c.records, r.lease \notin LongLeases \cup {NoLease}
               PROVE  c.receipts[r.lease].generation = r.id[1] =>
                        /\ c.receipts[r.lease].disposition = "applied" =>
                             r.id[2] >= c.receipts[r.lease].boundary
                        /\ c.receipts[r.lease].disposition \in {"revoked", "expired"} =>
                             r.id[2] < c.receipts[r.lease].boundary
    BY DEF L!Within
  <2>1. r.lease \in Leases
    BY <1>7 DEF Queued, L!Records
  <2>2. PICK s \in file.records : s.id = r.id /\ s.lease = r.lease
    BY <1>5
  <2> QED
    BY <1>6, <2>1, <2>2 DEF Filed, L!Within
<1>9. Filed(c, p, more)
  BY <1>2, <1>4, <1>5, <1>6, <1>7, <1>8 DEF Filed
<1> QED
  BY <1>9 DEF c, more

\* Some leases get a receipt of now: one that is applied is long, or had none and has not
\* lapsed, and one that detail is still written under is applied or its revoke was refused.
LEMMA ReceiptsKeep ==
  ASSUME NEW b, NEW p \in Nat, NEW over, NEW live, Buffered(b, p, over, live),
         NEW receipts \in L!Receipts, NEW stay,
         \A l \in Leases :
           \/ receipts[l] = b.receipts[l]
           \/ /\ receipts[l].boundary = b.sequence + 1
              /\ receipts[l].generation = p
              /\ ~receipts[l].old
              /\ receipts[l].disposition # "none"
              /\ receipts[l].disposition = "applied" =>
                   l \in LongLeases \/ (b.receipts[l].disposition = "none" /\ l \notin over),
         \A l \in stay : receipts[l].disposition \in {"applied", "rejected"}
  PROVE  Buffered([b EXCEPT !.receipts = receipts], p, over, stay)
<1> DEFINE c == [b EXCEPT !.receipts = receipts]
<1>1. b \in L!Buffers /\ Queued(b.records) /\ b.sequence \in Nat /\ b.records \subseteq L!Records
  BY DEF Buffered, L!Buffers
<1>2. /\ c \in L!Buffers /\ c.records = b.records /\ c.receipts = receipts
      /\ c.sequence = b.sequence
  BY <1>1 DEF L!Buffers
<1> HIDE DEF c
<1>3. \A l \in Leases :
        /\ c.receipts[l].generation <= p
        /\ c.receipts[l].generation = p => c.receipts[l].boundary <= c.sequence + 1
  BY <1>1, <1>2 DEF Buffered
<1>4. \A l \in Leases \ over :
        /\ ~c.receipts[l].old
        /\ c.receipts[l].disposition = "none" =>
             \A r \in c.records : ~(r.lease = l /\ r.id[1] = p)
  BY <1>2 DEF Buffered
<1>5. \A r \in c.records : r.id[1] <= p /\ (r.id[1] = p => r.id[2] <= c.sequence)
  BY <1>2 DEF Buffered
<1>6. L!Within(c)
  <2> SUFFICES ASSUME NEW r \in c.records, r.lease \notin LongLeases \cup {NoLease},
                      c.receipts[r.lease].generation = r.id[1]
               PROVE  /\ c.receipts[r.lease].disposition = "applied" =>
                           r.id[2] >= c.receipts[r.lease].boundary
                      /\ c.receipts[r.lease].disposition \in {"revoked", "expired"} =>
                           r.id[2] < c.receipts[r.lease].boundary
    BY DEF L!Within
  <2>1. r.lease \in Leases /\ r \in b.records /\ r.id[2] \in Nat
    BY <1>1, <1>2 DEF L!Records
  <2>2. CASE receipts[r.lease] = b.receipts[r.lease]
    BY <1>2, <2>1, <2>2 DEF Buffered, L!Within
  <2>3. CASE receipts[r.lease] # b.receipts[r.lease]
    <3>1. r.id[1] = p /\ c.receipts[r.lease].boundary = b.sequence + 1
      BY <1>2, <2>1, <2>3
    <3>2. r.id[2] <= b.sequence
      BY <2>1, <3>1 DEF Buffered
    <3>3. c.receipts[r.lease].disposition # "applied"
      BY <1>2, <2>1, <2>3, <3>1 DEF Buffered
    <3> QED
      BY <1>1, <2>1, <3>1, <3>2, <3>3
  <2> QED
    BY <2>2, <2>3
<1>7. Buffered(c, p, over, stay)
  BY <1>1, <1>2, <1>3, <1>4, <1>5, <1>6 DEF Buffered
<1> QED
  BY <1>7 DEF c

------------------------------------------------------------------------------
LEMMA QueueInvariantNext ==
  ASSUME Linked',
         Buffered(logBuffer', logGeneration', Over', Short'),
         Filed(logSaved', logGeneration', Over')
  PROVE  L!IInv'
<1>1. \A b \in {logBuffer', logSaved'} : L!IsFiniteSet(b.records) = IsFiniteSet(b.records)
                                         /\ L!Cardinality(b.records) = Cardinality(b.records)
  BY QueueCount
<1>2. L!TypeOK' /\ logGeneration' \in Nat
  BY <1>1 DEF L!TypeOK, Linked, Queued, Buffered, Filed
<1> QED
  BY <1>2 DEF L!IInv, L!NumberedInv, L!SavedInv, L!LeaseInv, L!DetailWithinLease, L!Live,
      Buffered, Filed, Over, Short

\* What is written of a kept buffer can be read again.
LEMMA BufferFiled ==
  ASSUME NEW b, NEW p, NEW over, NEW live, Buffered(b, p, over, live)
  PROVE  Filed([records |-> b.records, claims |-> b.claims, receipts |-> b.receipts], p, over)
<1> DEFINE file == [records |-> b.records, claims |-> b.claims, receipts |-> b.receipts]
<1>1. /\ file \in L!Files /\ file.records = b.records /\ file.receipts = b.receipts
  BY DEF Buffered, L!Buffers, L!Files
<1> HIDE DEF file
<1>2. Filed(file, p, over)
  BY <1>1 DEF Buffered, Filed, L!Within
<1> QED
  BY <1>2 DEF file

LEMMA PersistedFiled ==
  ASSUME NEW b, NEW p, NEW over, NEW live, Buffered(b, p, over, live), Filed(logSaved, p, over)
  PROVE  Filed(L!Persisted(b), p, over)
  BY BufferFiled DEF L!Persisted

LEMMA FiledLess ==
  ASSUME NEW file, NEW p \in Nat, NEW over, Filed(file, p, over)
  PROVE  Filed(file, p + 1, over)
<1>1. \A r \in file.records : r.id[1] \in Nat
  BY DEF Filed, Queued, L!Records
<1>2. \A l \in Leases : file.receipts[l].generation \in Nat
  BY DEF Filed, L!Files, L!Receipts
<1> QED
  BY <1>1, <1>2 DEF Filed

\* An empty buffer, and one that a new process reads.
LEMMA EmptyBuffered ==
  ASSUME NEW p \in Nat, NEW over
  PROVE  /\ Buffered(L!EmptyBuffer, p, over, {})
         /\ Filed([records |-> {}, claims |-> {}, receipts |-> L!EmptyBuffer.receipts], p, over)
<1>1. Queued({})
  BY QueueBound, FS_EmptySet DEF Queued
<1>2. L!EmptyBuffer \in L!Buffers /\ L!EmptyBuffer.records = {}
      /\ L!EmptyBuffer.receipts = [l \in Leases |-> L!NoReceipt]
      /\ L!EmptyBuffer.claims = {} /\ L!EmptyBuffer.sequence = 0
  BY DEF L!EmptyBuffer, L!Buffers, L!Receipts, L!NoReceipt
<1>3. Buffered(L!EmptyBuffer, p, over, {})
  BY <1>1, <1>2 DEF Buffered, L!Within, L!NoReceipt
<1>4. Filed([records |-> L!EmptyBuffer.records, claims |-> L!EmptyBuffer.claims,
             receipts |-> L!EmptyBuffer.receipts], p, over)
  BY <1>3, BufferFiled
<1> QED
  BY <1>2, <1>3, <1>4

LEMMA LoadedKeeps ==
  ASSUME NEW file, NEW p \in Nat, NEW over, Filed(file, p, over)
  PROVE  Buffered(L!Prune([records |-> file.records, claims |-> file.claims,
                           receipts |-> file.receipts, sequence |-> 0, uncounted |-> 0]),
                  p + 1, over, {})
<1> DEFINE b == [records |-> file.records, claims |-> file.claims,
                 receipts |-> file.receipts, sequence |-> 0, uncounted |-> 0]
<1>1. /\ b \in L!Buffers /\ b.records = file.records /\ b.receipts = file.receipts
      /\ b.sequence = 0
  BY DEF Filed, L!Files, L!Buffers
<1>2. \A r \in b.records : r.id[1] \in Nat /\ r.id[1] <= p
  BY <1>1 DEF Filed, Queued, L!Records
<1>3. \A l \in Leases : b.receipts[l].generation \in Nat /\ b.receipts[l].generation <= p
  BY <1>1 DEF Filed, L!Files, L!Receipts
<1> HIDE DEF b
<1>4. Buffered(b, p + 1, over, {})
  BY <1>1, <1>2, <1>3 DEF Buffered, Filed, L!Within
<1>5. Buffered(L!Prune(b), p + 1, over, {})
  BY <1>4, PruneKeeps
<1> QED
  BY <1>5 DEF b

------------------------------------------------------------------------------
\* The Agent's telemetry begins empty.
LEMMA LogInit == ASSUME L!Init PROVE L!IInv
<1>1. Linked
  BY DEF L!Init, Linked
<1>2. Buffered(logBuffer, logGeneration, Over, Short)
      /\ Filed(logSaved, logGeneration, Over)
  <2>1. Short = {} /\ logGeneration = 1 /\ logBuffer = L!EmptyBuffer
        /\ logSaved = [records |-> {}, claims |-> {}, receipts |-> L!EmptyBuffer.receipts]
    BY DEF L!Init, Short
  <2> QED
    BY <2>1, EmptyBuffered
<1> QED
  BY <1>1, <1>2, QueueInvariant

LEMMA LogStutter == ASSUME L!IInv, UNCHANGED logVars PROVE L!IInv'
<1>1. Linked'
  BY QueueInvariant DEF Linked, logVars
<1> QED
  BY <1>1, QueueInvariant, QueueInvariantNext DEF logVars, Over, Short

\* What every step starts from.
LEMMA LogFacts ==
  ASSUME L!IInv
  PROVE  /\ Linked /\ logGeneration \in Nat
         /\ LongLeases \subseteq Over /\ Over \in SUBSET Leases
         /\ Buffered(logBuffer, logGeneration, Over, Short)
         /\ Buffered(logBuffer, logGeneration, Over, {})
         /\ Filed(logSaved, logGeneration, Over)
         /\ Short \subseteq Leases \ Over
<1>1. Linked /\ Buffered(logBuffer, logGeneration, Over, Short)
  BY QueueInvariant
<1>2. LongLeases \subseteq Leases
  BY MCAgentAssumption DEF MCAgentAssumption
<1> QED
  BY <1>1, <1>2, QueueInvariant, BufferedLess DEF Linked, Over, Short

\* A write keeps what is in memory and in the file.
LEMMA WriteStep ==
  ASSUME L!IInv, NEW b, NEW fails, L!Write(b, fails),
         Buffered(b, logGeneration, Over, Short),
         UNCHANGED <<logGeneration, logLapsed, logRooted>>,
         logActive' \in {logActive, {}}, Linked'
  PROVE  L!IInv'
<1>1. logBuffer' = b /\ logSaved' \in {logSaved, L!Persisted(b)}
  BY DEF L!Write
<1>2. Filed(logSaved', logGeneration, Over)
  BY <1>1, LogFacts, PersistedFiled
<1>3. Buffered(b, logGeneration, Over, {})
  BY BufferedLess
<1>4. Over' = Over /\ Short' \in {Short, {}}
  BY DEF Over, Short
<1> QED
  BY <1>1, <1>2, <1>3, <1>4, QueueInvariantNext

LEMMA RecordEventStep ==
  ASSUME L!IInv, NEW severity \in {"info", "warn"}, NEW fails \in BOOLEAN,
         L!RecordEvent(severity, fails)
  PROVE  L!IInv'
<1> DEFINE b == L!Record(logBuffer, logGeneration, severity, NoLease)
<1>1. Buffered(b, logGeneration, Over, Short)
  BY LogFacts, RecordKeeps
<1>2. L!Write(b, fails)
  BY DEF L!RecordEvent
<1>3. Linked'
  BY LogFacts DEF L!RecordEvent, Linked
<1>4. UNCHANGED <<logGeneration, logLapsed, logRooted, logActive>>
  BY DEF L!RecordEvent
<1> HIDE DEF b
<1> QED
  BY <1>1, <1>2, <1>3, <1>4, WriteStep

LEMMA RecordCommandSpanStep ==
  ASSUME L!IInv, NEW forTask \in BOOLEAN, NEW fails \in BOOLEAN,
         L!RecordCommandSpan(forTask, fails)
  PROVE  L!IInv'
<1>1. Linked'
  BY LogFacts DEF L!RecordCommandSpan, Linked
<1>2. UNCHANGED <<logGeneration, logLapsed, logRooted, logActive>>
  BY DEF L!RecordCommandSpan
<1>3. L!MatchingLeases(forTask) \subseteq Short \cup LongLeases
  BY DEF L!MatchingLeases, L!Live, Short
<1>4. CASE L!MatchingLeases(forTask) = {}
  <2> DEFINE b == L!Record(logBuffer, logGeneration, "info", NoLease)
  <2>1. Buffered(b, logGeneration, Over, Short)
    BY LogFacts, RecordKeeps
  <2>2. L!Write(b, fails)
    BY <1>4 DEF L!RecordCommandSpan
  <2> HIDE DEF b
  <2> QED
    BY <1>1, <1>2, <2>1, <2>2, WriteStep
<1>5. CASE L!MatchingLeases(forTask) # {}
  <2> DEFINE detailed(l) == L!Record(logBuffer, logGeneration, "debug", l)
             spanned(l)  == L!Record(detailed(l), logGeneration, "info", NoLease)
  <2>1. PICK l \in L!MatchingLeases(forTask) :
          L!Write(detailed(l), TRUE) \/ L!Write(spanned(l), FALSE)
    BY <1>5 DEF L!RecordCommandSpan
  <2>2. l \in Leases /\ (\/ l \in LongLeases
                         \/ logBuffer.receipts[l].disposition \in {"applied", "rejected"})
    BY <1>3, LogFacts DEF Buffered
  <2>3. Buffered(detailed(l), logGeneration, Over, Short)
    BY <2>2, LogFacts, RecordKeeps
  <2> HIDE DEF detailed
  <2>4. Buffered(spanned(l), logGeneration, Over, Short)
    BY <2>3, LogFacts, RecordKeeps
  <2> HIDE DEF spanned
  <2> QED
    BY <1>1, <1>2, <2>1, <2>3, <2>4, WriteStep
<1> QED
  BY <1>4, <1>5

\* The steps of the channel that leave the buffer and the file alone.
LEMMA ChannelStep ==
  ASSUME L!IInv,
         \/ L!Connect \/ L!Disconnect \/ L!LogRead \/ L!CancelLogRead \/ L!SendLogChunk
         \/ \E l \in Leases : L!Lapse(l)
         \/ \E disposition \in {"accepted", "rejected", "retry"} : L!HubAnswers(disposition)
  PROVE  L!IInv'
<1>1. Linked'
  <2>1. ASSUME L!Connect \/ L!Disconnect PROVE Linked'
    BY <2>1, LogFacts DEF L!Connect, L!Disconnect, L!LinkLost, L!Mishap, Linked
  <2>2. ASSUME L!LogRead \/ L!CancelLogRead \/ L!SendLogChunk PROVE Linked'
    BY <2>2, LogFacts DEF L!LogRead, L!CancelLogRead, L!SendLogChunk, Linked
  <2>3. ASSUME NEW l \in Leases, L!Lapse(l) PROVE Linked'
    BY <2>3, LogFacts DEF L!Lapse, Linked
  <2>4. ASSUME NEW disposition \in {"accepted", "rejected", "retry"}, L!HubAnswers(disposition)
        PROVE  Linked'
    <3>1. Len(logWire') = 1 /\ logWire # <<>>
      BY <2>4 DEF L!HubAnswers
    <3>2. logLink' = logLink /\ logLink = "up"
      BY <2>4, <3>1, LogFacts DEF L!HubAnswers, Linked
    <3> QED
      BY <2>4, <3>1, <3>2, LogFacts DEF L!HubAnswers, Linked
  <2> QED
    BY <2>1, <2>2, <2>3, <2>4
<1>2. /\ UNCHANGED <<logBuffer, logSaved, logGeneration>>
      /\ Over \subseteq Over' /\ Short' \subseteq Short
  BY DEF Over, Short, L!Connect, L!Disconnect, L!LogRead, L!CancelLogRead, L!SendLogChunk, L!Lapse,
      L!HubAnswers, L!LinkLost
<1>3. Buffered(logBuffer', logGeneration', Over', Short')
  BY <1>2, LogFacts, BufferedLess
<1>4. Filed(logSaved', logGeneration', Over')
  BY <1>2, LogFacts DEF Filed
<1> QED
  BY <1>1, <1>3, <1>4, QueueInvariantNext

\* A failed answer to a lease ends the connection and changes nothing else.
LEMMA LostStep ==
  ASSUME L!IInv, L!LinkLost,
         UNCHANGED <<logBuffer, logSaved, logRooted, logLapsed, logGeneration>>
  PROVE  L!IInv'
<1>1. Linked'
  BY LogFacts DEF L!LinkLost, Linked
<1>2. Short' = {} /\ Over' = Over
  BY DEF L!LinkLost, Over, Short
<1> QED
  BY <1>1, <1>2, LogFacts, QueueInvariantNext

\* A lease is answered with a receipt of now.
LEMMA RememberKeeps ==
  ASSUME NEW b, NEW p \in Nat, NEW over, NEW live, Buffered(b, p, over, live), p = logGeneration,
         live \subseteq Leases \ over, NEW l \in Leases, NEW stay,
         NEW disposition \in {"applied", "rejected", "revoked"},
         disposition = "applied" =>
           l \in LongLeases \/ (b.receipts[l].disposition = "none" /\ l \notin over),
         stay \subseteq live \cup {l},
         l \in stay => disposition # "revoked"
  PROVE  Buffered(L!Remember(b, l, disposition), p, over, stay)
<1> DEFINE now == L!ReceiptNow(b, disposition)
           receipts == [b.receipts EXCEPT ![l] = now]
<1>1. b \in L!Buffers /\ b.receipts \in L!Receipts /\ b.sequence \in Nat
  BY DEF Buffered, L!Buffers
<1>2. /\ now.disposition = disposition /\ now.boundary = b.sequence + 1
      /\ now.generation = p /\ now.old = FALSE
  BY DEF L!ReceiptNow
<1>3. receipts \in L!Receipts
  BY <1>1 DEF L!Receipts, L!ReceiptNow
<1>4. L!Remember(b, l, disposition) = [b EXCEPT !.receipts = receipts]
  BY <1>1 DEF L!Remember, L!Buffers
<1>5. receipts[l] = now /\ \A m \in Leases : m # l => receipts[m] = b.receipts[m]
  BY <1>1 DEF L!Receipts
<1> HIDE DEF now, receipts
<1>6. \A m \in stay : receipts[m].disposition \in {"applied", "rejected"}
  <2> TAKE m \in stay
  <2>1. CASE m = l
    BY <1>2, <1>5, <2>1
  <2>2. CASE m # l
    <3>1. m \in live /\ b.receipts[m].disposition \in {"applied", "rejected"}
      BY <2>2 DEF Buffered
    <3> QED
      BY <1>5, <2>2, <3>1
  <2> QED
    BY <2>1, <2>2
<1>7. \A m \in Leases :
        \/ receipts[m] = b.receipts[m]
        \/ /\ receipts[m].boundary = b.sequence + 1
           /\ receipts[m].generation = p
           /\ ~receipts[m].old
           /\ receipts[m].disposition # "none"
           /\ receipts[m].disposition = "applied" =>
                m \in LongLeases \/ (b.receipts[m].disposition = "none" /\ m \notin over)
  BY <1>2, <1>5
<1>8. Buffered([b EXCEPT !.receipts = receipts], p, over, stay)
  BY <1>3, <1>6, <1>7, ReceiptsKeep
<1> QED
  BY <1>4, <1>8

LEMMA HandleLeaseStep ==
  ASSUME L!IInv, NEW l \in Leases, NEW fails \in BOOLEAN, L!HandleLease(l, fails)
  PROVE  L!IInv'
<1>1. UNCHANGED <<logRooted, logLapsed, logGeneration>>
  BY DEF L!HandleLease
<1>2. CASE fails
  BY <1>1, <1>2, LostStep DEF L!HandleLease
<1>3. CASE ~fails
  <2> DEFINE valid == logRooted /\ l \notin logLapsed
             b == L!Remember(logBuffer, l, IF valid THEN "applied" ELSE "rejected")
  <2>1. /\ logBuffer' = b /\ logSaved' = L!Persisted(logBuffer')
        /\ logActive' = (IF valid THEN logActive \cup {l} ELSE logActive)
        /\ UNCHANGED <<logLink, logWire, logLog>> /\ logLink = "up"
        /\ logBuffer.receipts[l].disposition = "none"
    BY <1>3 DEF L!HandleLease
  <2>2. Linked'
    BY <1>1, <2>1, LogFacts DEF Linked
  <2>3. Short' \subseteq Short \cup {l} /\ Over' = Over
    BY <1>1, <2>1 DEF Short, Over
  <2>4. Buffered(b, logGeneration, Over, Short')
    <3> DEFINE stay == Short'
               d == IF valid THEN "applied" ELSE "rejected"
    <3>1. d \in {"applied", "rejected", "revoked"} /\ d # "revoked"
          /\ (d = "applied" => l \in LongLeases \/ l \notin Over)
      BY DEF Over
    <3>2. b = L!Remember(logBuffer, l, d)
      OBVIOUS
    <3>3. stay \subseteq Short \cup {l}
      BY <2>3
    <3> HIDE DEF d, b, stay, valid
    <3>4. /\ Buffered(logBuffer, logGeneration, Over, Short) /\ Short \subseteq Leases \ Over
          /\ logGeneration \in Nat
      BY LogFacts
    <3>5. d = "applied" =>
            l \in LongLeases \/ (logBuffer.receipts[l].disposition = "none" /\ l \notin Over)
      BY <2>1, <3>1
    <3>6. Buffered(L!Remember(logBuffer, l, d), logGeneration, Over, stay)
      BY <3>1, <3>3, <3>4, <3>5, RememberKeeps
    <3> QED
      BY <3>2, <3>6 DEF stay
  <2> HIDE DEF b
  <2>5. Filed(logSaved', logGeneration, Over)
    BY <2>1, <2>4, LogFacts, PersistedFiled
  <2> QED
    BY <1>1, <2>1, <2>2, <2>3, <2>4, <2>5, QueueInvariantNext
<1> QED
  BY <1>2, <1>3

LEMMA HandleRevokeStep ==
  ASSUME L!IInv, NEW l \in Leases, NEW matches \in BOOLEAN, NEW fails \in BOOLEAN,
         L!HandleRevoke(l, matches, fails)
  PROVE  L!IInv'
<1>1. UNCHANGED <<logRooted, logLapsed, logGeneration>>
  BY DEF L!HandleRevoke
<1>2. CASE fails
  BY <1>1, <1>2, LostStep DEF L!HandleRevoke
<1>3. CASE ~fails
  <2> DEFINE valid == matches /\ (l \in logActive \/ logBuffer.receipts[l].disposition = "applied")
             d == IF valid THEN "revoked" ELSE "rejected"
             b == L!Remember(logBuffer, l, d)
  <2>1. /\ logBuffer' = b /\ logSaved' = L!Persisted(logBuffer')
        /\ logActive' = (IF valid THEN logActive \ {l} ELSE logActive)
        /\ UNCHANGED <<logLink, logWire>> /\ logLink = "up"
    BY <1>3 DEF L!HandleRevoke
  <2>2. Linked'
    BY <1>1, <2>1, LogFacts DEF Linked
  <2>3. /\ d \in {"applied", "rejected", "revoked"} /\ d # "applied"
        /\ Short' \subseteq Short \cup {l} /\ Over' = Over
        /\ l \in Short' => d # "revoked"
    BY <1>1, <2>1 DEF Short, Over
  <2> HIDE DEF d
  <2>4. Buffered(b, logGeneration, Over, Short')
    <3> DEFINE stay == Short'
    <3>1. stay \subseteq Short \cup {l} /\ (l \in stay => d # "revoked")
      BY <2>3
    <3> HIDE DEF stay
    <3>2. Buffered(b, logGeneration, Over, stay)
      BY <2>3, <3>1, LogFacts, RememberKeeps
    <3> QED
      BY <3>2 DEF stay
  <2> HIDE DEF b
  <2>5. Filed(logSaved', logGeneration, Over)
    BY <2>1, <2>4, LogFacts, PersistedFiled
  <2> QED
    BY <1>1, <2>1, <2>2, <2>3, <2>4, <2>5, QueueInvariantNext
<1> QED
  BY <1>2, <1>3

LEMMA ExpireLeasesStep ==
  ASSUME L!IInv, NEW fails \in BOOLEAN, L!ExpireLeases(fails)
  PROVE  L!IInv'
<1>1. UNCHANGED <<logRooted, logLapsed, logGeneration>>
  BY DEF L!ExpireLeases
<1>2. CASE fails
  BY <1>1, <1>2, LostStep DEF L!ExpireLeases
<1>3. CASE ~fails
  <2> DEFINE ended == logActive \cap logLapsed
             receipts == [l \in Leases |-> IF l \in ended THEN L!ReceiptNow(logBuffer, "expired")
                                                          ELSE logBuffer.receipts[l]]
             b == [logBuffer EXCEPT !.receipts = receipts]
  <2>1. /\ logBuffer' = b /\ logSaved' = L!Persisted(b) /\ logActive' = logActive \ ended
        /\ UNCHANGED <<logLink, logWire>> /\ logLink = "up"
    BY <1>3 DEF L!ExpireLeases
  <2>2. Linked'
    BY <1>1, <2>1, LogFacts DEF Linked
  <2>3. Short' = Short /\ Over' = Over
    BY <1>1, <2>1 DEF Short, Over
  <2>4. logBuffer.receipts \in L!Receipts /\ logBuffer.sequence \in Nat /\ logGeneration \in Nat
    BY LogFacts DEF Buffered, L!Buffers
  <2>5. receipts \in L!Receipts
    <3> HIDE DEF ended
    <3> QED
      BY <2>4 DEF L!Receipts, L!ReceiptNow
  <2>6. \A l \in Leases :
          \/ receipts[l] = logBuffer.receipts[l]
          \/ /\ receipts[l].boundary = logBuffer.sequence + 1
             /\ receipts[l].generation = logGeneration
             /\ ~receipts[l].old
             /\ receipts[l].disposition = "expired"
    BY DEF L!ReceiptNow
  <2>7. \A l \in Short : receipts[l].disposition \in {"applied", "rejected"}
    BY LogFacts DEF Buffered, Short
  <2> HIDE DEF receipts, ended
  <2>8. Buffered(b, logGeneration, Over, Short)
    BY <2>5, <2>6, <2>7, LogFacts, ReceiptsKeep
  <2> HIDE DEF b
  <2>9. Filed(logSaved', logGeneration, Over)
    BY <2>1, <2>8, LogFacts, PersistedFiled
  <2> QED
    BY <1>1, <2>1, <2>2, <2>3, <2>8, <2>9, QueueInvariantNext
<1> QED
  BY <1>2, <1>3

\* A batch is made of a pruned buffer whose losses have been reported.
LEMMA BatchKeeps ==
  ASSUME L!IInv, NEW pruned, pruned = L!Prune(logBuffer),
         NEW flushed, flushed = L!FlushCounters(pruned)
  PROVE  /\ Buffered(pruned, logGeneration, Over, Short)
         /\ Buffered(flushed, logGeneration, Over, Short)
         /\ Buffered(L!MarkDelayed(flushed), logGeneration, Over, Short)
         /\ Buffered([flushed EXCEPT !.uncounted = flushed.uncounted + pruned.uncounted],
                     logGeneration, Over, Short)
<1>1. Buffered(pruned, logGeneration, Over, Short)
  BY LogFacts, PruneKeeps
<1>2. Buffered(flushed, logGeneration, Over, Short)
  BY <1>1, LogFacts, FlushKeeps
<1>3. Buffered(L!MarkDelayed(flushed), logGeneration, Over, Short)
  BY <1>2, LogFacts, MarkKeeps
<1>4. flushed.uncounted + pruned.uncounted \in Nat
  BY <1>1, <1>2 DEF Buffered, L!Buffers
<1>5. Buffered([flushed EXCEPT !.uncounted = flushed.uncounted + pruned.uncounted],
               logGeneration, Over, Short)
  BY <1>2, <1>4, LogFacts, CountKeeps
<1> QED
  BY <1>1, <1>2, <1>3, <1>5

LEMMA SendBatchStep == ASSUME L!IInv, L!SendBatch PROVE L!IInv'
<1> DEFINE b == L!MarkDelayed(L!FlushCounters(L!Prune(logBuffer)))
<1>1. /\ logBuffer' = b /\ logSaved' \in {logSaved, L!Persisted(b)}
      /\ UNCHANGED <<logRooted, logLapsed, logGeneration>> /\ logLink = "up"
  BY DEF L!SendBatch, L!BatchDue
<1>2. \/ L!LinkLost
      \/ UNCHANGED <<logActive, logLink, logLog>> /\ Len(logWire') <= 1
  <2>1. CASE L!ClaimsValid(logBuffer')
    <3>1. UNCHANGED <<logActive, logLink, logLog>>
      BY <2>1 DEF L!SendBatch
    <3> DEFINE batch == L!BatchOf(logBuffer'.records)
    <3>2. logWire' = <<>> \/ logWire' = <<batch>>
      BY <2>1 DEF L!SendBatch
    <3> HIDE DEF batch
    <3>3. Len(logWire') <= 1
      <4>1. Len(<<batch>>) = 1 /\ Len(<<>>) = 0
        OBVIOUS
      <4>2. Len(logWire') \in {0, 1}
        BY <3>2, <4>1, Zenon
      <4> QED
        BY <4>2
    <3> QED
      BY <3>1, <3>3
  <2>2. CASE ~L!ClaimsValid(logBuffer')
    BY <2>2 DEF L!SendBatch
  <2> QED
    BY <2>1, <2>2
<1>3. Linked' /\ Short' \in SUBSET Short /\ Over' = Over
  BY <1>1, <1>2, LogFacts DEF Linked, L!LinkLost, Over, Short
<1>4. Buffered(b, logGeneration, Over, Short)
  BY BatchKeeps
<1> HIDE DEF b
<1>5. Buffered(b, logGeneration, Over, Short')
  BY <1>3, <1>4, BufferedLess
<1>6. Filed(logSaved', logGeneration, Over)
  BY <1>1, <1>4, LogFacts, PersistedFiled
<1> QED
  BY <1>1, <1>3, <1>5, <1>6, QueueInvariantNext

LEMMA BatchWriteFailsStep == ASSUME L!IInv, L!BatchWriteFails PROVE L!IInv'
<1> DEFINE pruned  == L!Prune(logBuffer)
           flushed == L!FlushCounters(pruned)
           marked  == L!MarkDelayed(flushed)
           counted == [flushed EXCEPT !.uncounted = flushed.uncounted + pruned.uncounted]
<1>1. /\ logBuffer' \in {pruned, counted, marked}
      /\ logSaved' \in {logSaved, L!Persisted(logBuffer), L!Persisted(pruned),
                        L!Persisted(flushed)}
      /\ L!LinkLost /\ UNCHANGED <<logRooted, logLapsed, logGeneration>>
  BY DEF L!BatchWriteFails
<1>2. Linked' /\ Short' = {} /\ Over' = Over
  BY <1>1, LogFacts DEF Linked, L!LinkLost, Over, Short
<1>3. /\ Buffered(pruned, logGeneration, Over, Short)
      /\ Buffered(flushed, logGeneration, Over, Short)
      /\ Buffered(marked, logGeneration, Over, Short)
      /\ Buffered(counted, logGeneration, Over, Short)
  BY BatchKeeps
<1> HIDE DEF pruned, flushed, marked, counted
<1>4. Buffered(logBuffer', logGeneration, Over, {})
  BY <1>1, <1>3, BufferedLess
<1>5. Filed(logSaved', logGeneration, Over)
  BY <1>1, <1>3, LogFacts, PersistedFiled
<1> QED
  BY <1>1, <1>2, <1>4, <1>5, QueueInvariantNext

LEMMA ApplyReceiptsStep ==
  ASSUME L!IInv, NEW fails \in BOOLEAN, L!ApplyReceipts(fails)
  PROVE  L!IInv'
<1> DEFINE b == L!Settled(logBuffer, logWire[1].ids, logWire[1].answer)
<1>1. Buffered(b, logGeneration, Over, Short)
  BY LogFacts, SettledKeeps
<1>2. L!Write(b, fails)
  BY DEF L!ApplyReceipts
<1>3. UNCHANGED <<logGeneration, logLapsed, logRooted>>
  BY DEF L!ApplyReceipts
<1>4. \/ L!LinkLost
      \/ logWire' = <<>> /\ UNCHANGED <<logLink, logLog, logActive>>
  BY DEF L!ApplyReceipts
<1>5. Linked' /\ logActive' \in {logActive, {}}
  BY <1>3, <1>4, LogFacts DEF Linked, L!LinkLost
<1> HIDE DEF b
<1> QED
  BY <1>1, <1>2, <1>3, <1>5, WriteStep

LEMMA WaitStep == ASSUME L!IInv, NEW age \in 1 .. 2, L!Wait(age) PROVE L!IInv'
<1>1. /\ logBuffer' = L!Aged(logBuffer, age) /\ logSaved' = L!Aged(logSaved, age)
      /\ logLapsed' = (IF age = 2 THEN logLapsed \cup (Leases \ LongLeases) ELSE logLapsed)
      /\ UNCHANGED <<logRooted, logActive, logGeneration, logLink, logWire, logLog>>
  BY DEF L!Wait
<1>2. /\ Linked' /\ Over' = (IF age = 2 THEN Leases ELSE Over)
      /\ Short' = (IF age = 2 THEN {} ELSE Short)
  BY <1>1, LogFacts DEF Linked, Over, Short
<1>3. Buffered(logBuffer', logGeneration, Over', Short')
  BY <1>1, <1>2, LogFacts, AgedKeeps
<1>4. Filed(logSaved', logGeneration, Over')
  BY <1>1, <1>2, LogFacts, AgedFiled
<1> QED
  BY <1>1, <1>2, <1>3, <1>4, QueueInvariantNext

LEMMA RestartStep ==
  ASSUME L!IInv, NEW clean \in BOOLEAN, NEW readable \in BOOLEAN, L!Restart(clean, readable)
  PROVE  L!IInv'
<1> DEFINE loaded  == L!Prune([records |-> logSaved.records, claims |-> logSaved.claims,
                               receipts |-> logSaved.receipts, sequence |-> 0, uncounted |-> 0])
           noted   == IF clean THEN loaded
                               ELSE L!Record(loaded, logGeneration + 1, "warn", NoLease)
           started == L!Record(noted, logGeneration + 1, "info", NoLease)
<1>1. /\ logGeneration' = logGeneration + 1 /\ logLapsed' = logLapsed
      /\ L!LinkLost /\ logRooted' \in BOOLEAN
      /\ logRooted' => /\ logBuffer' = started
                       /\ logSaved' = [records |-> started.records, claims |-> started.claims,
                                       receipts |-> started.receipts]
      /\ ~logRooted' => logBuffer' = L!EmptyBuffer /\ logSaved' = logSaved
  BY DEF L!Restart, L!ClaimsValid
<1>2. logGeneration \in Nat /\ logGeneration + 1 \in Nat
  BY LogFacts
<1>3. Linked' /\ Short' = {} /\ Over' = Over /\ LongLeases \subseteq Over
  BY <1>1, <1>2, LogFacts DEF Linked, L!LinkLost, Over, Short
<1>4. Buffered(loaded, logGeneration + 1, Over, {})
  BY <1>2, LogFacts, LoadedKeeps
<1> HIDE DEF loaded
<1>5. Buffered(noted, logGeneration + 1, Over, {})
  BY <1>2, <1>3, <1>4, RecordKeeps
<1> HIDE DEF noted
<1>6. Buffered(started, logGeneration + 1, Over, {})
  BY <1>2, <1>3, <1>5, RecordKeeps
<1> HIDE DEF started
<1>7. CASE logRooted'
  BY <1>1, <1>3, <1>6, <1>7, BufferFiled, QueueInvariantNext
<1>8. CASE ~logRooted'
  BY <1>1, <1>2, <1>3, <1>8, LogFacts, EmptyBuffered, FiledLess, QueueInvariantNext
<1> QED
  BY <1>7, <1>8

\* Every step of the telemetry keeps the queue within its bound, and detail within its lease.
LEMMA LogStep == L!IInv /\ L!Next => L!IInv'
<1> SUFFICES ASSUME L!IInv, L!Next PROVE L!IInv'
  OBVIOUS
<1>1. ASSUME NEW severity \in {"info", "warn"}, NEW fails \in BOOLEAN,
             L!RecordEvent(severity, fails)
      PROVE  L!IInv'
  BY <1>1, RecordEventStep
<1>2. ASSUME NEW forTask \in BOOLEAN, NEW fails \in BOOLEAN, L!RecordCommandSpan(forTask, fails)
      PROVE  L!IInv'
  BY <1>2, RecordCommandSpanStep
<1>3. ASSUME NEW l \in Leases, NEW fails \in BOOLEAN, L!HandleLease(l, fails)
      PROVE  L!IInv'
  BY <1>3, HandleLeaseStep
<1>4. ASSUME NEW l \in Leases, NEW matches \in BOOLEAN, NEW fails \in BOOLEAN,
             L!HandleRevoke(l, matches, fails)
      PROVE  L!IInv'
  BY <1>4, HandleRevokeStep
<1>5. ASSUME NEW fails \in BOOLEAN, L!ExpireLeases(fails) PROVE L!IInv'
  BY <1>5, ExpireLeasesStep
<1>6. ASSUME NEW fails \in BOOLEAN, L!ApplyReceipts(fails) PROVE L!IInv'
  BY <1>6, ApplyReceiptsStep
<1>7. ASSUME NEW age \in 1 .. 2, L!Wait(age) PROVE L!IInv'
  BY <1>7, WaitStep
<1>8. ASSUME NEW clean \in BOOLEAN, NEW readable \in BOOLEAN, L!Restart(clean, readable)
      PROVE  L!IInv'
  BY <1>8, RestartStep
<1> QED
  BY <1>1, <1>2, <1>3, <1>4, <1>5, <1>6, <1>7, <1>8, ChannelStep, SendBatchStep,
     BatchWriteFailsStep DEF L!Next

------------------------------------------------------------------------------
(***************************************************************************)
(* The composition                                                         *)
(***************************************************************************)

\* A step of the Agent is for each component a step of its own or none.
LEMMA ComponentSteps ==
  ASSUME [MCNext]_allVars
  PROVE  /\ Next \/ UNCHANGED vars
         /\ G!Next \/ UNCHANGED processVars
         /\ W!Next \/ UNCHANGED workerVars
         /\ M!Next \/ UNCHANGED musicVars
         /\ T!Next \/ UNCHANGED captureVars
         /\ R!Next \/ UNCHANGED ringVars
         /\ C!Next \/ UNCHANGED wireVars
         /\ H!Next \/ UNCHANGED hubVars
         /\ L!Next \/ UNCHANGED logVars
<1>1. CASE gameStep
  BY <1>1 DEF gameStep, OnlyGame
<1>2. CASE processStep
  BY <1>2 DEF processStep, OnlyProcess
<1>3. CASE workerStep
  BY <1>3 DEF workerStep, OnlyWorker
<1>4. CASE musicStep
  BY <1>4 DEF musicStep, OnlyMusic
<1>5. CASE captureStep
  BY <1>5 DEF captureStep, OnlyCapture
<1>6. CASE ringStep
  BY <1>6 DEF ringStep, OnlyRing
<1>7. CASE wireStep
  BY <1>7 DEF wireStep, OnlyWire
<1>8. CASE hubStep
  BY <1>8 DEF hubStep, OnlyHub
<1>9. CASE logStep
  BY <1>9 DEF logStep, OnlyLog
<1>10. CASE UNCHANGED allVars
  BY <1>10 DEF allVars
<1> QED
  BY <1>1, <1>2, <1>3, <1>4, <1>5, <1>6, <1>7, <1>8, <1>9, <1>10 DEF MCNext

LEMMA GameStutter == IInv /\ UNCHANGED vars => IInv'
  BY DEF vars, IInv, TypeOK, NamedInv, GateInv

LEMMA ProcessStutter == G!IInv /\ UNCHANGED processVars => G!IInv'
  BY DEF processVars, G!IInv, G!TypeOK, G!StepInv, G!LifeInv, G!LaunchedIsHeld, G!Up

LEMMA HubStutter == H!IInv /\ UNCHANGED hubVars => H!IInv'
  BY DEF hubVars, H!IInv, H!TypeOK, H!RegistrationInv, H!CandidateInv, H!PointerNamesWhole

\* GamesAccounted for any games, policies and processes, any writes that fail and any
\* number of lost connections: a game that was closed for idleness is named by a receipt or
\* by the gate, one that was launched ends with its Agent, and one that was closed is gone
\* (managed_game.rs, begin_close; execution.rs, start_task_target, close_with_progress).
THEOREM Accounted == MCSpec => []GamesAccounted
<1>1. MCInit => IInv /\ G!IInv
  BY GameInit, ProcessInit DEF MCInit
<1>2. IInv /\ G!IInv /\ [MCNext]_allVars => IInv' /\ G!IInv'
  BY ComponentSteps, GameStep, GameStutter, ProcessStep, ProcessStutter
<1>3. IInv /\ G!IInv => GamesAccounted
  <2>1. G!IInv => G!LaunchedIsHeld /\ G!ClosedIsGone
    BY DEF G!IInv, G!LifeInv, G!ClosedIsGone, G!Up
  <2> QED
    BY <2>1, GameAccounted DEF GamesAccounted
<1> QED
  BY <1>1, <1>2, <1>3, PTL DEF MCSpec

\* PointerNamesWhole for any interleaving of the registration, the supervisor and other
\* processes: current.json names a complete generation, or one that was tidied away between
\* its validation and the replacement, and such a one is never installed (enrollment.rs,
\* persist; cleanup_retired_generations).
THEOREM PointerWhole == MCSpec => []PointerNamesWhole
<1>1. MCInit => H!IInv
  BY HubInit DEF MCInit
<1>2. H!IInv /\ [MCNext]_allVars => H!IInv'
  BY ComponentSteps, HubStep, HubStutter
<1>3. H!IInv => PointerNamesWhole
  BY DEF H!IInv, PointerNamesWhole
<1> QED
  BY <1>1, <1>2, <1>3, PTL DEF MCSpec

\* InputsInOrder for any contracts and commands, repeated in any order and over any number
\* of sessions: an input reaches the device once and in order, under the contract of the
\* attempt that runs (v3_adapter.rs, translate_input_frame, accept_begin; control.rs,
\* verify_command_sequence).
THEOREM InOrder == MCSpec => []InputsInOrder
<1>1. MCInit => C!IInv
  BY TranslatorInit DEF MCInit
<1>2. C!IInv /\ [MCNext]_allVars => C!IInv'
  BY ComponentSteps, TranslatorStep, TranslatorStutter
<1>3. C!IInv => InputsInOrder
  BY DEF C!IInv, InputsInOrder
<1> QED
  BY <1>1, <1>2, <1>3, PTL DEF MCSpec

\* ReleaseProven for any keys, windows and faults, with a program that presses keys on its
\* own and a Worker that may fail anywhere: a release the Agent has reported as done leaves
\* no key down, and nothing that could press one (worker_platform.rs, release_emergency).
THEOREM Released == MCSpec => []ReleaseProven
<1>1. MCInit => W!IInv
  BY WorkerInit DEF MCInit
<1>2. W!IInv /\ [MCNext]_allVars => W!IInv'
  BY ComponentSteps, WorkerStep, WorkerStutter
<1>3. W!IInv => ReleaseProven
  BY DEF W!IInv, ReleaseProven
<1> QED
  BY <1>1, <1>2, <1>3, PTL DEF MCSpec

\* ActsOnWhatItSaw for any windows and capture sources, any interleaving of the streams, the
\* readers and the executor, and any number of frames, targets and Workers: input goes to the
\* window and is decided on the newest frame the Hub has seen, that frame is whole, and it
\* is the one the Worker knows by its number, but for the frames that the two modules name:
\* of a generation whose failed capture took the counter, read after a skipped number, of
\* a number another source has had as well, or bound after their Worker was replaced
\* (execution.rs, execute_v3_input_frame; frame_ring.rs, publish; generic_controller.rs,
\* require_source_frame).
THEOREM OnWhatItSaw == MCSpec => []ActsOnWhatItSaw
<1>1. MCInit => T!IInv /\ R!IInv
  BY CaptureInit, RingInit DEF MCInit
<1>2. T!IInv /\ R!IInv /\ [MCNext]_allVars => T!IInv' /\ R!IInv'
  BY ComponentSteps, CaptureStep, CaptureStutter, RingStep, RingStutter
<1>3. T!IInv /\ R!IInv => ActsOnWhatItSaw
  BY RingSeen DEF T!IInv, ActsOnWhatItSaw
<1> QED
  BY <1>1, <1>2, <1>3, PTL DEF MCSpec

\* FollowsTheScreen for any number of lanes and any depth of the channel, with a sampler and
\* an engine that never wait for each other and input that may fail half-way: while the
\* program runs and has dropped nothing, the keys that are down and the transitions that
\* wait add up to the last sample (music_engine.rs, row_loop, run_genshin_music;
\* input_batch.rs, apply).
THEOREM Followed == MCSpec => []FollowsTheScreen
<1>1. MCInit => M!IInv
  BY MusicInit DEF MCInit
<1>2. M!IInv /\ [MCNext]_allVars => M!IInv'
  BY ComponentSteps, MusicStep, MusicStutter
<1>3. M!IInv => FollowsTheScreen
  BY DEF M!IInv, FollowsTheScreen
<1> QED
  BY <1>1, <1>2, <1>3, PTL DEF MCSpec

\* DetailWithinLease for any leases, a queue of any capacity and any number of events,
\* restarts, lost connections and failed writes: a detailed record lies within its lease,
\* unless that outlives its receipt (telemetry.rs, record_command_span, handle_lease,
\* handle_revoke, expire_leases, prune, load).
THEOREM WithinLease == MCSpec => []DetailWithinLease
<1>1. MCInit => L!IInv
  BY LogInit DEF MCInit
<1>2. L!IInv /\ [MCNext]_allVars => L!IInv'
  BY ComponentSteps, LogStep, LogStutter
<1>3. L!IInv => DetailWithinLease
  BY DEF L!IInv, DetailWithinLease
<1> QED
  BY <1>1, <1>2, <1>3, PTL DEF MCSpec

\* TypesOK: every component stays in its states, and every queue within its bound.
THEOREM Typed == MCSpec => []TypesOK
<1> DEFINE Inv == /\ IInv /\ G!IInv /\ W!IInv /\ M!IInv /\ T!IInv
                  /\ R!IInv /\ C!IInv /\ H!IInv /\ L!IInv
<1>1. MCInit => Inv
  BY GameInit, ProcessInit, WorkerInit, MusicInit, CaptureInit, RingInit, TranslatorInit,
     HubInit, LogInit DEF MCInit
<1>2. Inv /\ [MCNext]_allVars => Inv'
  <2> SUFFICES ASSUME Inv, [MCNext]_allVars PROVE Inv'
    OBVIOUS
  <2>1. IInv' /\ G!IInv' /\ W!IInv'
    BY ComponentSteps, GameStep, GameStutter, ProcessStep, ProcessStutter, WorkerStep,
       WorkerStutter
  <2>2. M!IInv' /\ T!IInv' /\ R!IInv'
    BY ComponentSteps, MusicStep, MusicStutter, CaptureStep, CaptureStutter, RingStep,
       RingStutter
  <2>3. C!IInv' /\ H!IInv' /\ L!IInv'
    BY ComponentSteps, TranslatorStep, TranslatorStutter, HubStep, HubStutter, LogStep,
       LogStutter
  <2> QED
    BY <2>1, <2>2, <2>3
<1>3. Inv => TypesOK
  BY DEF TypesOK, IInv, G!IInv, W!IInv, M!IInv, T!IInv, R!IInv, C!IInv, H!IInv, L!IInv
<1> HIDE DEF Inv
<1> QED
  BY <1>1, <1>2, <1>3, PTL DEF MCSpec

==============================================================================
