SPECIFICATION Spec
SYMMETRY Symmetry
CONSTANTS
    Attempts = {a1, a2}
    CommandIds = {c1, c2}
    Payloads <- NamedPayloads
    KindOf <- NamedKindOf
    BusinessLimit = 8
    InspectLimit = 8
    ReleaseLimit = 8
    FinishLimit = 8
    NoAttempt = NoAttempt
    NoResult = NoResult
    NoLedger = NoLedger
    TornLedger = TornLedger
    NoRequest = NoRequest
    PersistModes = {"ok", "torn"}
    FinishModes = {"ok", "torn"}
    ReleaseResults = {TRUE}
    Crashes = TRUE
    ReadFailures = TRUE
INVARIANTS
    TypeOK
    AtMostOnce
    SessionOwnsLiveAttempt
    OneLiveLedger
PROPERTIES
    GateSpec
