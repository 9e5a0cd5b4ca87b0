SPECIFICATION Spec
SYMMETRY Symmetry
CONSTANTS
    Attempts = {a1}
    CommandIds = {c1, c2, c3, c4}
    Payloads <- LimitPayloads
    KindOf <- LimitKindOf
    BusinessLimit = 3
    InspectLimit = 0
    ReleaseLimit = 0
    FinishLimit = 1
    NoAttempt = NoAttempt
    NoResult = NoResult
    NoLedger = NoLedger
    TornLedger = TornLedger
    NoRequest = NoRequest
    PersistModes = {"ok", "torn"}
    FinishModes = {"ok", "torn"}
    ReleaseResults = {TRUE}
    Crashes = FALSE
    ReadFailures = FALSE
INVARIANTS
    AnswersTrue
    ResolvedBeforeNext
    RecoveryReserve
