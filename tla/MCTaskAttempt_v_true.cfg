SPECIFICATION Spec
SYMMETRY Symmetry
CONSTANTS
    Attempts = {a1, a2}
    CommandIds = {c1, c2}
    Payloads <- InputPayloads
    KindOf <- InputKindOf
    BusinessLimit = 8
    InspectLimit = 8
    ReleaseLimit = 8
    FinishLimit = 8
    NoAttempt = NoAttempt
    NoResult = NoResult
    NoLedger = NoLedger
    TornLedger = TornLedger
    NoRequest = NoRequest
    PersistModes = {"ok"}
    FinishModes = {"ok"}
    ReleaseResults = {TRUE}
    Crashes = TRUE
    ReadFailures = FALSE
INVARIANTS
    AnswersTrue
