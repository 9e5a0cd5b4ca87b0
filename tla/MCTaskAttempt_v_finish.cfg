SPECIFICATION Spec
SYMMETRY Symmetry
CONSTANTS
    Attempts = {a1, a2}
    CommandIds = {c1, c2, c3}
    Payloads <- FinishPayloads
    KindOf <- FinishKindOf
    BusinessLimit = 2
    InspectLimit = 0
    ReleaseLimit = 0
    FinishLimit = 1
    NoAttempt = NoAttempt
    NoResult = NoResult
    NoLedger = NoLedger
    TornLedger = TornLedger
    NoRequest = NoRequest
    PersistModes = {"ok"}
    FinishModes = {"lost"}
    ReleaseResults = {TRUE}
    Crashes = FALSE
    ReadFailures = FALSE
INVARIANTS
    AtMostOnce
