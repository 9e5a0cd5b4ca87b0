SPECIFICATION Spec
SYMMETRY Symmetry
CONSTANTS
    Attempts = {a1}
    CommandIds = {c1, c2, c3}
    Payloads <- CleanupPayloads
    KindOf <- CleanupKindOf
    BusinessLimit = 8
    InspectLimit = 8
    ReleaseLimit = 8
    FinishLimit = 8
    NoAttempt = NoAttempt
    NoResult = NoResult
    NoLedger = NoLedger
    TornLedger = TornLedger
    NoRequest = NoRequest
    PersistModes = {"ok", "torn"}
    FinishModes = {"ok"}
    ReleaseResults = {TRUE}
    Crashes = TRUE
    ReadFailures = FALSE
INVARIANTS
    LedgerReloads
    AnswersAgree
PROPERTIES
    TerminalIsFinal
