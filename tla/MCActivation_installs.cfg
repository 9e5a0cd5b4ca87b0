SPECIFICATION FairSpec
CONSTANTS
  Suites = {a, b}
  None = None
  Guardians = {g1, g2}
  MaxInstalls = 3
  MaxMishaps = 2
INVARIANTS
  TypeOK
  ActiveInstalled
  FallbackInstalled
  PendingMatches
  FailedInstallUndone
PROPERTIES
  Decided
CHECK_DEADLOCK FALSE
