SPECIFICATION FairSpec
CONSTANTS
  profile = profile
  game = game
  other = other
  k = k
  p = p
  b = b
  HoldKeys = {k}
  PulseKeys = {p}
  Buttons = {b}
  Keys = {k, p, b}
  Sessions = {1, 2}
  Profiles = {profile}
  Windows = {game, other}
  None = None
  Fits <- MCFits
  MaxTime = 1
  MaxLease = 1
  MaxSequence = 2
  MaxGuardian = 4
  ClickHold = 1
  MaxFaults = 2
INVARIANTS TypeOK HoldsGuarded ControlEarned
PROPERTIES AppliedOnce LeftoversReleased
