SPECIFICATION MCSpec
CONSTANTS
  g = g
  Games = {g}
  Policies <- MCPolicies
  Profile <- MCProfile
  Profiles = {"p"}
  Nothing = Nothing
  Failing = {"begin", "receipt", "ack", "release", "activity"}
  MaxDrops = 1
  Processes = {p1, q}
  p1 = p1
  Nobody = Nobody
  MaxWindows = 1
  Holds = {k}
  Targets = {t1, t2}
  NoTarget = NoTarget
  MaxFaults = 2
  LaneCount = 2
  MaximumQueueDepth = 2
  Windows = {w1, w2}
  NoWindow = NoWindow
  MaxGenerations = 2
  MaxFrames = 2
  Sources = {s}
  NoSource = NoSource
  MaxNumber = 3
  MaxPublic = 2
  MaxWorkers = 2
  Attempts = {a1, a2}
  a1 = a1
  c1 = c1
  c2 = c2
  NoAttempt = NoAttempt
  BeginId = b
  Uses = {{}, {4}}
  MaxSequence = 1
  MaxInput = 2
  MaxAccepts = 2
  MaxEnrolments = 3
  Leases = {a}
  AgentLeases = {a}
  LongLeases = {}
  NoLease = NoLease
  Capacity = 2
  BatchSize = 1
  MaxEvents = 1
  MaxMishaps = 1
INVARIANTS
  TypesOK
  GamesAccounted
  ReleaseProven
  FollowsTheScreen
  ActsOnWhatItSaw
  InputsInOrder
  
  DetailWithinLease
PROPERTIES
  ReceiptDelivered
  ExpiredKeysRise
  ReplacedSessionEnds
  QueueDrains
CHECK_DEADLOCK FALSE
