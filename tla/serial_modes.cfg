SPECIFICATION Spec
CONSTANTS
  None = None
  Users = {u1, u2}
  Piles <- TwoFast
  PilePower <- ModelPower
  PileType <- FastAndSlow
  Amounts = {1, 2}
  Wishes <- FastOrSlow
  Grain = 3
  WaitingAreaSize = 1
  ChargingQueueLen = 2
  MaxOrders = 2
  MaxSessions = 2
  MaxNumber = 3
  MaxSuffixes = 2
  Slots = {s1}
  TrackCache = TRUE
  Ops <- ModeOps
  Spots = {2}
  UiDiscipline = TRUE
  Mishaps = {}
SYMMETRY Symmetric
CHECK_DEADLOCK FALSE
INVARIANTS
  WaitingWithinArea
  PileStoryAgrees
  CacheMatches
PROPERTIES
  LifecycleHolds
