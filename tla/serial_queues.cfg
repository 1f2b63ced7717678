SPECIFICATION Spec
CONSTANTS
  None = None
  Users = {u1, u2, u3, u4}
  Piles <- TwoFast
  PilePower <- ModelPower
  PileType <- AllFast
  Amounts = {1, 2}
  Wishes <- FastTwo
  Grain = 2
  WaitingAreaSize = 2
  ChargingQueueLen = 2
  MaxOrders = 4
  MaxSessions = 3
  MaxNumber = 3
  MaxSuffixes = 2
  Slots = {s1}
  TrackCache = FALSE
  Ops <- QueueOps
  Spots = {2}
  UiDiscipline = TRUE
  Mishaps = {}
SYMMETRY Symmetric
CHECK_DEADLOCK FALSE
INVARIANTS
  TypeOK
  OneUnfinishedOrder
  PileStoryAgrees
  FaultQueueMoved
  QueueWithinCapacity
PROPERTIES
  RemainderWithinRounding
