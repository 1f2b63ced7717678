SPECIFICATION FairSpec
CONSTANTS
  None = None
  Users = {u1, u2}
  Piles <- OneFast
  PilePower <- ModelPower
  PileType <- AllFast
  Amounts = {1}
  Wishes <- FastOne
  Grain = 1
  WaitingAreaSize = 2
  ChargingQueueLen = 2
  MaxOrders = 2
  MaxSessions = 4
  MaxNumber = 3
  MaxSuffixes = 2
  Slots = {s1, s2}
  TrackCache = FALSE
  Ops <- LiveOps
  Spots = {2}
  UiDiscipline = TRUE
  Mishaps = {"restart", "expiry", "redisDown"}
CHECK_DEADLOCK FALSE
PROPERTIES
  HandlersFinish
