SPECIFICATION Spec
CONSTANTS
  None = None
  Users = {u1, u2, u3, u4}
  Piles <- TwoFast
  PilePower <- ModelPower
  PileType <- AllFast
  Amounts = {1}
  Wishes <- FastOne
  Grain = 1
  WaitingAreaSize = 2
  ChargingQueueLen = 2
  MaxOrders = 4
  MaxSessions = 4
  MaxNumber = 3
  MaxSuffixes = 2
  Slots = {s1}
  TrackCache = FALSE
  Ops = {"submit", "basic", "stop", "fault", "rescheduleTimeOrder"}
  Spots = {2}
  UiDiscipline = TRUE
  Mishaps = {}
SYMMETRY Symmetric
CHECK_DEADLOCK FALSE
INVARIANTS
  QueueWithinCapacity
