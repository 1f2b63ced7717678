SPECIFICATION Spec
CONSTANTS
  None = None
  Users = {u1, u2, u3}
  Piles <- OneFast
  PilePower <- ModelPower
  PileType <- AllFast
  Amounts = {1}
  Wishes <- FastOne
  Grain = 1
  WaitingAreaSize = 2
  ChargingQueueLen = 2
  MaxOrders = 3
  MaxSessions = 3
  MaxNumber = 3
  MaxSuffixes = 2
  Slots = {s1, s2}
  TrackCache = FALSE
  Ops = {"submit", "basic", "cancel"}
  Spots = {2}
  UiDiscipline = TRUE
  Mishaps = {}
SYMMETRY Symmetric
CHECK_DEADLOCK FALSE
PROPERTIES
  TerminalIsFinal
