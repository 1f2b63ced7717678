SPECIFICATION Spec
CONSTANTS
  None = None
  Users = {u1, u2}
  Piles <- TwoFast
  PilePower <- ModelPower
  PileType <- AllFast
  Amounts = {1, 2}
  Wishes <- FastTwo
  Grain = 1
  WaitingAreaSize = 2
  ChargingQueueLen = 2
  MaxOrders = 3
  MaxSessions = 3
  MaxNumber = 3
  MaxSuffixes = 2
  Slots = {s1}
  TrackCache = FALSE
  Ops <- UiOps
  Spots = {2}
  UiDiscipline = TRUE
  Mishaps = {}
SYMMETRY Symmetric
CHECK_DEADLOCK FALSE
INVARIANTS
  RemainderContinued
