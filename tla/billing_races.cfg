SPECIFICATION Spec
CONSTANTS
  None = None
  Users = {u1, u2}
  Piles <- OneFast
  PilePower <- ModelPower
  PileType <- AllFast
  Amounts = {1}
  Wishes <- FastOne
  Grain = 1
  WaitingAreaSize = 2
  ChargingQueueLen = 2
  MaxOrders = 2
  MaxSessions = 3
  MaxNumber = 3
  MaxSuffixes = 2
  Slots = {s1, s2}
  TrackCache = FALSE
  Ops <- RaceOps
  Spots = {2}
  UiDiscipline = FALSE
  Mishaps = {"restart"}
SYMMETRY Symmetric
CHECK_DEADLOCK FALSE
INVARIANTS
  LockExclusive
  ClosedSessionBilled
  PileCountsMatchBills
  PileEnergyMatchesBills
PROPERTIES
  BillsFrozen
  LedgerHolds
