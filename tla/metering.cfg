SPECIFICATION MeteringSpec
CONSTANTS
  None = None
  Speeds = {0, 47}
  Starts <- Evenings
  MaxElapsed = 4
  MaxSettings = 1
  MaxBoots = 2
  Power <- OneOfEach
  Requests = {400}
  Tariffs <- ModelTariffs
  MaxBills = 2
CHECK_DEADLOCK FALSE
INVARIANTS
  ClockTypeOK
  BilledByTheCalendar
  CompletedInFull
  NothingOwedBack
  RevenueAddsUp
  DayWithinWeekAndMonth
PROPERTIES
  ClockRunsOn
  MeterNeverShrinks
  BillAgreesWithMeter
