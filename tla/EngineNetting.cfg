\* Buys and sells on the wire at once.
SPECIFICATION Spec
CONSTANTS
  A = A
  B = B
  Symbol <- OneSymbol
  MaxOpenOrders = 3
  RetiredHistory = 4
  AckTimeout = 2
  RiskEnabled = TRUE
  MaxOrderQuantity = 2
  MaxPosition = 1
  InstrumentLimit <- NoInstrumentLimit
  MaxGrossPosition = 2
  Price = {4}
  FeeBps = 0
  MaxDrawdown = 0
  MaxDailyOrders = 9
  MaxOrdersPerSecond = 0
  Threaded = TRUE
  OrderQuantity = 1
  VenueLatency = 1
  HaltOnTimeout = TRUE
  JournalMayFail = FALSE
  MaxOrders = 3
INVARIANTS
  PositionWithinLimit
