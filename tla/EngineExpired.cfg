\* An order swept while it is still on the wire.
SPECIFICATION Spec
CONSTANTS
  A = A
  B = B
  Symbol <- OneSymbol
  MaxOpenOrders = 2
  RetiredHistory = 4
  AckTimeout = 2
  RiskEnabled = TRUE
  MaxOrderQuantity = 2
  MaxPosition = 2
  InstrumentLimit <- NoInstrumentLimit
  MaxGrossPosition = 3
  Price = {4}
  FeeBps = 0
  MaxDrawdown = 0
  MaxDailyOrders = 9
  MaxOrdersPerSecond = 0
  Threaded = TRUE
  OrderQuantity = 1
  VenueLatency = 2
  HaltOnTimeout = TRUE
  JournalMayFail = FALSE
  MaxOrders = 1
INVARIANTS
  BookedIsHeld
