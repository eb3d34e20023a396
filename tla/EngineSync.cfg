\* No modelled latency, inline, two instruments of which one is tighter: the limits.
SPECIFICATION Spec
CONSTANTS
  A = A
  B = B
  Symbol <- TwoSymbols
  MaxOpenOrders = 2
  RetiredHistory = 4
  AckTimeout = 2
  RiskEnabled = TRUE
  MaxOrderQuantity = 2
  MaxPosition = 3
  InstrumentLimit <- OneTightInstrument
  MaxGrossPosition = 3
  Price = {12, 24}
  FeeBps = 2500
  MaxDrawdown = 18
  MaxDailyOrders = 9
  MaxOrdersPerSecond = 0
  Threaded = FALSE
  OrderQuantity = 2
  VenueLatency = 0
  HaltOnTimeout = TRUE
  JournalMayFail = FALSE
  MaxOrders = 3
INVARIANTS
  PositionWithinLimit
  GateKnowsThePosition
  MoneyIsConserved
