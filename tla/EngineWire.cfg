\* Threaded, orders on the wire for two ticks, an ack timeout no longer than that, any append
\* may fail; a requested stop ends the run whatever is on the wire.
SPECIFICATION FairSpec
CONSTANTS
  A = A
  B = B
  Symbol <- OneSymbol
  MaxOpenOrders = 2
  RetiredHistory = 4
  AckTimeout = 2
  RiskEnabled = TRUE
  MaxOrderQuantity = 2
  MaxPosition = 4
  InstrumentLimit <- NoInstrumentLimit
  MaxGrossPosition = 4
  Price = {4}
  FeeBps = 2500
  MaxDrawdown = 1
  MaxDailyOrders = 9
  MaxOrdersPerSecond = 1
  Threaded = TRUE
  OrderQuantity = 2
  VenueLatency = 2
  HaltOnTimeout = TRUE
  JournalMayFail = TRUE
  MaxOrders = 2
INVARIANTS
  TypeOK
  WireIsComplete
  DifferenceIsExplained
  NothingOutstanding
  UnjournaledStopsTheRun
PROPERTIES
  NoOrderOnFaultedFeed
  StopEndsTheRun
