\* Three ids for two open orders and a history of one, orders of up to two lots: the
\* exposure arithmetic, eviction, the cap, id reuse, the refinement of the ledger, and the
\* liveness of the ack timeout under fair sweeping and a running clock.
SPECIFICATION FairSpec
CONSTANTS
  A = A
  Symbol <- OneSymbol
  MaxOpenOrders = 2
  RetiredHistory = 1
  AckTimeout = 1
  MaxId = 3
  MaxQuantity = 2
  MaxLots = 3
  MaxBreaks = 2
  StrictSnapshots = TRUE
INVARIANTS
  TypeOK
  ExposureExact
  LeavesExact
  BooksBalance
PROPERTIES
  TerminalIsFinal
  ImplementsLedger
  UnansweredIsResolved
  WorkingIsNeverForgotten
  IssuedIdsAreUnique
