\* Any report on the wire may overtake the others, one may be repeated; finished orders are
\* forgotten.
SPECIFICATION Spec
CONSTANTS
  A = A
  Symbol <- OneSymbol
  MaxOpenOrders = 2
  RetiredHistory = 1
  AckTimeout = 1
  MaxId = 2
  MaxQuantity = 2
  MaxInFlight = 3
  MaxDuplicates = 1
INVARIANTS
  TypeOK
  LiveAtVenueIsCovered
  ExecutionsAreBooked
  AgreeOrCounted
  SilentDuplicateIsAFill
