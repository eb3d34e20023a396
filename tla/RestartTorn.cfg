SPECIFICATION Spec
CONSTANTS
  Symbol <- OneSymbol
  MaxOpenOrders = 2
  RetiredHistory = 4
  AckTimeout = 1
  Units = 2
  SyncInterval = 2
  Policies <- OnWriteOnly
  PowerMayFail = FALSE
  WritesMayTear = TRUE
  WritesMayFail = FALSE
  AllowUnclean = FALSE
  Sides <- Buys
  MaxSession = 3
  MaxOrders = 2
  MaxQuantity = 1
CHECK_DEADLOCK FALSE
INVARIANTS
  IdsAreFresh
