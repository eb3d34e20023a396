SPECIFICATION Spec
CONSTANTS
  Symbol <- OneSymbol
  MaxOpenOrders = 2
  RetiredHistory = 4
  AckTimeout = 1
  Units = 2
  SyncInterval = 2
  Policies <- AnyPolicy
  PowerMayFail = TRUE
  WritesMayTear = TRUE
  WritesMayFail = TRUE
  AllowUnclean = FALSE
  Sides <- Buys
  MaxSession = 3
  MaxOrders = 2
  MaxQuantity = 1
CHECK_DEADLOCK FALSE
INVARIANTS
  TypeOK
  NothingLiveIsUntracked
  ReuseFollowsDamage
  RecoveryIsHonest
  PoliciesBoundTheLoss
