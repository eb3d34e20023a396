SPECIFICATION Spec
CONSTANTS
  Item <- ThreeMessages
  Blank = 0
  Capacity = 2
  HaltOnGap = TRUE
  ToleratedGap = 1
  StaleAfter = 1
  MaxMessages = 3
  MaxSequence = 4
INVARIANTS
  TypeOK
  NothingIsLeftBehind
  MissingIsExact
  TradesOnAWholeBook
PROPERTIES
  ImplementsChannel
  RunEnds
  SilenceHalts
