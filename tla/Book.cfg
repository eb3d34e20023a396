SPECIFICATION Spec
CONSTANTS
  WordBits = 2
  Id <- FiveIds
  Mix <- FiveHomes
  IndexSlots = 4
  MinPrice = 3
  MaxPrice = 13
  TickSize = 2
  Price = {4, 5, 12, 14}
  Quantity = {1, 2}
  Owner <- Owners
  Policy = {"CancelResting", "CancelAggressor"}
  MaxResting = 2
INVARIANTS
  TypeOK
  StructureIsSound
  DepthIsTheBook
  ImplementsPriceTime
