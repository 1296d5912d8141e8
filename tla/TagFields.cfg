SPECIFICATION Spec
CONSTANTS
  NotANumber = NotANumber
  None = None
  TagOrders <- Orders
  Texts <- ManyTexts
  Bytes <- SomeBytes
  SharedRatings <- SomeShared
  MaxFields = 3
CHECK_DEADLOCK FALSE
INVARIANTS
  TagTypeOK
  RatedNotCleared
  OwnFieldWins
  ReadByOrderOfSources
