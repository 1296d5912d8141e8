SPECIFICATION Spec
CONSTANTS
  NotANumber = NotANumber
  None = None
  TagOrders <- Few
  Texts = {3000, 7000}
  Bytes = {0, 186}
  SharedRatings <- SomeShared
  MaxFields = 2
CHECK_DEADLOCK FALSE
INVARIANTS
  ReadAsDocumented
