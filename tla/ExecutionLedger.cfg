\* Two overlapping writers, three rows, one rebuilder.
CONSTANTS
  o1 = o1
  o2 = o2
  f1 = f1
  f2 = f2
  s1 = s1
  s2 = s2
  Orders = {o1, o2}
  FillIds = {f1, f2}
  Symbols = {s1, s2}
  Statuses = {"NEW", "PART"}
  Reasons = {"spread"}
  NoOrder = NoOrder
  NoFill = NoFill
  NoPrice = NoPrice
  NoRow = NoRow
  Writers = {1, 2}
  Events <- MCEvents
  MaxEvents = 3
SPECIFICATION Spec
INVARIANTS
  TypeOK
  FillsExactlyOnce
  BooksBalance
  ChainRooted
  DeliveryOrderIrrelevant

PROPERTIES
  ImplementsProjectedLedger
