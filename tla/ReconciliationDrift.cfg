\* The runbook's "position mismatch" trigger: three ledger rows suffice.
CONSTANTS
  o1 = o1
  o2 = o2
  f1 = f1
  f2 = f2
  s1 = s1
  Orders = {o1, o2}
  FillIds = {f1, f2}
  Symbols = {s1}
  Statuses = {"ORDER_ACK", "FILL"}
  Reasons = {"spread"}
  NoOrder = NoOrder
  NoFill = NoFill
  NoPrice = NoPrice
  NoRow = NoRow
  Fills <- RoundTrip
  Prices = {}
  ReduceOnly = {}
  MaxReports = 3
  MaxRuns = 1
CHECK_DEADLOCK FALSE
SPECIFICATION ReconcileSpec
INVARIANTS
  PositionMismatchDetected
