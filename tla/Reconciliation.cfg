\* One run of the command among other runs, three ledger rows.
CONSTANTS
  o1 = o1
  o2 = o2
  f1 = f1
  f2 = f2
  s1 = s1
  Orders = {o1}
  FillIds = {f1, f2}
  Symbols = {s1}
  Statuses = {"ORDER_ACK", "FILL"}
  Reasons = {"spread"}
  NoOrder = NoOrder
  NoFill = NoFill
  NoPrice = NoPrice
  NoRow = NoRow
  Fills <- PartialFills
  Prices = {2}
  ReduceOnly = {o1}
  MaxReports = 3
  MaxRuns = 1
CHECK_DEADLOCK FALSE
SPECIFICATION ReconcileSpec
INVARIANTS
  MatchedIsTrue
  CompleteLedgerMatches
  BlockedIsPaused
