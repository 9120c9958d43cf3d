SPECIFICATION Spec
CONSTANTS
  Streams = {trade, depth}
  MaxAttempts = 2
  MaxMessages = 3
  MaxDuration = 2
  NoMessageTimeout = 1
  TouchEvery = 1
  MaxNumber = 3
  MaxItems <- MCItems
  MaxRuns = 2
  StartBefore = 0
  MaxTime = 3
CHECK_DEADLOCK FALSE
INVARIANTS FinishedIsDurable SummaryCountsRows LossBounded
PROPERTY Settles
