SPECIFICATION Spec
CONSTANTS
  Artifacts = 1
  Symbols = {"BTC"}
  Roles = {"core", "carry"}
  MaxPerSymbol = 3
  MaxGross = 6
  DrawdownBudget = 4
  RoleShare <- TwoThirds
  Profiles <- OneArtifact
  MaxTicks = 3
  MaxChanges = 0
CHECK_DEADLOCK FALSE
INVARIANTS ReduceOnlyReduces
