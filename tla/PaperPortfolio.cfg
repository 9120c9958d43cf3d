SPECIFICATION Spec
CONSTANTS
  Artifacts = 3
  Symbols = {"BTC", "ETH"}
  Roles = {"core", "carry"}
  MaxPerSymbol = 4
  MaxGross = 6
  DrawdownBudget = 4
  RoleShare <- TwoThirds
  Profiles <- MCProfiles
  MaxTicks = 3
  MaxChanges = 2
CHECK_DEADLOCK FALSE
INVARIANTS TypeOK PlanWithinLimits EveryCandidateAnswered PausedStaysOut LinkedPlanPersisted
