SPECIFICATION GitSpec
CONSTANTS
  Modes = {"karpathy"}
  MaxIterations <- MCIterations
  RunBudget = 4
  MaxStagnation = 2
  MaxPlateau = 1
  Labels = {"stress", "holdout"}
  StopGroups <- MCStopGroups
  NoScore = NoScore
  Scores <- LossesAndZero
  Outcomes <- MCOutcomes
  Refinements <- MCRefinements
INVARIANTS IncumbentIsBest
