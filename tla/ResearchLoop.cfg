SPECIFICATION GitSpec
CONSTANTS
  Modes = {"bounded", "karpathy"}
  MaxIterations <- MCIterations
  RunBudget = 4
  MaxStagnation = 2
  MaxPlateau = 1
  Labels = {"stress", "holdout"}
  StopGroups <- MCStopGroups
  NoScore = NoScore
  Scores <- LossAndGain
  Outcomes <- MCOutcomes
  Refinements <- MCRefinements
INVARIANTS StopsAreReal EachIterationOnce IncumbentIsBest LineageFollowsKept NoPayloadLost ReplayFollowsLoop
PROPERTIES Terminates
