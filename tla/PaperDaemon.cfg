\* Two processes, two starts, two artifacts, fixtures of two or three intents.
CONSTANTS
  s1 = s1
  s2 = s2
  Processes = {p1, p2}
  Symbols = {s1, s2}
  Fixtures <- MCFixtures
  Artifacts = 2
  Authorities <- MCAuthorities
  MaxPerSymbol = 2
  MaxAggregate = 3
  MaxStarts = 2
SYMMETRY ProcessSymmetry
SPECIFICATION Spec
INVARIANTS
  LimitsHold
  EveryIntentSettled
  BlocksAgree
  AuthorityRespected
CHECK_DEADLOCK FALSE
