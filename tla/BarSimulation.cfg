SPECIFICATION Spec
CONSTANTS
  Bars = 5
  Prices = {1000, 2000}
  Depths = {0, 8, 16}
  FullSize = 16
  Leverage = 2
  FeeBps = 4
  SlipBps = 2
  LiquidationBps = 50
  AdverseBps = 100
  FundingBps = 1
  Settings <- MCSettings
CHECK_DEADLOCK FALSE
INVARIANTS EnginesAgree PnlIsCash FillsInOrder
