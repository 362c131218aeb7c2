CONSTANTS
  a = a
  b = b
  Listed <- MCListed
  Setups <- MCSetups
  Prices = {2, 4}
  StartingCash = 16777216
  Bps = 2
  SlippageBps = 1
  FeeBps = 1
  WeightUnit = 4
  SizerMax = 2
  KellyWeight = 3
  PositionMax = 1
  GrossMax = 4
  LossMax = 1
  Fast = 2
  Slow = 3
  AtrWindow = 2
  BandWindow = 3
  BandStd = 1
  Lookback = 3
  EntryZ = 1
  Formation = 2
  Skip = 1
  MinUniverse = 2
  DriftWindow = 2
  NewsCloses = 2
  LiveSpan = 3
  LiveDelay = 0
  MaxBars = 5
SPECIFICATION Spec
INVARIANTS TypeOK OnTarget TradesAccountForBook 
CHECK_DEADLOCK FALSE
