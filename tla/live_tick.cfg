CONSTANTS
  Delta = 2
  WindowBars = 2
  PageLimit = 1
  WeightUnit = 100
  SizerMax = 10
  KellyWeight = 25
  PositionMax = 10
  GrossMax = 100
  LossMax = 2
  AlertLoss = 1
  Navs = {100, 98, 97}
  UsualNav = 100
  DayLength = 4
  NewsEvery = 2
  NewsLookback = 3
  FeeLookback = 3
  FeePage = 2
  Start = 6
  MaxTime = 11
  MaxPosts = 3
  Focuses = {"bars", "nav", "news", "fees"}
SPECIFICATION Spec
INVARIANTS TypeOK WindowIsTheSources CachedBarsAreFinal BreakerHolds AlertedOnce LossIsAlerted FeesAreComplete NewsIsRetried
CHECK_DEADLOCK FALSE
