CONSTANTS
  Orders = {o1, o2}
  Lot = 2
  Overlap = 1
  Lookback = 5
  PollLimit = 2
  Env = {"stream", "partial"}
  MaxTime = 3
  MaxRuns = 1
SPECIFICATION Spec
INVARIANT BookedInFull
