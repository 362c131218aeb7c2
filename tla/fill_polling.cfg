CONSTANTS
  Orders = {o1, o2, o3}
  Lot = 1
  Overlap = 2
  Lookback = 5
  PollLimit = 3
  Env = {"poll_error"}
  MaxTime = 4
  MaxRuns = 1
SPECIFICATION FairSpec
INVARIANT PollFindsPrompt
PROPERTY EventuallyBooked
