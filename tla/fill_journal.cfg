CONSTANTS
  Orders = {o1, o2}
  Lot = 2
  Overlap = 1
  Lookback = 5
  PollLimit = 2
  Env = {"stream", "partial", "cancel", "drop", "poll_error", "journal_error", "crash"}
  MaxTime = 3
  MaxRuns = 2
SPECIFICATION Spec
SYMMETRY Symmetry
INVARIANTS TypeOK OnceInJournal SeenIsBooked
PROPERTY ImplementsLedger
