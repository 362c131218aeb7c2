CONSTANTS
  Symbols = {s1}
  InKind = {s1}
  Size = 400
  Fee = 1
  PerSecond = 2
  Env = {"late_stamp", "incomplete_drain", "tick_error", "crash"}
  MaxTime = 5
  MaxFills = 2
  MaxOutside = 1
  MaxRuns = 2
SPECIFICATION Spec
INVARIANTS TypeOK SettledDriftIsExact NettedOnce
