CONSTANTS
  e = e
  Symbols = {e}
  Crypto = {}
  Shortable = {e}
  Targets <- LongShort
  MinTrade = 1
  Env = {"race", "lookup_error", "cancel", "reject", "timeout", "crash", "tick_error", "close", "retarget", "veto", "clock_error"}
  MaxFaults = 3
SPECIFICATION FairSpec
INVARIANTS TypeOK NoOverTrade OrdersLogExact
PROPERTY ReachesTarget
