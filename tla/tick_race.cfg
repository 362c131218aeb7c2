CONSTANTS
  e = e
  Symbols = {e}
  Crypto = {}
  Shortable = {e}
  Targets <- LongOnly
  MinTrade = 1
  Env = {"race"}
  MaxFaults = 1
SPECIFICATION Spec
INVARIANT OpenOrdersCountAsHeld
