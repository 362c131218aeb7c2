CONSTANTS
  a = a
  b = b
  Symbols = {a, b}
  Notionals = {5, 7}
  Fee = 1
  Window = 2
  Night = 2
  MaxTime = 6
  MaxOrders = 2
  MaxCopies = 1
SPECIFICATION BriefSpec
CHECK_DEADLOCK FALSE
INVARIANTS CashChangeIsTheAccounts FlaggedIsUnfilled
PROPERTY NightsReportEverything
SYMMETRY Sym
