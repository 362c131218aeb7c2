CONSTANTS
  a = a
  b = b
  Symbols = {a}
  Prices = {77760, 155520}
  Sizes = {1, 2, 3}
  SlippageBps = 1000
  FeeBps = 1000
  Bps = 10000
  StartingCash = 1000000
  MaxHeld = 3
  MaxOrders = 5
  MaxResting = 1
  Scale <- SixToThe
SPECIFICATION Spec
INVARIANTS TypeOK BookBalances LotsAgreeWithPosition CostBasisIsRight
PROPERTY TradeCostsSlippageAndFee
