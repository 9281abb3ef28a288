CONSTANTS
  MaxOrders = 3
  MaxPlans = 1
  MaxTime = 2
  Prices = {1, 2, 3}
  Unit = 6
  Books <- MCBooks
  OrderInfos <- MCOrderInfos
  Plans <- MCFewPlans
SPECIFICATION Spec
INVARIANTS ExpiredBuyIsCanceled
