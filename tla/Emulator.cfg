CONSTANTS
  MaxOrders = 2
  Prices = {1, 2, 3}
  Books <- MCBooks
  OrderInfos <- MCOrderInfos
SPECIFICATION EmulatorSpec
INVARIANTS FilledByFirstCrossing SetTwiceOnlyAtFirst
PROPERTIES ImplementsExchange
