CONSTANTS
  MaxOrders = 6
  MaxPlans = 2
  MaxTime = 2
  Prices = {1, 2, 3}
  Unit = 6
  Books <- MCBooks
  OrderInfos <- MCOrderInfos
  Plans <- MCPlans
SPECIFICATION FairSpec
INVARIANTS TypeOK OneLiveOrder OneReportPerPlan ReportsAreHonest FlatButForLateFills TotalReportIsMade PromiseSetOnce
PROPERTIES PlansEnd ReportedOrLost
