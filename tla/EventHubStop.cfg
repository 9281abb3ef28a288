CONSTANTS
  MaxSubscribers = 1
  MaxEvents = 1
  DispatchFromMain = TRUE
SPECIFICATION FairSpec
PROPERTIES ShutdownReturnsEventually
