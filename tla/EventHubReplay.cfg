CONSTANTS
  MaxSubscribers = 2
  MaxEvents = 3
  DispatchFromMain = TRUE
SPECIFICATION FairSpec
INVARIANTS ShutdownDrains
PROPERTIES WaitMeansDrained DeliversAll ReturnsOrLosesWakeup
