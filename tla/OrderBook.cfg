CONSTANTS
  MaxEvents = 3
  MaxLevels = 2
  Prices = {1, 2, 3}
  Quantities = {0, 1, 2}
  Updates <- MCUpdates
  FirstUpdates <- MCFirstUpdates
  LevelsCounts = {1, 2}
SPECIFICATION FairSpec
INVARIANTS TypeOK BookIsOrdered BookIsTold SnapshotIsFresh ComparisonAgrees
PROPERTIES SnapshotOrEndOfStream
CHECK_DEADLOCK FALSE
