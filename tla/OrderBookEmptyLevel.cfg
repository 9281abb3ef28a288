CONSTANTS
  MaxEvents = 2
  MaxLevels = 3
  Prices = {1, 2, 3}
  Quantities = {0, 1}
  Updates <- MCFirstUpdates
  FirstUpdates <- MCBooks
  LevelsCounts = {1, 2}
SPECIFICATION Spec
INVARIANTS NoEmptyLevel
CHECK_DEADLOCK FALSE
