CONSTANTS
  WindowLength = 5
  Samples = {1, 2, 3}
  TimeSteps = {0, 1, 2, 3}
  MaxTime = 9
  Range = 16
  MaxNumber = 48
SPECIFICATION UtilitiesSpec
CHECK_DEADLOCK FALSE
INVARIANTS
  FilterTypeOK
  EstimatesAreCurrent
  EstimatesRanked
  LargestSince
  StreamRestored
