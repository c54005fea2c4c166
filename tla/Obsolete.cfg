CONSTANTS
  WindowLength = 5
  NoPacket = 99
  Infinity <- mcInfinity
  RateUnit = 12
  AckHeightThreshold = 2
  Sizes = {1}
  MaxAcked = 2
  MaxBwInputs = {0, 12}
  UpperBoundInputs = {100000}
  Scenarios <- mcForgetful
SPECIFICATION Spec
CHECK_DEADLOCK FALSE
INVARIANTS
  ObsoleteRemoved
