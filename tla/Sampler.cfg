CONSTANTS
  WindowLength = 5
  NoPacket = 99
  Infinity <- mcInfinity
  RateUnit = 12
  AckHeightThreshold = 2
  Sizes = {1}
  MaxAcked = 2
  MaxBwInputs = {0, 12}
  UpperBoundInputs = {100000}
  Scenarios <- mcScenarios
SPECIFICATION Spec
CHECK_DEADLOCK FALSE
INVARIANTS
  TypeOK
  CountersConsistent
  CandidatesOrdered
  TrimmingKeepsNeededCandidate
  AckIntervalPositive
  AppLimitedPacketsMarked
  PaceBoundsSamples
PROPERTIES
  InflightSampleExact
  RoundTakesARoundTrip
