CONSTANTS
  TrunkSize = 2
  FirstPacket = 1
  LastPacket = 5
  Sizes = {1, 2}
  Cwnds = {1, 3}
  SizeModulus = 64
  kDefaultThreshold = 2
  LossVerdicts = TRUE
  Duplicates = FALSE
  FakeAcks = TRUE
  FakeTrunks = FALSE
SPECIFICATION FairSpec
CHECK_DEADLOCK FALSE
INVARIANTS
  TypeOK
  InflightExact
  QueueWaitsForWindow
  HistoryHoldsUnacked
PROPERTIES
  QueueIsFifo
  QueueDrains
