CONSTANTS
  TrunkSize = 2
  FirstPacket = 1
  LastPacket = 2
  Sizes = {1, 2}
  Cwnds = {1, 3}
  SizeModulus = 64
  kDefaultThreshold = 2
  LossVerdicts = FALSE
  Duplicates = FALSE
  FakeAcks = FALSE
  FakeTrunks = TRUE
SPECIFICATION Spec
CHECK_DEADLOCK FALSE
INVARIANTS
  FakeAcksIgnored
