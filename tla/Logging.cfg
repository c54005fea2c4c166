CONSTANTS
  Null = Null
  RollSize = 4
  kSmallBuffer = 2
  kLargeBuffer = 4
  Bodies = {0, 2}
  MaxLines = 6
  MaxStarts = 2
SPECIFICATION FairSpec
CHECK_DEADLOCK FALSE
INVARIANTS
  TypeOK
  AssertsHold
  NoLostWakeUp
  RecentLinesKept
PROPERTIES
  LogIsFifo
  AwaitedLinesWritten
  StopReturns
