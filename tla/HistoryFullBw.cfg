CONSTANTS
  params <- mcParams
  Infinity <- mcInfinity
  EventInputs <- growthInputs
  TimeSteps = {1}
  InitMinRtt = 2
  InitMinRttTimestamps = {0}
  InitCwnd = 4
  MaxTime = 8
  MaxRounds = 6
  MaxLossEvents = 2
  OverflowGrowth = {TRUE}
  MaxProbeUpRounds = 2
SPECIFICATION HSpec
PROPERTY FullBwMeansNoGrowthInLastRounds
