CONSTANTS
  params <- lossyParams
  Infinity <- mcInfinity
  EventInputs <- lossInputs
  TimeSteps = {1}
  InitMinRtt = 2
  InitMinRttTimestamps = {0}
  InitCwnd = 4
  MaxTime = 8
  MaxRounds = 6
  MaxLossEvents = 4
  OverflowGrowth = {TRUE}
  MaxProbeUpRounds = 2
SPECIFICATION HSpec
PROPERTY LossExitCountsThisRound
