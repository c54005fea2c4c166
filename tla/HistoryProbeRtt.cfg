CONSTANTS
  params <- dwellParams
  Infinity <- mcInfinity
  EventInputs <- dwellInputs
  TimeSteps = {0, 1, 4}
  InitMinRtt = 2
  InitMinRttTimestamps = {0}
  InitCwnd = 4
  MaxTime = 13
  MaxRounds = 4
  MaxLossEvents = 1
  OverflowGrowth = {TRUE}
  MaxProbeUpRounds = 2
SPECIFICATION HSpec
PROPERTIES ProbeRttDwells ProbeRttSpaced
