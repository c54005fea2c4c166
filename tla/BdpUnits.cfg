CONSTANTS
  params <- mcParams
  Infinity <- mcInfinity
  EventInputs <- mcBdpInputs
  TimeSteps = {0, 1, 4}
  InitMinRtt = 2
  InitMinRttTimestamps = {0}
  InitCwnd = 4
  MaxTime = 6
  MaxRounds = 4
  MaxLossEvents = 3
  OverflowGrowth = {TRUE}
  MaxProbeUpRounds = 2
SPECIFICATION Spec
PROPERTY ProbeRttTargetIsBdpFraction
