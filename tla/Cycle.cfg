CONSTANTS
  params <- lossyParams
  Infinity <- mcInfinity
  EventInputs <- mcInputs
  TimeSteps = {0, 1, 3}
  InitMinRtt = 2
  InitMinRttTimestamps = {0, 1000000}
  InitCwnd = 4
  MaxTime = 4
  MaxRounds = 4
  MaxLossEvents = 2
  OverflowGrowth = {TRUE, FALSE}
  MaxProbeUpRounds = 2
SPECIFICATION Spec
INVARIANTS
  TypeOK
  ModeBudgetSuffices
  ProbeSampleWindow
  LowerBoundsClearWhileProbing
  CycleAdvanced
  ProbeRttResumable
  GainsMatchMode
  ZeroRateOnlyByRounding
PROPERTIES
  FilterAdvancesOncePerCycle
  OneCutPerProbe
  StartupNeverSlows
