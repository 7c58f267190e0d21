\* One card, hung, hot or paused at any moment of a watchdog that wakes late and may
\* be delayed between its reads.
SPECIFICATION FairSpec
CONSTANTS
  D = 1
  Stall = 15
  Interval = 1
  StopC = 3
  StartC = 1
  MaxTemp = 3
  SolveTime = 1
  Late = 1
  PollTime = 1
PROPERTY NoHealthyCardReported
PROPERTY StuckCardReported
PROPERTY HotCardRests
CHECK_DEADLOCK FALSE
