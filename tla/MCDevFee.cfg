\* Two engines, one job per pool, rounds of two seconds that may end one second late,
\* the debt of two rounds.
SPECIFICATION FairSpec
CONSTANTS
  Jobs = {j1}
  Engines = 2
  Rate = 1
  Unit = 1
  SliceSecs = 2
  MaxAge = 1
  Grace = 1
  MaxOverrun = 1
  MaxLate = 1
  MaxDebt = 4
INVARIANT EnginesFollowRouter
INVARIANT FeeWithinRate
INVARIANT ChargesEndWithTheWork
PROPERTY ImplementsAccount
PROPERTY StopEndsScheduler
PROPERTY OwedRoundsAreTaken
