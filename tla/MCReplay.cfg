\* Two threads per block; an element too many at every capacity.
SPECIFICATION ReplaySpec
CONSTANTS
  Lanes = 2
  Buckets = 2
  InCap = 4
  OutBuckets = 1
  OutCap = 1
  ArenaCap = 2
  AMax = 1
  SubBits = 1
  TabBits = 2
  FCap = 3
  MaxSpill = 2
  MaxWalk = 1
  RepN = 4
  RepTab = 2
  RepPair = 1
  Elements <- MCElements
INVARIANT EveryPairOnce
INVARIANT SlotsAreExclusive
INVARIANT LeavesInTreeOrder
PROPERTY LaunchesEnd
CHECK_DEADLOCK FALSE
