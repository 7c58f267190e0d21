\* Two pools that come and go, the first assigning prefixes, two redials before
\* failover; run() is scheduled fairly.
SPECIFICATION FairSpec
CONSTANTS
  NumPools = 2
  Assigning = {1}
  Redials = 2
  MaxLines = 1
INVARIANT ConnectionsStayApart
INVARIANT JobsCarryTheirPrefix
PROPERTY NoHastyFailover
PROPERTY ReachesTheLivePool
