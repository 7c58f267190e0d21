\* One engine under fair scheduling with everything that can happen to it: two posted
\* jobs out of an id and a malformed one, two origins, pauses, failing and aborted
\* solves, stop and restart.
SPECIFICATION FairSpec
CONSTANTS
  N = 1
  Ids = {j1, bad}
  Malformed = {bad}
  Prefixes = {p1}
  Origins = {Main, Dev}
  Abortable = TRUE
  NonceBound = 2
  MaxPosts = 2
  MaxCands = 1
  FailureCap = 1
PROPERTY ImplementsMiner
INVARIANT OneLateSolve
INVARIANT PostAbortsSolveInFlight
PROPERTY PostedJobIsTaken
PROPERTY StopReturns
