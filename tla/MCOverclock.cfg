\* Two cards, a power limit and a two-fan cooler on each, every way out.
SPECIFICATION Spec
CONSTANTS
  D = 2
  K = 2
  Fans = 2
  Restores = TRUE
INVARIANT NothingForgotten
INVARIANT AloneRestoresAll
INVARIANT PowerLimitLast
INVARIANT SignalsStayCovered
\* The process has ended.
CHECK_DEADLOCK FALSE
