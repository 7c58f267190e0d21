\* Every rung of the three solvers, two inputs and three nonces.
SPECIFICATION Spec
CONSTANTS
  Backends = {"OpenCL", "CUDA", "Metal"}
  Inputs = {i1, i2}
  W = 3
INVARIANTS
  
  RecoveryFindsItsSources
PROPERTIES
  PredictedCallsHit
\* A solver that no rung fits does not come up.
CHECK_DEADLOCK FALSE
