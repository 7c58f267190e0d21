\* A failed submit closes the socket while run() handles a line.
SPECIFICATION Spec
CONSTANTS
  NumPools = 1
  Assigning = {1}
  Redials = 1
  MaxLines = 2
INVARIANT EveryDropReported
