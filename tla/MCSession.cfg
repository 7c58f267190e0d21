SPECIFICATION Spec
CONSTANTS
  n1 = n1
  n2 = n2
  a1 = a1
  Nvidia <- MCNvidia
  Amd <- MCAmd
  Rigs <- MCRigs
  Specs <- MCSpecs
  PowerLists <- MCPowerLists
  Stored <- MCStored
INVARIANTS
  SolversMatchCards
  CapsAreTheirOwn
  MisaimIsTold
  TeardownIsQuiet
