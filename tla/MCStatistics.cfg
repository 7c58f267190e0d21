\* Two cards on two pools, three shares, a list of two open submits.
SPECIFICATION Spec
CONSTANTS
  Devices = {g1, g2}
  Verdicts = {"accepted", "stale"}
  Cap = 2
  UserTargets = {1, 2}
  FeeTargets = {1}
  MaxShares = 3
SYMMETRY Symmetry
INVARIANT LedgerCoversRig
INVARIANT PairedInOrder
