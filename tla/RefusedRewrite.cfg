SPECIFICATION Spec
CONSTANTS
  k1 = k1
  k2 = k2
  k3 = k3
  r1 = r1
  r2 = r2
  none = none
  small = small
  large = large
  empty = empty
  Payloads = {small, large}
  Keys = {k1, k2}
  Values <- Payloads
  None = none
  Size <- MCSize
  BlockLen <- MCBlockLen
  Tiered = TRUE
  Threshold = 1
  Readers = {}
  MemoryCapacities = {1}
  PmemCapacities = {0}
  SsdCapacities = {0}
  WriteThrough = FALSE
  FilterOn = FALSE
  BudgetOn = FALSE
  DemoteOn = TRUE
  PmemPaths = TRUE
  Faults = {}
  Calls = {"put"}
  Heats = {0}
  MaxPins = 1
SYMMETRY Symmetry
INVARIANTS
  LastWriteWins
