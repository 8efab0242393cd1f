SPECIFICATION Spec
CONSTANTS
  k1 = k1
  k2 = k2
  k3 = k3
  r1 = r1
  r2 = r2
  none = none
  small = small
  large = large
  empty = empty
  Payloads = {small, large}
  Keys = {k1, k2}
  Values <- Payloads
  None = none
  Size <- MCSize
  BlockLen <- MCBlockLen
  Tiered = TRUE
  Threshold = 1
  Readers = {r1, r2}
  MemoryCapacities = {2}
  PmemCapacities = {2}
  SsdCapacities = {3}
  WriteThrough = FALSE
  FilterOn = FALSE
  BudgetOn = FALSE
  DemoteOn = TRUE
  PmemPaths = TRUE
  Faults = {}
  Calls = {"put", "invalidate", "clear"}
  Heats = {1, 3}
  MaxPins = 1
SYMMETRY Symmetry
INVARIANTS
  TypeOK
  LastWriteWins
  ReadSawACurrentValue
