SPECIFICATION FairSpec
CONSTANTS
  k1 = k1
  k2 = k2
  k3 = k3
  r1 = r1
  r2 = r2
  none = none
  small = small
  large = large
  empty = empty
  Payloads = {empty, small, large}
  Keys = {k1, k2}
  Values <- Payloads
  None = none
  Size <- MCSize
  BlockLen <- MCBlockLen
  Tiered = FALSE
  Threshold = 1
  Readers = {r1}
  MemoryCapacities = {2}
  PmemCapacities = {2}
  SsdCapacities = {3}
  WriteThrough = TRUE
  FilterOn = FALSE
  BudgetOn = TRUE
  DemoteOn = TRUE
  PmemPaths = TRUE
  Faults = {}
  Calls = {"put", "invalidate", "stop", "ssdOnly"}
  Heats = {1, 3}
  MaxPins = 1

INVARIANTS
  LastWriteWins
  NothingOutOfOrder
PROPERTIES
  LockReleased
