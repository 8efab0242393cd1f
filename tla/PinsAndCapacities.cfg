SPECIFICATION Spec
CONSTANTS
  k1 = k1
  k2 = k2
  k3 = k3
  r1 = r1
  r2 = r2
  none = none
  small = small
  large = large
  empty = empty
  Payloads = {small, large}
  Keys = {k1, k2}
  Values <- Payloads
  None = none
  Size <- MCSize
  BlockLen <- MCBlockLen
  Tiered = TRUE
  Threshold = 1
  Readers = {}
  MemoryCapacities = {0, 1, 2}
  PmemCapacities = {0, 2}
  SsdCapacities = {0, 3}
  WriteThrough = FALSE
  FilterOn = TRUE
  BudgetOn = FALSE
  DemoteOn = TRUE
  PmemPaths = TRUE
  Faults = {"pmemPut"}
  Calls = {"put", "pin", "capacity"}
  Heats = {1, 3}
  MaxPins = 1
SYMMETRY Symmetry
INVARIANTS
  BytesExact
  MetadataAtHome
  IndexMatchesStore
  OverOnlyWhenPinned
  NothingDescribedThatIsGone
PROPERTIES
  PinnedStays
