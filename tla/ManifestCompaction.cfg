SPECIFICATION CallsSpec
CONSTANTS
  k1 = k1
  k2 = k2
  k3 = k3
  v1 = v1
  v2 = v2
  none = none
  a1 = a1
  a2 = a2
  small = small
  large = large
  dram = dram
  flash = flash
  Keys = {k1}
  Values = {v1, v2}
  None = None
  Readers = {a1}
  Batches <- ReadBatches
  PmemRefills = TRUE
  MaxOthers = 4
  Unused = Unused
  Parts = {"recovery"}
  Builds = {FALSE}
  Compactions = {FALSE, TRUE}
INVARIANTS
  PersistedEntriesReturn
CHECK_DEADLOCK FALSE
