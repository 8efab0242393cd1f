SPECIFICATION PoliciesSpec
CONSTANTS
  k1 = k1
  k2 = k2
  k3 = k3
  k4 = k4
  k5 = k5
  none = none
  nokey = nokey
  a1 = a1
  a2 = a2
  rack = rack
  Keys = {k1, k2}
  Values = {v1}
  None = None
  Garbage = Garbage
  Floor = 1
  Devices = {d1, d2}
  Hash <- DeviceHash
  TornWrites = FALSE
  MaxTrouble = 2
  Unused = Unused
  Parts = {"segments", "orders", "arc", "lru", "sketch", "budget", "allocator", "ring", "devices"}
INVARIANTS
  ListsAreRight
  PoliciesKeepBounds
  SketchNeverUnderstates
  OverrunsAreCut
PROPERTIES
  ImplementsDurableStore
  RingIsRight
CHECK_DEADLOCK FALSE
