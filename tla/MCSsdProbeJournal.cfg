SPECIFICATION Spec
CONSTANTS
  k1 = k1
  k2 = k2
  k3 = k3
  r1 = r1
  r2 = r2
  h0 = h0
  h1 = h1
  h2 = h2
  Keys <- MCKeys
  Readers <- MCReaders
  Hashes <- MCHashes
  Hash <- MCHash
  ZeroHash = h0
  Slots = 2
  MaxEpoch = 5
INVARIANTS
  TypeOK
  CurrentMeansUnchanged
PROPERTIES
  StaleStaysStale
  SpareRefillCancelsNothing
CHECK_DEADLOCK TRUE
