SPECIFICATION BackgroundSpec
CONSTANTS
  k1 = k1
  k2 = k2
  w1 = w1
  w2 = w2
  dram = dram
  ssd = ssd
  none = none
  Unused = Unused
  Keys = {k1, k2}
  Workers = {w1, w2}
  Flusher = Flusher
  None = None
  Limit = 1
  Round = 1
  MaxWrites = 2
  MaxStarts = 3
  MaxFailures = 1
  Parts = {"writeback", "reports", "victims", "l2"}
INVARIANTS
  PositionsFindTheirJobs
  LastCallWins
  ReportsAddUp
  ChoiceIsSound
  PolicyMissesNothing
PROPERTIES
  QueuedJobsAreTaken
  StopReturns
CHECK_DEADLOCK FALSE
