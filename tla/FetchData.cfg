\* One batch, a reused rowid and one storage error: what is left in the store.
SPECIFICATION Spec
CONSTANTS
  Ids = {1, 2}
  PoolSize = 2
  MaxBoxes = 3
  MaxBatches = 1
  MaxFaults = 1
INVARIANTS ForeignOnlyByRace
PROPERTIES SummaryTruthful
CHECK_DEADLOCK FALSE
