\* Two mailboxes, two batches, no storage errors: the books of the main window.
SPECIFICATION Spec
CONSTANTS
  Ids = {1, 2}
  PoolSize = 1
  MaxBoxes = 2
  MaxBatches = 2
  MaxFaults = 0
INVARIANTS WorkersRegistered QuietWhenIdle
PROPERTIES StopNeverRevoked BatchEnds
CHECK_DEADLOCK FALSE
