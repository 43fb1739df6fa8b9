\* The smallest instance that shows the disagreement.
SPECIFICATION Spec
CONSTANTS
  Ids = {1}
  PoolSize = 1
  MaxBoxes = 1
  MaxBatches = 1
  MaxFaults = 0
INVARIANT DeletionIsComplete
CHECK_DEADLOCK FALSE
