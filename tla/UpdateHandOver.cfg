SPECIFICATION Spec
CONSTANTS
  Newest = 2
  MaxDownloads = 1
  MaxInstalls = 1
INVARIANT ClosesAfterHandOver
CHECK_DEADLOCK FALSE
