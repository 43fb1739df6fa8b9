\* The settings are saved again as they are.
SPECIFICATION ThrottleSpec
CONSTANTS
  Threads = {"t1", "t2"}
  Identities = {"direct"}
  Settings <- SameSettings
  MaxThrottles = 2
  Horizon = 2
INVARIANT IdentityLimited
CHECK_DEADLOCK FALSE
