\* Three accounts of one identity and a change of the settings.
SPECIFICATION ThrottleSpec
CONSTANTS
  Threads = {"t1", "t2", "t3"}
  Identities = {"direct"}
  Settings <- SomeSettings
  MaxThrottles = 2
  Horizon = 2
INVARIANTS WithinLimit StartsSpaced
PROPERTIES EverybodyServed
CHECK_DEADLOCK FALSE
