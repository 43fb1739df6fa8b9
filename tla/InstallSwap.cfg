\* Two helpers on either platform, killed at any point.
SPECIFICATION Spec
CONSTANTS
  Helpers = {"v1", "v2"}
  Platforms = {"macos", "windows"}
  Faults <- SomeFaults
INVARIANTS OneInside ProgramReopened
PROPERTIES KeepsPromise ResultsTruthful HelperEnds
CHECK_DEADLOCK FALSE
