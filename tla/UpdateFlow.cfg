SPECIFICATION Spec
CONSTANTS
  Newest = 2
  MaxDownloads = 2
  MaxInstalls = 2
INVARIANTS NoDownloadOverStaged LockedWhileWorking HelperHasSource
PROPERTIES DownloadEnds InstallEnds
CHECK_DEADLOCK FALSE
