SPECIFICATION Spec
CONSTANTS
  a = a
  b = b
  a1 = a1
  a2 = a2
  b1 = b1
  old = old
  Nobody = Nobody
  Installs <- MCInstalls
  Procs <- MCProcs
  RootOf <- MCRootOf
  MaxSaves = 2
  MaxKeys = 3
  MaxStarts = 3
INVARIANT MigratedKeyOpens
SYMMETRY Twins
CHECK_DEADLOCK FALSE
