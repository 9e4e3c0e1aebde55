SPECIFICATION Spec
CONSTANTS
  a = a
  b = b
  c = c
  RootOf <- MCRootOf
  DirOf <- MCDirOf
  Start <- MCStart
  Contents = {"x", "y"}
  BatchSize = 1
  Faults = {"store", "metadata"}
  MaxScans = 2
  MaxChanges = 2
INVARIANTS StampIsHonest CalmScanIsExact
PROPERTIES DeletedWasMissing MovedFileKeepsRow
SYMMETRY Alike
CONSTRAINTS OthersHoldTheSame OneCancelled
CHECK_DEADLOCK FALSE
