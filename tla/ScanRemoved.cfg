SPECIFICATION Spec
CONSTANTS
  a = a
  b = b
  c = c
  RootOf <- MCRootOf
  DirOf <- MCDirOf
  Start <- MCStart
  Contents = {"x", "y"}
  BatchSize = 1
  Faults = {}
  MaxScans = 2
  MaxChanges = 0
INVARIANT RemovedFolderIsEmpty
CHECK_DEADLOCK FALSE
