SPECIFICATION Spec
CONSTANTS
  Lengths <- MCLengths
  Default = 1
  Fallback = 3
  MaxQueued = 1
  Faults = {"load"}
  MaxOpens = 2
  MaxCalls = 4
INVARIANT PlayingIsFed
CHECK_DEADLOCK FALSE
