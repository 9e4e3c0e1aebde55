SPECIFICATION Spec
CONSTANTS
  Lengths <- MCLengths
  Default = 1
  Fallback = 3
  MaxQueued = 1
  Faults = {"load", "engine", "push", "mark", "reset"}
  MaxOpens = 2
  MaxCalls = 3
INVARIANT SubtuneIsWhole
PROPERTIES EmulatorGoesRound TuneEnds
CHECK_DEADLOCK FALSE
