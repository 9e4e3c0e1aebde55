SPECIFICATION FairSpec
CONSTANTS
  Tracks = {a, b}
  Threads = {w1, w2}
  MaxEvents = 4
INVARIANTS OneWorker DeltaMissesNothing
PROPERTY RequestsServed
CHECK_DEADLOCK FALSE
