SPECIFICATION HistSpec
CONSTANTS
  a = a
  d1 = d1
  Tracks = {a}
  Files = {f}
  Match <- MatchAll
  Owner <- OwnedByFirst
  Desktops = {d1, d2}
  Second = 2
  Batch = 1
  MaxTime = 3
INVARIANTS EtagMeansSameSet ClicksSurvive
CHECK_DEADLOCK FALSE
PROPERTIES Converges
