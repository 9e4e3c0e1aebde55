SPECIFICATION CacheSpec
CONSTANTS
  cover = cover
  photo = photo
  icon = icon
  scan = scan
  w1 = w1
  w2 = w2
  Keys = {cover, photo, scan, icon}
  Mock = {icon}
  Pool = {w1, w2}
  Bytes <- MCBytes
  Budget = 2
  MaxUploads = 1
INVARIANTS AskedOnce NoIdleHands ResultsWake
PROPERTIES RequestsEnd ThreadsEnd
CHECK_DEADLOCK FALSE
