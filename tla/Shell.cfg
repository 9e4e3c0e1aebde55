SPECIFICATION Spec
CONSTANTS
  Tracks = {1, 2}
  TrackIds = {1, 2}
  Remote = {2}
  Tags = {1}
  Queries = {1, 2}
  Faults = {"filter", "store"}
  MaxWorkers = 2
  MaxClicks = 2
  MaxPlays = 1
  MaxTyped = 2
  MaxActs = 4
INVARIANTS OneRowPerPlay  AnswerIsOfQuery ScanningEnds SearchIsAnswered
