SPECIFICATION Spec
CONSTANTS
  Tracks = {1}
  TrackIds = {1}
  Remote = {}
  Tags = {1, 2}
  Queries = {}
  Faults = {}
  MaxWorkers = 2
  MaxClicks = 1
  MaxPlays = 0
  MaxTyped = 0
  MaxActs = 3
INVARIANT SettledStarsAreStored
