SPECIFICATION Listening
CONSTANTS
  Tracks = {a}
  NoTrack = NoTrack
  Scopes <- ScopesToThree
  MaxItems = 4
INVARIANTS
  NoTrackTwice
  RetreatUndoesAdvance
  SkipTerminates
PROPERTIES
  PlaysOncePerCycle
  EveryTrackPlays
