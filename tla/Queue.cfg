SPECIFICATION Spec
CONSTANTS
  Tracks = {a, b, c}
  NoTrack = NoTrack
  MaxItems = 3
SYMMETRY TrackSymmetry
INVARIANTS
  QueueOK
  ListOrderUnlessShuffled
  RetreatUndoesAdvance
  SnapshotRoundTrip
  EditsKeepPlayed
  EditsKeepUpcoming
