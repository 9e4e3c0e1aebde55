SPECIFICATION FairSpec
CONSTANTS
  Tracks = {a, b}
  NoTrack = NoTrack
  Lists <- ListsToTwo
  Faults = {"open", "pause", "stop", "settings"}
  Settings = {low, high}
  MaxItems = 2
  MaxCalls = 4
  MaxTime = 2
INVARIANTS
  OneChannelAtMost
  PlayingIsCurrent
  SettingsReachChannel
  StateIsWhatIsHeard
  ResumeIsForItsTrack
PROPERTIES
  OpensSettle
