SPECIFICATION FairSpec
CONSTANTS
  e1 = e1
  e2 = e2
  e3 = e3
  Episodes <- MCEpisodes
  Gone <- MCGone
  Queued <- MCQueued
  End = 2
  None = None
  MaxRetries = 1
  MaxActs = 2
  MaxTroubles = 1
INVARIANTS
  SilentUntilAsked
  StopIsStored
  HoldsWhatIsShown
PROPERTIES
  EndOfEpisodeHolds
  ReplayIsMarked
  LoadEnds
CHECK_DEADLOCK FALSE
