CONSTANTS
  MaxBuffer = 5
  Chunk = 3
  MaxBody = 7
  Caller = {core, cover}
  MaxStarts = 2
  MaxCalls = 3
  Track = {t1, t2}
  NoTrack = NoTrack
  Longest = 4
SPECIFICATION SourcesSpec
INVARIANTS
  EnginesAreLeftBehind
  StoredIsKept
  PeekAgreesWithAdvance
PROPERTIES
  SettingsKeepCurrent
  RepeatAllPlaysEveryItem
  CallsReturn
  ReadsReturn
  ImplementsStream
CHECK_DEADLOCK FALSE
