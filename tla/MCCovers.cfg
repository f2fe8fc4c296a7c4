CONSTANTS
  Album = {a1, a2}
  MaxRows = 2
  MaxQueues = 2
  MaxOther = 1
  Keys = {k1, k2}
  NoCover = NoCover
  Broken = Broken
  Workers = {worker}
  Commands = {command}
  Worlds <- StoreWorlds
  Resizes = TRUE
  Month = 2
  MaxTime = 2
  MaxPuts = 2
  MaxMishaps = 1
  Absent = Absent
  Unreadable = Unreadable
  Gone = Gone
  NoKey = NoKey
SPECIFICATION OneSpec
INVARIANTS
  NoRowIsForgotten
  FoundHasItsImages
  EntriesSurvive
  AnswersAreJustified
PROPERTIES
  RowsAreSettled
CHECK_DEADLOCK FALSE
