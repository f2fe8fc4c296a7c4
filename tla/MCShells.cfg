CONSTANTS
  t1 = t1
  t2 = t2
  Track = {t1, t2}
  NoTrack = NoTrack
  None = None
  Lists <- ListsA
  MaxEngines = 2
  MaxLine = 2
  MaxKeys = 3
  MaxFaults = 1
  MaxStoreFaults = 1
SPECIFICATION SpecShells
INVARIANTS
  ListensAreTrue
  NoListenIsLost
  WrittenEveryRound
PROPERTIES
  ListensReachStore
  PlayReturns
CHECK_DEADLOCK FALSE
