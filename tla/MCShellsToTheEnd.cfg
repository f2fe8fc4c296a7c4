CONSTANTS
  t1 = t1
  t2 = t2
  Track = {t1, t2}
  NoTrack = NoTrack
  None = None
  Lists <- ListsA
  MaxEngines = 2
  MaxLine = 2
  MaxKeys = 0
  MaxFaults = 0
  MaxStoreFaults = 0
SPECIFICATION SpecShells
INVARIANT
  PlaysToTheEnd
CHECK_DEADLOCK FALSE
