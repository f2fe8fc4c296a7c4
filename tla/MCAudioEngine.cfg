CONSTANTS
  Capacity = 2
  MaxPacket = 2
  MaxOut = 2
  MaxFrames = 2
  MaxJobs = 2
  MaxPauses = 1
  None = None
SPECIFICATION FairSpec
INVARIANTS
  PlayedOfIsHeard
  TransitionOnTime
PROPERTIES
  EveryTrackIsHeard
CHECK_DEADLOCK FALSE
