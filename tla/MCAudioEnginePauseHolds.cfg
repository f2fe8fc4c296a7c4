CONSTANTS
  Capacity = 2
  MaxPacket = 2
  MaxOut = 2
  MaxFrames = 2
  MaxJobs = 1
  MaxPauses = 1
  None = None
SPECIFICATION Spec
INVARIANT
  PauseHolds
CHECK_DEADLOCK FALSE
