CONSTANTS
  t1 = t1
  t2 = t2
  Track = {t1, t2}
  None = None
  Null = Null
  Lists <- ListsA
  MaxMoves = 3
  MaxCalls = 2
  MaxEvents = 1
  MaxSteps = 4
  MaxSent = 2
SPECIFICATION OneSpec
INVARIANTS
  PaintedIsQueued
  CoversCatchUp
  PanelsCatchUp
CHECK_DEADLOCK FALSE
