\* Levels on both sides of the threshold and at it.
CONSTANTS
  Levels = {39, 40, 41}
  Threshold = 40
  NoLevel = NoLevel
  MaxQueue = 3
SPECIFICATION FairPenSpec
INVARIANTS WarnedOfLast
PROPERTIES SilentAfterDestroy ChargedWithdrawn
CHECK_DEADLOCK FALSE
