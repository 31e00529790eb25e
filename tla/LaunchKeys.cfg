\* Overlapping presses, with calls that throw.
CONSTANTS
  MaxPresses = 3
  MaxFaults = 1
SPECIFICATION FairSpec
INVARIANTS InUse KeysReleased SplitToggled
PROPERTIES EveryPressHandled
CHECK_DEADLOCK FALSE
