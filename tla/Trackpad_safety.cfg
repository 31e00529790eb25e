\* Two keyboards plugged in and out at will; settings writes may fail.
CONSTANTS
  u1 = u1  u2 = u2  k1 = k1  k2 = k2
  Users = {u1, u2}
  Devices = {k1, k2}
  Keyboards = {k1, k2}
  Trackpads = {k1, k2}
  NoDevice = NoDevice
  NoUser = NoUser
  ManyKeyboards = TRUE
  PutMayFail = TRUE
  Bound <- Bound_1_1_1
SPECIFICATION Spec
INVARIANTS HandlesOwned AckBeforeWrite
PROPERTIES ToggleFlips JobsHeal
CHECK_DEADLOCK FALSE
SYMMETRY Symmetry
