\* One keyboard at a time, pulled out and plugged in again as k2.
CONSTANTS
  u1 = u1  u2 = u2  k1 = k1  k2 = k2
  Users = {u1, u2}
  Devices = {k1, k2}
  Keyboards = {k1, k2}
  Trackpads = {k1, k2}
  NoDevice = NoDevice
  NoUser = NoUser
  ManyKeyboards = FALSE
  PutMayFail = FALSE
  Bound <- Bound_2_1_1
SPECIFICATION Spec
INVARIANT SettledAgrees
CHECK_DEADLOCK FALSE
SYMMETRY Symmetry
