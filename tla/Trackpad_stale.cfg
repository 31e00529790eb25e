\* A keyboard with and one without a trackpad interface, both plugged in at
\* will, next to a device that is no keyboard.
CONSTANTS
  u1 = u1  k1 = k1  k2 = k2  m = m
  Users = {u1}
  Devices = {k1, k2, m}
  Keyboards = {k1, k2}
  Trackpads = {k1}
  NoDevice = NoDevice
  NoUser = NoUser
  ManyKeyboards = TRUE
  PutMayFail = FALSE
  Bound <- Bound_0_0_1
SPECIFICATION FairSpec
INVARIANT TypeOK
PROPERTY StaleDropped
CHECK_DEADLOCK FALSE
