\* STATE_DB cannot be read once.
SPECIFICATION Spec
CONSTANTS
  Port = {Ethernet0}
  NoObj = NoObj
  NoPort = NoPort
  Events = {"misread"}
  MaxEvents = 1
  PatchMayFail = FALSE
CHECK_DEADLOCK FALSE
INVARIANT MisreadSparesDevice
