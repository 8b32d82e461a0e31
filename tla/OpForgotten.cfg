\* A status patch may fail.
SPECIFICATION Spec
CONSTANTS
  Port = {Ethernet0}
  NoObj = NoObj
  NoPort = NoPort
  Events = {}
  MaxEvents = 0
  PatchMayFail = TRUE
CHECK_DEADLOCK FALSE
INVARIANT NoneForgotten
