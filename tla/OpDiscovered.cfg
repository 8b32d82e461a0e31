\* Two faults.
SPECIFICATION Spec
CONSTANTS
  Port = {Ethernet0}
  NoObj = NoObj
  NoPort = NoPort
  Events = {"fault"}
  MaxEvents = 2
  PatchMayFail = FALSE
CHECK_DEADLOCK FALSE
INVARIANT Discovered
