\* The status patch may fail.
SPECIFICATION FairSpec
CONSTANTS
  Port = {Ethernet0}
  NoObj = NoObj
  NoPort = NoPort
  Events = {}
  MaxEvents = 0
  PatchMayFail = TRUE
CHECK_DEADLOCK FALSE
PROPERTY ReadyWithoutAgent
