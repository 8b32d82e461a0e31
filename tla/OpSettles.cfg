\* One edit.
SPECIFICATION FairSpec
CONSTANTS
  Port = {Ethernet0}
  NoObj = NoObj
  NoPort = NoPort
  Events = {"admin"}
  MaxEvents = 1
  PatchMayFail = FALSE
CHECK_DEADLOCK FALSE
PROPERTY Settles
