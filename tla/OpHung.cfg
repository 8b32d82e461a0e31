\* A Switch is deleted while a request to the agent hangs.
SPECIFICATION FairSpec
CONSTANTS
  Port = {Ethernet0}
  NoObj = NoObj
  NoPort = NoPort
  Events = {"deleteSwitch"}
  MaxEvents = 1
  PatchMayFail = FALSE
CHECK_DEADLOCK FALSE
PROPERTY CleansUp
