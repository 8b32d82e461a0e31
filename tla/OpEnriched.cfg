\* The version file of the switch cannot be read once.
SPECIFICATION Spec
CONSTANTS
  Port = {Ethernet0}
  NoObj = NoObj
  NoPort = NoPort
  Events = {"blank"}
  MaxEvents = 1
  PatchMayFail = FALSE
CHECK_DEADLOCK FALSE
PROPERTY StatusOnlyEnriched
