\* One port and any two disturbances.
SPECIFICATION Spec
CONSTANTS
  Port = {Ethernet0}
  NoObj = NoObj
  NoPort = NoPort
  Events = {"fault", "misread", "blank", "outage", "restart", "admin", "create", "delete", "deleteSwitch"}
  MaxEvents = 2
  PatchMayFail = FALSE
CHECK_DEADLOCK FALSE
INVARIANTS TypeOK Converged DiscoveryPreservesDevice
