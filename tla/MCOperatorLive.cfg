\* One port, any two disturbances in which the agent and the API server do not
\* err, and fair scheduling; a request to the agent may hang.
SPECIFICATION FairSpec
CONSTANTS
  Port = {Ethernet0}
  NoObj = NoObj
  NoPort = NoPort
  Events = {"blank", "outage", "restart", "delete", "deleteSwitch"}
  MaxEvents = 2
  PatchMayFail = FALSE
CHECK_DEADLOCK FALSE
INVARIANT Discovered
PROPERTIES ReadyWithoutAgent CleanedUp Rests
