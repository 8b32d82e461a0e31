\* Two Switches, two addresses, two ConfigMaps and any two edits or failed API calls.
SPECIFICATION FairSpec
CONSTANTS
  Switch = {leaf1, leaf2}
  ConfigMap = {cm1, cm2}
  Addr = {addr1, addr2}
  None = None
  MaxEvents = 2
CHECK_DEADLOCK FALSE
INVARIANTS TypeOK OwnScriptOnly
PROPERTY ServedInTheEnd
