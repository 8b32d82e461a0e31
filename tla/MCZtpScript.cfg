\* Two failing commands and a power failure anywhere in the script.
SPECIFICATION FairSpec
CONSTANTS
  Container = {"a", "b"}
  Switches <- MCSwitches
  MaxFaults = 2
  MaxOutages = 1
CHECK_DEADLOCK FALSE
INVARIANTS TypeOK StrictBoot AllAttempted DoneIsDurable
PROPERTIES OldContainerKept Finishes
