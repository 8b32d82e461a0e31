\* One handler, one port that goes and comes back.
SPECIFICATION Spec
CONSTANTS
  Proc = {p1}
  Port = {Ethernet0}
  HwPort = {Ethernet0}
  Alias = {a1}
  Admin = {"up", "down"}
  NoField = NoField
INVARIANT RollbackKeepsAlias
