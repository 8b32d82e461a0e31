\* Two handlers on one port.
SPECIFICATION Spec
CONSTANTS
  Proc = {p1, p2}
  Port = {Ethernet0}
  HwPort = {Ethernet0}
  Alias = {a1}
  Admin = {"up", "down"}
  NoField = NoField
PROPERTY RollbackSparesAcked
