\* One handler, one port.
SPECIFICATION Spec
CONSTANTS
  Proc = {p1}
  Port = {Ethernet0}
  HwPort = {Ethernet0}
  Alias = {a1, a2}
  Admin = {"up", "down"}
  NoField = NoField
INVARIANT AliasUsesDefaults
