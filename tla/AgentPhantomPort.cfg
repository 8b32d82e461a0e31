\* One handler, asked also about a port the switch does not have.
SPECIFICATION Spec
CONSTANTS
  Proc = {p1}
  Port = {Ethernet0, Ethernet4}
  HwPort = {Ethernet0}
  Alias = {a1, a2}
  Admin = {"up", "down"}
  NoField = NoField
INVARIANT NoPhantomPort
