\* One handler, one port, whose admin status may be absent.
SPECIFICATION Spec
CONSTANTS
  Proc = {p1}
  Port = {Ethernet0}
  HwPort = {Ethernet0}
  Alias = {a1}
  Admin = {"up", "down"}
  NoField = NoField
PROPERTY RollbackRestoresAbsence
