\* Two handlers on one port, which has two fields to set.  They ask for an alias,
\* for the name of the port, and for the empty status on a port that is up or has
\* no status.
SPECIFICATION Spec
CONSTANTS
  Proc = {p1, p2}
  Port = {Ethernet0}
  HwPort = {Ethernet0}
  Alias = {a1}
  Admin = {""}
  NoField = NoField
SYMMETRY Symmetry
INVARIANTS TypeOK AckedIsDurable KeepsAlias
PROPERTY Implements
