\* One goroutine and one database; Close may report an error.
SPECIFICATION FairSpec
CONSTANTS
  Proc = {p1}
  DB = {configDB}
  UnknownDB = {}
  Client = {c1, c2}
  None = None
PROPERTY RecoversAlways
