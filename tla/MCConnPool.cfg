\* Two goroutines, two known databases and an unknown one; fairness of the
\* goroutines and of the RWMutex.
SPECIFICATION FairSpec
CONSTANTS
  Proc = {p1, p2}
  DB = {configDB, stateDB, bogusDB}
  UnknownDB = {bogusDB}
  Client = {c1, c2, c3}
  None = None
INVARIANTS TypeOK NoLeakedClient NoDeadEntry NoStuckCall
PROPERTIES CallsReturn Recovers
