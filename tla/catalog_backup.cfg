SPECIFICATION Spec
CONSTANTS
  i1 = i1  i2 = i2  l1 = l1  v1 = v1  r1 = r1  d1 = d1
  None = None
  Ids = {i1, i2}
  Links = {l1}
  Offered = {i1}
  Visitors = {v1}
  Paths <- MCPaths
  Parts <- MCParts
  Stored <- MCStored
  MaxSyncs = 2
  Restores = {r1}
  Deleters = {d1}
  MaxEvents = 1
CONSTRAINT LinksOrSecondBackup
\* Requests are bounded: the system stops when all are done.
CHECK_DEADLOCK FALSE
INVARIANTS
  TypeOK
  
  
  
  RowsReadable
  LinksHonest
