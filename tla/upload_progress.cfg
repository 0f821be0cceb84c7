CONSTANTS
  u1 = u1  u2 = u2
  p = p  q = q
  a = a  b = b
  s1 = s1  s2 = s2
  None = None
  Uploads = {u1}
  Paths = {p}
  Hashes = {a, b}
  Servers = {s1, s2}
  Requests <- TwoByTwo
  MaxItems = 4
  WorkerCount = 2
  Limit <- FaultCancel
SPECIFICATION FairSpec
PROPERTY StagedRemoved
PROPERTY JobSettles
\* Uploads, cancels and deletes run out, and then nothing is left to do.
CHECK_DEADLOCK FALSE
