CONSTANTS
  u1 = u1  u2 = u2
  p = p  q = q
  a = a  b = b
  s1 = s1  s2 = s2
  None = None
  Uploads = {u1, u2}
  Paths = {p, q}
  Hashes = {a, b}
  Servers = {s1, s2}
  Requests <- Sharing
  MaxItems = 1
  WorkerCount = 1
  Limit <- FaultDelete
SPECIFICATION Spec
SYMMETRY AnyUpload
INVARIANT StoredBytesMatch
PROPERTY KeepsPromise
\* Uploads, cancels and deletes run out, and then nothing is left to do.
CHECK_DEADLOCK FALSE
