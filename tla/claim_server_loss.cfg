CONSTANTS
  u1 = u1  u2 = u2
  p = p  q = q
  a = a  b = b
  s1 = s1  s2 = s2
  None = None
  Uploads = {u1}
  Paths = {p}
  Hashes = {a, b}
  Servers = {s1, s2}
  Requests <- TwoByTwo
  MaxItems = 4
  WorkerCount = 1
  Limit <- Nothing
SPECIFICATION Spec
INVARIANT SurvivesServerLoss
\* Uploads, cancels and deletes run out, and then nothing is left to do.
CHECK_DEADLOCK FALSE
