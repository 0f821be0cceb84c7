CONSTANTS
  j1 = j1  j2 = j2
  f = f  g = g
  p = p
  c1 = c1  c2 = c2
  None = None
  Jobs = {j1, j2}
  Files = {f, g}
  Paths = {p}
  Parts = {0, 1}
  Copies = {c1, c2}
  Requests <- Downloads
  WorkerCount = 2
  MaxFaults = 1
  MaxCancels = 1
SPECIFICATION FairSpec
INVARIANT DoneMeansWritten
INVARIANT VerdictHonest
PROPERTY JobEnds
\* Requests and cancels run out, and then nothing is left to do.
CHECK_DEADLOCK FALSE
