CONSTANTS
  f = f  g = g
  x = x  y = y
  v = v  w = w
  None = None
  Files = {f, g}
  Parts = {0, 1}
  Bodies = {x, y}
  Ids = {1, 2, 3, 4, 5, 6}
  Readers = {v, w}
  Asks <- Calls
  Offers <- Again
  MaxCache = 2
  WorkerCount = 1
  Seeds <- Catalogs
  MaxChanges = 2
  MaxFaults = 1
SPECIFICATION Spec
INVARIANT TypeOK
INVARIANT FetchHonest
INVARIANT AnswersTrue
PROPERTY FallsBack
\* Readers, uploads and deletes run out, and then nothing is left to do.
CHECK_DEADLOCK FALSE
