CONSTANTS
  p = p  q = q  r = r
  None = None  Gone = Gone  Root = Root  Meta = Meta
  Calls = {p, q, r}
  Asks <- Mix
  Cap = 1
  Target = 1
  Wants = {1, 2}
  CatIds = {1, 2, 3, 4, 5}
  ChanIds = {1, 2, 3, 4, 5, 6, 7, 8, 9, 10}
  MaxFaults = 1
SPECIFICATION Spec
CONSTRAINT Few
INVARIANT TypeOK
INVARIANT MadeOnce
INVARIANT RowsUsable
INVARIANT EnoughChannels
\* Each call is made once.
CHECK_DEADLOCK FALSE
