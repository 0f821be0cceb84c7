CONSTANTS
  c1 = c1  c2 = c2
  None = None
  Calls = {c1, c2}
  Asks <- AnyTwo
  MaxRetries = 3
  MaxWait = 2
  MaxCancels = 1
SPECIFICATION FairSpec
INVARIANT Patient
INVARIANT OutcomeHonest
PROPERTY CallEnds
