CONSTANTS
  Requests <- AnyRequest
  Goroutines = 2
SPECIFICATION FairSpec
INVARIANT NoLostWakeup
PROPERTY Delivers
PROPERTY StreamReturns
PROPERTY GoroutinesEnd
\* A stream that has returned rests.
CHECK_DEADLOCK FALSE
