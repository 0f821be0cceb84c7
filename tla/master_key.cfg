CONSTANTS
  a = a  b = b  c = c
  p = p  q = q
  None = None  Boot = Boot
  Handlers = {a, b, c}
  Asks <- Mix
  Passwords = {p, q}
  SigninPassword = q
  BootPasswords = {None, p}
  MaxSalts = 4
  MaxStops = 2
  MaxFaults = 1
SPECIFICATION Spec
CONSTRAINT Unspoiled
INVARIANT Unlockable
INVARIANT EnginesAgree
INVARIANT PartsOpen
INVARIANT SessionsCurrent
\* Each request is made once.
CHECK_DEADLOCK FALSE
