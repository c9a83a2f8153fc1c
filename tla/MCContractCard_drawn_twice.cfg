SPECIFICATION CardSpec
CONSTANTS
  Methods = {m1}
  Contexts = {c0, c1}
  Default = c0
  Suspends = FALSE
  MaxRpc = 12
  MaxEvents = 0
  MaxClicks = 3
  None = None
CHECK_DEADLOCK FALSE
INVARIANTS DrawnOnce
