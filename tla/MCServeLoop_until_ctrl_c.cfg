SPECIFICATION Spec
CONSTANTS
  Clients = {c1, c2}
  Methods = {1}
  Declared = {1}
  QueueCap = 1
  None = None
INVARIANTS ServesUntilCtrlC
CHECK_DEADLOCK FALSE
SYMMETRY Symmetry
