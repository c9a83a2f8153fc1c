SPECIFICATION FairSpec
CONSTANTS
  Clients = {c1}
  Methods = {1}
  Declared = {1}
  QueueCap = 1
  None = None
PROPERTIES StopsOnCtrlC
CHECK_DEADLOCK FALSE
