SPECIFICATION FairSpec
CONSTANTS
  Jobs = {j1, j2}
  Fibers = {f1, f2}
  Main = Main
  None = None
  MaxDepth = 1
PROPERTIES
  QueueSpec
  EveryJobSettles
  TrapReachesJob
CHECK_DEADLOCK FALSE
