SPECIFICATION FairSpec
CONSTANTS
  Clients = {c1, c2}
  Methods = {1, 2, 3}
  Declared = {1, 3}
  QueueCap = 1
  None = None
INVARIANTS
  TypeOK
  AtMostOnce
  EffectsAnswered
  OnlyDeclared
PROPERTIES
  EventuallyAnswered
  CtrlCStops
CHECK_DEADLOCK FALSE
