SPECIFICATION FairSpec
CONSTANTS
  Methods = {m1}
  Contexts = {c0, c1}
  Default = c0
  Suspends = TRUE
  MaxRpc = 4
  MaxEvents = 2
  None = None
INVARIANTS
  TypeOK
  OneAnswer
  EventsExactlyOnce
  EventsWithTheirOp
PROPERTIES
  LedgerSpec
  EveryCallSettles
CHECK_DEADLOCK FALSE
