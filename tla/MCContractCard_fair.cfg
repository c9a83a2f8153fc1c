SPECIFICATION FairCardSpec
CONSTANTS
  Methods = {m1}
  Contexts = {c0, c1}
  Default = c0
  Suspends = FALSE
  MaxRpc = 15
  MaxEvents = 0
  MaxClicks = 4
  None = None
INVARIANTS
  CardTypeOK
  CardsMatchTable
  FormIsApplied
  StorageIsCurrent
  OnlyCallableOffered
  PanelIsDrawn
PROPERTIES LoadingEnds
CHECK_DEADLOCK FALSE
