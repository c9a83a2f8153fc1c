SPECIFICATION Spec
CONSTANTS
  Jobs = {j1, j2}
  Fibers = {f1, f2}
  Main = Main
  None = None
  MaxDepth = 2
SYMMETRY Symmetry
INVARIANTS
  TypeOK
  OneRoot
  OneContinuation
  StackSafe
  NoLostWake
  ParkSlotFree
  IndInv
CHECK_DEADLOCK FALSE
