SPECIFICATION Spec
CONSTANTS
  Resources = {r1, r2}
  Records = {s1, s2}
  None = None
  Components <- MCComponents
  Commands <- MCCommands
  Constructor <- New
INVARIANTS
  TypeOK
  OperationsFit
  PageAgrees
CHECK_DEADLOCK FALSE
