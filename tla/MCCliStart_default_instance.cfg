SPECIFICATION Spec
CONSTANTS
  Resources = {r1, r2}
  Records = {s1, s2}
  None = None
  Components <- SmallComponents
  Commands <- MCCommands
  Constructor <- New
INVARIANTS
  DefaultsToTheOwner
CHECK_DEADLOCK FALSE
