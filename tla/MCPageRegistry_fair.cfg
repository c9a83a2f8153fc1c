SPECIFICATION FairSpec
CONSTANTS
  Tasks = {t1, t2, t3}
  Files = {score, other}
  Example = score
  MaxDrop = 2
  None = None
INVARIANTS
  TypeOK
  LoadedOnce
  ButtonTracksExample
PROPERTIES FilesAreLoaded
CHECK_DEADLOCK FALSE
