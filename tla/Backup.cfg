SPECIFICATION Spec
CONSTANTS
  d1 = d1  d2 = d2
  Dirs = {d1, d2}
  MaxTx = 2
SYMMETRY Symmetry
CHECK_DEADLOCK FALSE
INVARIANTS TypeOK RevisionNotBehind OnlyWholeBackups
PROPERTIES RestoreIsWhole
