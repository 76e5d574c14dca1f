SPECIFICATION Spec
CONSTANTS
  d1 = d1  d2 = d2
  Dirs = {d1}
  MaxTx = 2
CHECK_DEADLOCK FALSE
INVARIANTS TransactionConsistent
