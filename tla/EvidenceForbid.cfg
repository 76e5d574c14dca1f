SPECIFICATION Spec
CONSTANTS
  s1 = s1  s2 = s2  e1 = e1  e2 = e2  m1 = m1  m2 = m2  v1 = v1  v2 = v2
  Unset = Unset  Absent = Absent  Values = {v1, v2}
  Runs = {r1}  Overlap = FALSE
  Sources = {s1, s2}  Order <- PairOrder  Methods = {m1}
  Entities = {e1}  Sees <- PairSees  EmptyIsOdd = {s1}
  MaxClock = 1  MaxChanges = 1  MaxDecisions = 1
SYMMETRY Symmetry
INVARIANTS TypeOK CurrentIsInHistory
PROPERTIES RecordsSurvive DeadSourceKeepsEvidence ContestHasEvidence
