SPECIFICATION Spec
CONSTANTS
  s1 = s1  s2 = s2  e1 = e1  e2 = e2  m1 = m1  m2 = m2  v1 = v1  v2 = v2
  Unset = Unset  Absent = Absent  Values = {v1, v2}
  Runs = {r1}  Overlap = FALSE
  Sources = {s1}  Order <- SplitOrder  Methods = {m1, m2}
  Entities = {e1, e2}  Sees <- SplitSees  EmptyIsOdd = {}
  MaxClock = 1  MaxChanges = 2  MaxDecisions = 0
PROPERTIES EvidenceKept
