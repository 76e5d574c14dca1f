SPECIFICATION Spec
CONSTANTS
  agent = agent  editor = editor  t1 = t1  t2 = t2  sA = sA  sB = sB
  Threads = {t1, t2}  SessionIds = {sA}  NoSession = NoSession
  Principals = {agent, editor}  Anonymous = Anonymous
  Requests <- MCRequests
  Scopes <- MCScopes  Expires <- MCExpires  Options <- MCOptions
  Ttl = 1  Window = 3  Limit = 2  Stall = 1
  MaxClock = 3  MaxRequests = 4
SYMMETRY Symmetry
CHECK_DEADLOCK FALSE
INVARIANTS TypeOK AcceptedHaveAge WindowHolds WritesAudited
