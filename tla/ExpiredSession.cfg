SPECIFICATION Spec
CONSTANTS
  agent = agent  editor = editor  t1 = t1  t2 = t2  sA = sA  sB = sB
  Threads = {t1, t2}  SessionIds = {sA}  NoSession = NoSession
  Principals = {agent, editor}  Anonymous = Anonymous
  Requests <- SessionRequests
  Scopes <- MCScopes  Expires <- MCExpires  Options <- OneOption
  Ttl = 1  Window = 2  Limit = 4  Stall = 1
  MaxClock = 2  MaxRequests = 3
CHECK_DEADLOCK FALSE
PROPERTIES IdleExpires
