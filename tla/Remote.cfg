SPECIFICATION Spec
CONSTANTS
  None = None  Consumers = {c1}
  Setups <- MCSetups  Asks <- MCAsks  Spelling <- MCSpelling  Decoding <- MCDecoding
  Scopes <- MCScopes  Options <- MCOptions
  MaxCalls = 2  MaxMishaps = 1
CHECK_DEADLOCK FALSE
INVARIANTS AnswersTrue
PROPERTIES CallsEnd
