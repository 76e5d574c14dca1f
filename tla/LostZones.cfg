SPECIFICATION Spec
CONSTANTS
  None = None
  Fields <- MCFields
  ModuleFields <- MCModuleFields
  Ttl <- MCTtl
  DefaultTtl = 2
  SecretKey <- MCSecretKey
  Selects <- MCSelects
  Things <- MCThings
  Fickle <- MCFickle
  Place <- MCPlace
  Exes <- MCExes
  Files <- MCFiles
  Local = {}
  Catalogs <- MCCatalogs
  Reaches <- LostZones
  Mishaps = {"fine", "throttled", "undecodable"}
  Handshakes <- MCHandshakes
  Alphabet <- MCAlphabet
  MaxClock = 1
  MaxChanges = 1
INVARIANT MissingIsAbsence
CHECK_DEADLOCK FALSE
