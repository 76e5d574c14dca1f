SPECIFICATION Spec
CONSTANTS
  host = host  runner = runner  item = item  item2 = item2  service = service  door = door
  plain = plain  placed = placed  vendor = vendor  public = public  blocked = blocked
  note = note  t0 = t0  t1 = t1  mark = mark
  NoNote = NoNote  Absent = Absent  NoTier = t0  NoClient = NoClient
  Ids <- WorkIds  ManifestIds <- WorkIds  Bodies <- WorkBodies
  Notes = {note}  Tiers = {t0, t1}  Marks = {mark}
  CheckRefs = {}  LoadRefs <- WorkRefs  OptIn = {}
  Owned = {}  Providers = {}  RunsOn = {}
  Files = {}  Calls <- WorkCalls
  Clients = {c1}  Checked = {}
  MaxRevision = 3
INVARIANTS WorkGraphResolves
