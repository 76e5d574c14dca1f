SPECIFICATION Spec
CONSTANTS
  host = host  runner = runner  item = item  item2 = item2  service = service  door = door
  plain = plain  placed = placed  vendor = vendor  public = public  blocked = blocked
  note = note  t0 = t0  t1 = t1  mark = mark
  NoNote = NoNote  Absent = Absent  NoTier = t0  NoClient = NoClient
  Ids <- MCIds  ManifestIds <- MCManifest  Bodies <- MCBodies
  Notes = {note}  Tiers = {t0, t1}  Marks = {mark}
  CheckRefs <- MCCheckRefs  LoadRefs <- MCLoadRefs  OptIn <- MCOptIn
  Owned <- MCOwned  Providers <- MCProviders  RunsOn = {}
  Files <- MCFiles  Calls <- DormantCalls
  Clients = {c1, c2}  Checked = {}
  MaxRevision = 2
PROPERTIES DormantRowsKept
