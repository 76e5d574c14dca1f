SPECIFICATION Spec
CONSTANTS
  None = None
  Methods = {"vcs.repos", "ci.pipelines", "ci.status", "work.items", "dns.records"}
  Authed = {"vcs.repos", "ci.pipelines", "ci.status"}
  Org = TRUE
  Wanted = {}
  ItemRepos <- MCItemRepos
  HistoryRepos <- MCHistoryRepos
  PageSize = 2
  DefaultSize = 3
  MaxPages <- MCMaxPages
  MaxSelectorRepos = 2
  MaxWorkflows = 2
  MaxRuns = 3
  First <- MCFirst
  Spare <- MCSpare
  Margin = 2
  Lifetime = 4
  Timeout = 2
  MaxClock = 5
  MaxChanges = 1
INVARIANTS PublishedIsWhole SectionsTold TokenLasts
CHECK_DEADLOCK FALSE
