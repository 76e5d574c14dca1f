SPECIFICATION Spec
CONSTANTS
  None = None
  Wildcards = {None, "0.0.0.0"}
  NonTargets = {"workstation"}
  PublicWords = {"public"}
  GpuWords = {"gpu"}
  Negations = {"not"}
  Stopwords = {"service"}
  Asks <- MCAsks
  Agents <- MCAgents
  Wants <- MCWants
  EndpointIds <- MCEndpointIds
  Endings <- MCEndings
  Pipelines <- MCPipelines
  Base <- MCBase
  Roles = {"docker", "workstation"}
  Addresses = {"10.0.0.1", "10.0.0.2"}
  Tells = {{"host"}, {"service"}}
  Contestable = {"h1"}
  MaxDeploys = 2
  MaxEdits = 1
INVARIANTS TypeOK NoUnseenClash OfferedHostsPass Forewarned GateCoversCheck
CHECK_DEADLOCK FALSE
