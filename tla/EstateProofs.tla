---------------------------- MODULE EstateProofs ----------------------------
(***************************************************************************)
(* What holds of Estate whatever the catalog, the agents, their files and  *)
(* the collectors are: what the answers of `context-for` and `check`, and  *)
(* the write gate, promise one another and the services that go up.        *)
(*                                                                         *)
(* AgentInv says what an agent at work holds, CatalogInv what edits leave  *)
(* of the catalog, GateInv that the gate passes what is stored, OfferInv   *)
(* that a placed agent still has the answer it was given.  For the clashes *)
(* of services, RunningInv and ClearedInv say that what is up, or cleared  *)
(* to go up, avoids all its check was shown, and EvidenceInv that what is  *)
(* reported stays known by its id.                                         *)
(***************************************************************************)
EXTENDS Estate, TLAPS

-----------------------------------------------------------------------------
(* What the rules may say.                                                 *)

\* A finding keeps its code and its level.
LEMMA CodeOf ==
  ASSUME NEW level, NEW code, NEW subject
  PROVE  /\ Finding(level, code, subject).code = code
         /\ Error(code, subject).code = code /\ Warn(code, subject).code = code
         /\ Finding(level, code, subject).level = level
         /\ Error(code, subject).level = "error" /\ Warn(code, subject).level = "warn"
BY DEF Error, Warn, Finding

GateCodes == {"execution-public-access", "execution-placement", "topology-missing"}
HostCodes == {"unknown-host", "exposure-network-class"}

\* The other rules about services and references.
LEMMA ServiceRules ==
  ASSUME NEW cat, NEW art, NEW observed,
         NEW f \in UNION {
           ExposureRequiresIngress(cat, art), ExposureNoneConflict(cat, art),
           FrontedByValidation(cat, art), ArtifactInternalCollision(art),
           HostnameCollision(cat, art, observed), PortCollision(cat, art, observed),
           SecretRefFormat(cat, art), SecretRefUnknown(cat, art, observed),
           ServiceNameConvention(cat, art), ServiceNameCollision(cat, art)}
  PROVE  f.code \notin GateCodes \union HostCodes
<1>1. CASE f \in ExposureRequiresIngress(cat, art)
  BY <1>1, CodeOf DEF ExposureRequiresIngress, GateCodes, HostCodes
<1>2. CASE f \in ExposureNoneConflict(cat, art)
  BY <1>2, CodeOf DEF ExposureNoneConflict, GateCodes, HostCodes
<1>3. CASE f \in FrontedByValidation(cat, art)
  BY <1>3, CodeOf DEF FrontedByValidation, GateCodes, HostCodes
<1>4. CASE f \in ArtifactInternalCollision(art)
  <2>1. PICK names, listeners :
          ArtifactInternalCollision(art) =
            {Error("artifact-internal-collision", n) : n \in names} \union
            {Error("artifact-internal-collision", l.host) : l \in listeners}
    BY Zenon DEF ArtifactInternalCollision
  <2>2. PICK subject : f = Error("artifact-internal-collision", subject)
    BY <1>4, <2>1
  <2> QED BY <2>2, CodeOf DEF GateCodes, HostCodes
<1>5. CASE f \in HostnameCollision(cat, art, observed)
  BY <1>5, CodeOf DEF HostnameCollision, GateCodes, HostCodes
<1>6. CASE f \in PortCollision(cat, art, observed)
  BY <1>6, CodeOf DEF PortCollision, GateCodes, HostCodes, When
<1>7. CASE f \in SecretRefFormat(cat, art)
  BY <1>7, CodeOf DEF SecretRefFormat, GateCodes, HostCodes
<1>8. CASE f \in SecretRefUnknown(cat, art, observed)
  BY <1>8, CodeOf DEF SecretRefUnknown, GateCodes, HostCodes
<1>9. CASE f \in ServiceNameConvention(cat, art)
  BY <1>9, CodeOf DEF ServiceNameConvention, GateCodes, HostCodes
<1>10. CASE f \in ServiceNameCollision(cat, art)
  BY <1>10, CodeOf DEF ServiceNameCollision, GateCodes, HostCodes
<1> QED
  BY <1>1, <1>2, <1>3, <1>4, <1>5, <1>6, <1>7, <1>8, <1>9, <1>10

\* The rules about jobs and grants, and what a file says of its topology.
LEMMA JobRules ==
  ASSUME NEW cat, NEW art, NEW observed,
         NEW f \in UNION {PipelineAuthority(cat, art), ExecutionIndeterminate(art),
           ExecutionUnsatisfiable(cat, art), ExecutionHostedPool(cat, art),
           ExecutionCapability(cat, art), ExecutionAvailability(cat, art, observed),
           When(art.kind = "grants", GrantFindings(art.grants)), TopologyClaim(cat, art)}
  PROVE  f.code \notin GateCodes \union HostCodes
<1>1. CASE f \in PipelineAuthority(cat, art)
  BY <1>1, CodeOf DEF PipelineAuthority, When, GateCodes, HostCodes
<1>2. CASE f \in ExecutionIndeterminate(art)
  BY <1>2, CodeOf DEF ExecutionIndeterminate, GateCodes, HostCodes
<1>3. CASE f \in ExecutionUnsatisfiable(cat, art)
  BY <1>3, CodeOf DEF ExecutionUnsatisfiable, When, GateCodes, HostCodes
<1>4. CASE f \in ExecutionHostedPool(cat, art)
  BY <1>4, CodeOf DEF ExecutionHostedPool, When, GateCodes, HostCodes
<1>5. CASE f \in ExecutionCapability(cat, art)
  BY <1>5, CodeOf DEF ExecutionCapability, GateCodes, HostCodes
<1>6. CASE f \in ExecutionAvailability(cat, art, observed)
  BY <1>6, CodeOf DEF ExecutionAvailability, GateCodes, HostCodes
<1>7. CASE f \in When(art.kind = "grants", GrantFindings(art.grants))
  BY <1>7, CodeOf DEF GrantFindings, When, GateCodes, HostCodes
<1>8. CASE f \in TopologyClaim(cat, art)
  BY <1>8, CodeOf DEF TopologyClaim, When, GateCodes, HostCodes
<1> QED BY <1>1, <1>2, <1>3, <1>4, <1>5, <1>6, <1>7, <1>8

\* The rules about a file's hosts.
LEMMA HostRules ==
  ASSUME NEW cat, NEW art, NEW f \in UnknownHost(cat, art) \union ExposureNetworkClass(cat, art)
  PROVE  f.code \notin GateCodes
<1>1. CASE f \in UnknownHost(cat, art)
  BY <1>1, CodeOf DEF UnknownHost, GateCodes
<1>2. CASE f \in ExposureNetworkClass(cat, art)
  BY <1>2, CodeOf DEF ExposureNetworkClass, GateCodes, When
<1> QED BY <1>1, <1>2

\* The rules the gate runs too.
LEMMA GateRules ==
  ASSUME NEW cat, NEW pools, NEW execs,
         NEW f \in UNION {PublicAccessFindings(cat, pools), PlacementFindings(cat, execs),
                          TopologyDrift(cat)}
  PROVE  f.code \notin HostCodes
<1>1. CASE f \in PublicAccessFindings(cat, pools)
  BY <1>1, CodeOf DEF PublicAccessFindings, HostCodes, When
<1>2. CASE f \in PlacementFindings(cat, execs)
  BY <1>2, CodeOf DEF PlacementFindings, HostCodes
<1>3. CASE f \in TopologyDrift(cat)
  BY <1>3, CodeOf DEF TopologyDrift, HostCodes
<1> QED BY <1>1, <1>2, <1>3

\* A finding of `check` is of one of the four sorts.
LEMMA Sorts ==
  ASSUME NEW cat, NEW art, NEW observed, NEW f \in Check(cat, art, observed)
  PROVE  \/ f \in UnknownHost(cat, art) \union ExposureNetworkClass(cat, art)
         \/ f \in UNION {ExposureRequiresIngress(cat, art), ExposureNoneConflict(cat, art),
           FrontedByValidation(cat, art), ArtifactInternalCollision(art),
           HostnameCollision(cat, art, observed), PortCollision(cat, art, observed),
           SecretRefFormat(cat, art), SecretRefUnknown(cat, art, observed),
           ServiceNameConvention(cat, art), ServiceNameCollision(cat, art)}
         \/ f \in UNION {PipelineAuthority(cat, art), ExecutionIndeterminate(art),
           ExecutionUnsatisfiable(cat, art), ExecutionHostedPool(cat, art),
           ExecutionCapability(cat, art), ExecutionAvailability(cat, art, observed),
           When(art.kind = "grants", GrantFindings(art.grants)), TopologyClaim(cat, art)}
         \/ f \in UNION {PublicAccessFindings(cat, ReachablePools(cat, art)),
           PlacementFindings(cat, ReachableExecutors(cat, art)), TopologyDrift(cat)}
BY DEF Check

\* A pipeline reaches executors and pools of the catalog only, so what `check`
\* says of those the gate would have said.
LEMMA GateSaysSo ==
  ASSUME NEW cat, NEW art, NEW observed, NEW f \in Errors(Check(cat, art, observed)),
         f.code \in GateCodes
  PROVE  f \in Errors(CheckCatalog(cat))
<1>1. f.level = "error"
  BY DEF Errors
<1>2. f \in UNION {PublicAccessFindings(cat, ReachablePools(cat, art)),
                   PlacementFindings(cat, ReachableExecutors(cat, art)), TopologyDrift(cat)}
  <2>1. f \in Check(cat, art, observed)
    BY DEF Errors
  <2> QED BY <2>1, Sorts, HostRules, ServiceRules, JobRules
<1>3. ReachablePools(cat, art) \subseteq DOMAIN cat.pools
  BY DEF ReachablePools
<1>4. ReachableExecutors(cat, art) \subseteq DOMAIN cat.execs
  BY DEF ReachableExecutors, EligibleFor, Eligible
<1>5. PublicAccessFindings(cat, ReachablePools(cat, art)) \subseteq
        PublicAccessFindings(cat, DOMAIN cat.pools)
  BY <1>3 DEF PublicAccessFindings, When
<1>6. PlacementFindings(cat, ReachableExecutors(cat, art)) \subseteq
        PlacementFindings(cat, DOMAIN cat.execs)
  BY <1>4 DEF PlacementFindings
<1>7. f \in CheckCatalog(cat)
  BY <1>2, <1>5, <1>6 DEF CheckCatalog
<1> QED BY <1>1, <1>7 DEF Errors

-----------------------------------------------------------------------------
(* The gate.                                                               *)

GateInv == Errors(CheckCatalog(catalog)) = {}

Writes ==
  \/ \E a \in Agents : DeclareService(a) \/ DeclareEndpoint(a)
  \/ \E s \in DOMAIN catalog.services : WithdrawService(s)
  \/ \E e \in catalog.endpoints : WithdrawEndpoint(e)
  \/ \E h \in DOMAIN catalog.hosts, role \in Roles : SetRole(h, role)
  \/ \E x \in DOMAIN catalog.execs, h \in DOMAIN catalog.hosts : MoveExecutor(x, h)

\* Nothing but a write changes the catalog.
LEMMA OnlyWritesWrite == ASSUME [Next]_vars PROVE Writes \/ UNCHANGED catalog
BY DEF Next, vars, Writes, Consult, CheckFile, Deploy, Stop, Collect, GoesStale, ContestHost

\* And every write goes through the gate.
LEMMA GateNext == ASSUME GateInv, [Next]_vars PROVE GateInv'
<1>1. CASE Writes
  <2>1. \E cat : Gate(cat)
    <3>1. CASE \E a \in Agents : DeclareService(a)
      BY <3>1 DEF DeclareService
    <3>2. CASE \E a \in Agents : DeclareEndpoint(a)
      BY <3>2 DEF DeclareEndpoint
    <3>3. CASE \E s \in DOMAIN catalog.services : WithdrawService(s)
      BY <3>3 DEF WithdrawService
    <3>4. CASE \E e \in catalog.endpoints : WithdrawEndpoint(e)
      BY <3>4 DEF WithdrawEndpoint
    <3>5. CASE \E h \in DOMAIN catalog.hosts, role \in Roles : SetRole(h, role)
      BY <3>5 DEF SetRole
    <3>6. CASE \E x \in DOMAIN catalog.execs, h \in DOMAIN catalog.hosts : MoveExecutor(x, h)
      BY <3>6 DEF MoveExecutor
    <3> QED BY <1>1, <3>1, <3>2, <3>3, <3>4, <3>5, <3>6 DEF Writes
  <2> QED BY <2>1 DEF Gate, GateInv
<1>2. CASE UNCHANGED catalog
  BY <1>2 DEF GateInv
<1> QED BY <1>1, <1>2, OnlyWritesWrite

(* What the gate let in is not held against a pipeline afterwards          *)
(* (core/writes.py runs rules.check_catalog; rules.run runs the same three *)
(* rules over what a pipeline file reaches): no sequence of edits leads to *)
(* a catalog on which a pipeline fails for a pool, an executor or a        *)
(* topology.                                                               *)
THEOREM GateCovers == Spec => []GateCoversCheck
<1>1. Init => GateInv
  BY BaseAssumption DEF Init, GateInv
<1>2. GateInv => GateCoversCheck
  BY GateSaysSo DEF GateInv, GateCoversCheck, GateCodes
<1> QED BY <1>1, <1>2, GateNext, PTL DEF Spec

-----------------------------------------------------------------------------
(* The shape of a state.                                                   *)

\* The service of a want on a host.
Service(want, host) ==
  [name |-> ServiceOf(want), host |-> host,
   expose |-> Given(want.raw.expose, want.top.expose),
   bindings |-> PortBindings(want.raw.ports), hostnames |-> want.raw.hostnames,
   fronted |-> Given(want.raw.fronted, want.top.fronted)]

AgentInv ==
  /\ DOMAIN agent = Agents
  /\ \A a \in Agents :
       /\ agent[a] = [pc |-> agent[a].pc, want |-> agent[a].want, host |-> agent[a].host,
                      rev |-> agent[a].rev, conflicts |-> agent[a].conflicts,
                      seen |-> agent[a].seen]
       /\ agent[a].pc \in {"idle", "placed", "cleared", "up", "half"}
       /\ agent[a].pc # "idle" =>
            agent[a].want \in Wants[a] /\ agent[a].host \in DOMAIN Base.hosts
CatalogInv ==
  /\ DOMAIN catalog = DOMAIN Base /\ DOMAIN catalog.hosts = DOMAIN Base.hosts
  /\ catalog.policy = Base.policy
  /\ \A s \in DOMAIN catalog.services : catalog.services[s].on \in DOMAIN Base.hosts
  /\ \A e \in catalog.endpoints :
       \/ e \in Base.endpoints
       \/ \E a \in Agents : \E w \in Wants[a] :
            e.service = ServiceOf(w) /\ \E b \in PortBindings(w.raw.ports) : e.port = b.port

\* An agent with something to deploy has a file of one service.
LEMMA ProposedIs ==
  ASSUME AgentInv, NEW a \in Agents, agent[a].pc # "idle"
  PROVE  /\ Proposal(a).services = {Service(agent[a].want, agent[a].host)}
         /\ Proposed(a) = Service(agent[a].want, agent[a].host)
         /\ Proposal(a).routes = {}
<1>1. PICK want, host, file : want = agent[a].want /\ host = agent[a].host /\ file = FileOf(a)
  OBVIOUS
<1>2. want \in Wants[a]
  BY <1>1 DEF AgentInv
<1>3. PICK top : top = [want.top EXCEPT !.host = host]
  OBVIOUS
<1>4. top.host = host /\ top.expose = want.top.expose /\ top.fronted = want.top.fronted
  BY <1>2, <1>3, WantsAssumption
<1>5. /\ file.kind = "compose" /\ file.top = top
      /\ file.services = [k \in {want.key} |-> want.raw]
  BY <1>1, <1>3 DEF FileOf
<1>6. ProposedService(want.key, want.raw, top) = Service(want, host)
  BY <1>2, <1>4, WantsAssumption DEF ProposedService, Service, ServiceOf, Given
<1>7. {ProposedService(k, file.services[k], file.top) : k \in DOMAIN file.services}
        = {Service(want, host)}
  BY <1>5, <1>6
<1>8. Proposal(a) = ParseCompose(file)
  BY <1>1, <1>5 DEF Proposal, Parse
<1>9. Proposal(a).services = {Service(want, host)} /\ Proposal(a).routes = {}
  BY <1>7, <1>8 DEF ParseCompose, Blank
<1> QED BY <1>1, <1>9 DEF Proposed

LEMMA AgentInit == Init => AgentInv
BY DEF Init, AgentInv, Resting

\* An agent moves on, and the others stay where they are.
LEMMA AgentMoves ==
  ASSUME AgentInv, NEW a \in Agents, NEW row, agent' = [agent EXCEPT ![a] = row],
         row = [pc |-> row.pc, want |-> row.want, host |-> row.host, rev |-> row.rev,
                conflicts |-> row.conflicts, seen |-> row.seen],
         row.pc \in {"idle", "placed", "cleared", "up", "half"},
         row.pc # "idle" => row.want \in Wants[a] /\ row.host \in DOMAIN Base.hosts
  PROVE  AgentInv'
BY DEF AgentInv

\* An agent that asks is given one of the candidates.
LEMMA ConsultIs ==
  ASSUME CatalogInv, NEW a \in Agents, NEW want \in Wants[a], Consult(a, want)
  PROVE  \E h \in Candidates(catalog, Requirements(catalog, want.intent)) :
           /\ h \in DOMAIN Base.hosts
           /\ agent' = [agent EXCEPT ![a] =
                [pc |-> "placed", want |-> want, host |-> h, rev |-> catalog,
                 conflicts |-> Conflicts(catalog, Requirements(catalog, want.intent)),
                 seen |-> Unseen]]
<1>1. PICK answer : answer = ContextFor(catalog, want.intent, contested)
  OBVIOUS
<1>2. PICK h \in answer.candidates :
        agent' = [agent EXCEPT ![a] =
                    [pc |-> "placed", want |-> want, host |-> h, rev |-> catalog,
                     conflicts |-> answer.conflicts, seen |-> Unseen]]
  BY <1>1 DEF Consult
<1>3. /\ answer.candidates \subseteq Candidates(catalog, Requirements(catalog, want.intent))
      /\ answer.conflicts = Conflicts(catalog, Requirements(catalog, want.intent))
  BY <1>1 DEF ContextFor
<1>4. h \in DOMAIN Base.hosts
  BY <1>2, <1>3 DEF Candidates, CatalogInv
<1> QED BY <1>2, <1>3, <1>4

LEMMA AgentNext ==
  ASSUME AgentInv, CatalogInv, [Next]_vars
  PROVE  AgentInv'
<1>1. CASE \E a \in Agents : \E w \in Wants[a] : Consult(a, w)
  BY <1>1, ConsultIs, AgentMoves
<1>2. ASSUME NEW a \in Agents, CheckFile(a) PROVE AgentInv'
  <2>1. PICK seen : \/ agent' = [agent EXCEPT ![a] = Resting]
                    \/ agent' = [agent EXCEPT ![a] =
                         [pc |-> "cleared", want |-> agent[a].want, host |-> agent[a].host,
                          rev |-> Base, conflicts |-> {}, seen |-> seen]]
    BY <1>2 DEF CheckFile
  <2>2. agent[a].pc = "placed"
    BY <1>2 DEF CheckFile
  <2> QED BY <2>1, <2>2, AgentMoves DEF Resting, AgentInv
<1>3. ASSUME NEW a \in Agents, Deploy(a) PROVE AgentInv'
  <2>1. agent' = [agent EXCEPT ![a] = [agent[a] EXCEPT !.pc = "up", !.seen = Unseen]]
    BY <1>3 DEF Deploy, AgentInv
  <2>2. agent[a].pc = "cleared"
    BY <1>3 DEF Deploy
  <2>3. PICK old, row : old = agent[a] /\ row = [old EXCEPT !.pc = "up", !.seen = Unseen]
    OBVIOUS
  <2>4. old = [pc |-> old.pc, want |-> old.want, host |-> old.host, rev |-> old.rev,
               conflicts |-> old.conflicts, seen |-> old.seen]
    BY <2>3 DEF AgentInv
  <2>5. /\ row = [pc |-> row.pc, want |-> row.want, host |-> row.host, rev |-> row.rev,
                  conflicts |-> row.conflicts, seen |-> row.seen]
        /\ row.pc = "up" /\ row.want = old.want /\ row.host = old.host
    BY <2>3, <2>4
  <2>6. old.want \in Wants[a] /\ old.host \in DOMAIN Base.hosts
    BY <2>2, <2>3 DEF AgentInv
  <2> QED BY <2>1, <2>3, <2>5, <2>6, AgentMoves
<1>4. ASSUME NEW a \in Agents, DeclareService(a) PROVE AgentInv'
  BY <1>4 DEF DeclareService, AgentInv
<1>5. ASSUME NEW a \in Agents, DeclareEndpoint(a) PROVE AgentInv'
  BY <1>5 DEF DeclareEndpoint, AgentInv, Resting
<1>6. CASE UNCHANGED agent
  BY <1>6 DEF AgentInv
<1> QED BY <1>1, <1>2, <1>3, <1>4, <1>5, <1>6 DEF Next, vars, WithdrawService, WithdrawEndpoint,
      SetRole, MoveExecutor, Stop, Collect, GoesStale, ContestHost

\* Past its check an agent only goes on deploying.
LEMMA AgentGoesOn ==
  ASSUME AgentInv, NEW a \in Agents, Deploy(a) \/ DeclareService(a) \/ DeclareEndpoint(a)
  PROVE  \E row : agent' = [agent EXCEPT ![a] = row] /\ row.pc \in {"up", "half", "idle"}
<1>1. CASE Deploy(a)
  <2>1. agent' = [agent EXCEPT ![a] = [agent[a] EXCEPT !.pc = "up", !.seen = Unseen]]
    BY <1>1 DEF Deploy, AgentInv
  <2>2. [agent[a] EXCEPT !.pc = "up", !.seen = Unseen].pc = "up"
    BY DEF AgentInv
  <2> QED BY <2>1, <2>2
<1>2. CASE DeclareService(a)
  <2>1. agent' = [agent EXCEPT ![a] = [agent[a] EXCEPT !.pc = "half"]]
    BY <1>2 DEF DeclareService, AgentInv
  <2>2. [agent[a] EXCEPT !.pc = "half"].pc = "half"
    BY DEF AgentInv
  <2> QED BY <2>1, <2>2
<1>3. CASE DeclareEndpoint(a)
  <2>1. PICK row : row = Resting
    OBVIOUS
  <2>2. row.pc = "idle"
    BY <2>1 DEF Resting
  <2> QED BY <1>3, <2>1, <2>2 DEF DeclareEndpoint
<1> QED BY <1>1, <1>2, <1>3

LEMMA CatalogInit == Init => CatalogInv
BY BaseAssumption DEF Init, CatalogInv

LEMMA CatalogNext ==
  ASSUME AgentInv, CatalogInv, [Next]_vars
  PROVE  CatalogInv'
<1>1. ASSUME NEW a \in Agents, DeclareService(a) PROVE CatalogInv'
  <2>1. PICK s : s = Proposed(a)
    OBVIOUS
  <2>0. PICK row : row = [on |-> s.host, tags |-> {}, by |-> {}]
    OBVIOUS
  <2>2. PICK rows : rows = [n \in DOMAIN catalog.services \union {s.name} |->
                              IF n = s.name THEN row ELSE catalog.services[n]]
    OBVIOUS
  <2>3. catalog' = [catalog EXCEPT !.services = rows] /\ agent[a].pc = "up"
    BY <1>1, <2>0, <2>1, <2>2 DEF DeclareService, Gate
  <2>4. s.host \in DOMAIN Base.hosts
    BY <2>1, <2>3, ProposedIs DEF Service, AgentInv
  <2>5. \A n \in DOMAIN rows : rows[n].on \in DOMAIN Base.hosts
    BY <2>0, <2>2, <2>4 DEF CatalogInv
  <2> QED BY <2>3, <2>5, BaseAssumption DEF CatalogInv
<1>2. ASSUME NEW a \in Agents, DeclareEndpoint(a) PROVE CatalogInv'
  <2>1. PICK s : s = Proposed(a)
    OBVIOUS
  <2>2. PICK rows : rows = EndpointRows(s)
    OBVIOUS
  <2>3. PICK left : left = {e \in catalog.endpoints : e.id # EndpointId(s)}
    OBVIOUS
  <2>4. catalog' = [catalog EXCEPT !.endpoints = left \union rows] /\ agent[a].pc = "half"
    BY <1>2, <2>1, <2>2, <2>3 DEF DeclareEndpoint, Gate
  <2>5. \A e \in rows : e.service = s.name /\ \E b \in s.bindings : e.port = b.port
    BY <2>2 DEF EndpointRows
  <2>6. /\ s.name = ServiceOf(agent[a].want) /\ s.bindings = PortBindings(agent[a].want.raw.ports)
        /\ agent[a].want \in Wants[a]
    BY <2>1, <2>4, ProposedIs DEF Service, AgentInv
  <2> QED BY <2>4, <2>3, <2>5, <2>6, BaseAssumption DEF CatalogInv
<1>3. ASSUME NEW s, WithdrawService(s) PROVE CatalogInv'
  <2>1. PICK rows : rows = [n \in DOMAIN catalog.services \ {s} |-> catalog.services[n]]
    OBVIOUS
  <2>2. catalog' = [catalog EXCEPT !.services = rows]
    BY <1>3, <2>1 DEF WithdrawService, Gate
  <2> QED BY <2>1, <2>2, BaseAssumption DEF CatalogInv
<1>4. ASSUME NEW e, WithdrawEndpoint(e) PROVE CatalogInv'
  BY <1>4, BaseAssumption DEF WithdrawEndpoint, Gate, CatalogInv
<1>5. ASSUME NEW h, NEW role, SetRole(h, role) PROVE CatalogInv'
  BY <1>5, BaseAssumption DEF SetRole, Gate, CatalogInv
<1>6. ASSUME NEW x, NEW h, MoveExecutor(x, h) PROVE CatalogInv'
  BY <1>6, BaseAssumption DEF MoveExecutor, Gate, CatalogInv
<1>7. CASE UNCHANGED catalog
  BY <1>7 DEF CatalogInv
<1> QED BY <1>1, <1>2, <1>3, <1>4, <1>5, <1>6, <1>7, OnlyWritesWrite DEF Writes

(* Every reachable state has its shape; what is up, and what an agent was  *)
(* offered, stands on a host of the catalog (placement.candidates).        *)
THEOREM TypeCorrect == Spec => []TypeOK
<1>1. Init => TypeOK
  BY BaseAssumption, BoundsAssumption DEF Init, TypeOK, NoSource, Resting
<1>2. ASSUME AgentInv, CatalogInv, TypeOK, [Next]_vars PROVE TypeOK'
  <2>1. AgentInv' /\ CatalogInv'
    BY <1>2, AgentNext, CatalogNext
  <2>2. \A r \in running' : r.host \in DOMAIN Base.hosts
    <3>1. ASSUME NEW a \in Agents, Deploy(a) PROVE \A r \in running' : r.host \in DOMAIN Base.hosts
      <4>1. PICK s : s = [Claims(Proposed(a)) EXCEPT !.seen = agent[a].seen]
        OBVIOUS
      <4>2. s.host \in DOMAIN Base.hosts
        BY <1>2, <3>1, <4>1, ProposedIs DEF Deploy, Claims, Service, AgentInv
      <4> QED BY <1>2, <3>1, <4>1, <4>2 DEF Deploy, TypeOK
    <3>2. CASE running' \subseteq running
      BY <1>2, <3>2 DEF TypeOK
    <3> QED BY <1>2, <3>1, <3>2 DEF Next, vars, Consult, CheckFile, DeclareService, DeclareEndpoint,
          WithdrawService, WithdrawEndpoint, SetRole, MoveExecutor, Stop, Collect, GoesStale,
          ContestHost
  <2>3. evidence'.ok \in BOOLEAN /\ DOMAIN evidence' = DOMAIN NoSource
    <3>1. ASSUME NEW tells, Collect(tells)
          PROVE  evidence'.ok \in BOOLEAN /\ DOMAIN evidence' = DOMAIN NoSource
      BY <3>1 DEF Collect, NoSource
    <3>2. CASE GoesStale
      BY <1>2, <3>2 DEF GoesStale, TypeOK, NoSource
    <3>3. CASE UNCHANGED evidence
      BY <1>2, <3>3 DEF TypeOK
    <3> QED BY <1>2, <3>1, <3>2, <3>3 DEF Next, vars, Consult, CheckFile, Deploy, DeclareService,
          DeclareEndpoint, WithdrawService, WithdrawEndpoint, SetRole, MoveExecutor, Stop,
          ContestHost
  <2>4. contested' \subseteq Contestable
    <3>1. ASSUME NEW h \in Contestable, ContestHost(h) PROVE contested' \subseteq Contestable
      BY <1>2, <3>1 DEF ContestHost, TypeOK
    <3>2. CASE UNCHANGED contested
      BY <1>2, <3>2 DEF TypeOK
    <3> QED BY <1>2, <3>1, <3>2 DEF Next, vars, Consult, CheckFile, Deploy, DeclareService,
          DeclareEndpoint, WithdrawService, WithdrawEndpoint, SetRole, MoveExecutor, Stop, Collect,
          GoesStale
  <2>5. deploys' \in 0..MaxDeploys
    <3>1. UNCHANGED deploys \/ (deploys < MaxDeploys /\ deploys' = deploys + 1)
      BY <1>2 DEF Next, vars, Consult, CheckFile, Deploy, DeclareService,
          DeclareEndpoint, WithdrawService, WithdrawEndpoint, SetRole, MoveExecutor, Stop, Collect,
          GoesStale, ContestHost
    <3> QED BY <1>2, <3>1, BoundsAssumption DEF TypeOK
  <2>6. edits' \in 0..MaxEdits
    <3>1. UNCHANGED edits \/ (edits < MaxEdits /\ edits' = edits + 1)
      BY <1>2 DEF Next, vars, Consult, CheckFile, Deploy, DeclareService,
          DeclareEndpoint, WithdrawService, WithdrawEndpoint, SetRole, MoveExecutor, Stop, Collect,
          GoesStale, ContestHost
    <3> QED BY <1>2, <3>1, BoundsAssumption DEF TypeOK
  <2> QED BY <2>1, <2>2, <2>3, <2>4, <2>5, <2>6 DEF TypeOK, AgentInv, CatalogInv
<1> QED BY AgentInit, CatalogInit, AgentNext, CatalogNext, <1>1, <1>2, PTL DEF Spec

-----------------------------------------------------------------------------
(* What context-for promises of the host it offers.                        *)

\* What the answer an agent placed its service by said of the host.
OfferInv ==
  \A a \in Agents : agent[a].pc = "placed" =>
    LET req == Requirements(agent[a].rev, agent[a].want.intent)
    IN /\ agent[a].host \in Candidates(agent[a].rev, req)
       /\ agent[a].conflicts = Conflicts(agent[a].rev, req)

LEMMA OfferInit == Init => OfferInv
BY DEF Init, OfferInv, Resting

LEMMA OfferNext ==
  ASSUME AgentInv, CatalogInv, OfferInv, [Next]_vars
  PROVE  OfferInv'
<1>1. ASSUME NEW a \in Agents, NEW w \in Wants[a], Consult(a, w) PROVE OfferInv'
  <2>1. PICK h \in Candidates(catalog, Requirements(catalog, w.intent)) :
          agent' = [agent EXCEPT ![a] =
                [pc |-> "placed", want |-> w, host |-> h, rev |-> catalog,
                 conflicts |-> Conflicts(catalog, Requirements(catalog, w.intent)),
                 seen |-> Unseen]]
    BY <1>1, ConsultIs
  <2>2. PICK cat : cat = catalog
    OBVIOUS
  <2>3. PICK row : row = [pc |-> "placed", want |-> w, host |-> h, rev |-> cat,
                          conflicts |-> Conflicts(cat, Requirements(cat, w.intent)),
                          seen |-> Unseen]
    OBVIOUS
  <2>4. /\ row.rev = cat /\ row.want = w /\ row.host = h
        /\ row.conflicts = Conflicts(cat, Requirements(cat, w.intent))
    BY <2>3
  <2>5. agent' = [agent EXCEPT ![a] = row]
    BY <2>1, <2>2, <2>3
  <2>6. \A c \in Agents : agent'[c] = IF c = a THEN row ELSE agent[c]
    BY <2>5 DEF AgentInv
  <2> QED BY <2>1, <2>2, <2>4, <2>6 DEF OfferInv
<1>2. ASSUME NEW a \in Agents, CheckFile(a) \/ Deploy(a) \/ DeclareService(a) \/ DeclareEndpoint(a)
      PROVE OfferInv'
  <2>1. PICK row : agent' = [agent EXCEPT ![a] = row] /\ row.pc # "placed"
    <3>1. CASE CheckFile(a)
      <4>1. PICK seen : \/ agent' = [agent EXCEPT ![a] = Resting]
                        \/ agent' = [agent EXCEPT ![a] =
                             [pc |-> "cleared", want |-> agent[a].want, host |-> agent[a].host,
                              rev |-> Base, conflicts |-> {}, seen |-> seen]]
        BY <3>1 DEF CheckFile
      <4>2. CASE agent' = [agent EXCEPT ![a] = Resting]
        <5>1. PICK row : row = Resting
          OBVIOUS
        <5>2. row.pc # "placed"
          BY <5>1 DEF Resting
        <5> QED BY <4>2, <5>1, <5>2
      <4>3. CASE agent' # [agent EXCEPT ![a] = Resting]
        <5>1. PICK want, host : want = agent[a].want /\ host = agent[a].host
          OBVIOUS
        <5>2. PICK row : row = [pc |-> "cleared", want |-> want, host |-> host, rev |-> Base,
                                conflicts |-> {}, seen |-> seen]
          OBVIOUS
        <5>3. row.pc # "placed"
          BY <5>2
        <5> QED BY <4>1, <4>3, <5>1, <5>2, <5>3
      <4> QED BY <4>2, <4>3
    <3>2. CASE Deploy(a) \/ DeclareService(a) \/ DeclareEndpoint(a)
      BY <3>2, AgentGoesOn
    <3> QED BY <1>2, <3>1, <3>2
  <2>2. \A c \in Agents : agent'[c] = IF c = a THEN row ELSE agent[c]
    BY <2>1 DEF AgentInv
  <2> QED BY <2>1, <2>2 DEF OfferInv
<1>3. CASE UNCHANGED agent
  BY <1>3 DEF OfferInv
<1> QED BY <1>1, <1>2, <1>3 DEF Next, vars, WithdrawService, WithdrawEndpoint, SetRole,
      MoveExecutor, Stop, Collect, GoesStale, ContestHost

\* The two pieces of code that ask whether a host is on a tier's network.
LEMMA SameTest ==
  ASSUME NEW cat, NEW tier, NEW h
  PROVE  HostReaches(cat, tier, h) <=> TierFits(cat, tier, h)
BY DEF HostReaches, TierFits, HostNetworkClasses

\* No edit changes what tier an intent is read as.
LEMMA SameExposure ==
  ASSUME NEW cat, cat.policy = Base.policy, NEW words
  PROVE  Exposure(cat, words) = Exposure(Base, words)
<1>1. TierNames(cat) = TierNames(Base) /\ PublicTiers(cat) = PublicTiers(Base)
  BY DEF TierNames, PublicTiers
<1> QED BY <1>1 DEF Exposure


\* A host of the catalog that is on the networks of the tier is one the rules
\* about hosts and exposure pass.
LEMMA HostRulesPass ==
  ASSUME NEW cat, NEW art, NEW observed, NEW s, art.services = {s}, s.host \in DOMAIN cat.hosts,
         s.expose # None => \A t \in Tiers(cat, s.expose) : TierFits(cat, t, s.host),
         NEW f \in Check(cat, art, observed)
  PROVE  f.code \notin HostCodes
<1>1. CASE f \in UnknownHost(cat, art)
  BY <1>1 DEF UnknownHost
<1>2. CASE f \in ExposureNetworkClass(cat, art)
  <2>1. PICK x \in art.services :
          /\ x.expose # None
          /\ f \in When(Tiers(cat, x.expose) = {}, {Error("unknown-exposure-tier", x.name)})
                  \union When(\E t \in Tiers(cat, x.expose) : ~TierFits(cat, t, x.host),
                              {Error("exposure-network-class", x.name)})
    BY <1>2, Zenon DEF ExposureNetworkClass
  <2>2. x = s
    BY <2>1
  <2>3. f = Error("unknown-exposure-tier", x.name)
    BY <2>1, <2>2 DEF When
  <2> QED BY <2>3, CodeOf DEF HostCodes
<1>3. CASE f \notin UnknownHost(cat, art) /\ f \notin ExposureNetworkClass(cat, art)
  BY <1>3, Sorts, ServiceRules, JobRules, GateRules
<1> QED BY <1>1, <1>2, <1>3

\* A host context-for offers is on the networks of the tier it read.
LEMMA CandidateFits ==
  ASSUME NEW cat, NEW words, NEW h \in Candidates(cat, Requirements(cat, words))
  PROVE  /\ h \in DOMAIN cat.hosts
         /\ \A t \in Tiers(cat, Exposure(cat, words)) : TierFits(cat, t, h)
<1>1. PICK req : req = Requirements(cat, words)
  OBVIOUS
<1>2. req.expose = Exposure(cat, words)
  BY <1>1 DEF Requirements
<1>3. h \in DOMAIN cat.hosts /\ ~Rejected(cat, h, req)
  BY <1>1 DEF Candidates
<1>4. \A t \in Tiers(cat, req.expose) : HostReaches(cat, t, h)
  BY <1>3, Zenon DEF Rejected
<1> QED BY <1>2, <1>3, <1>4, SameTest

(* A host context-for offers passes the rules of `check` about hosts and   *)
(* networks as long as the catalog stays (placement._reject against        *)
(* rules.unknown_host and exposure_network_class).  It takes that a file   *)
(* asks for the exposure its intent was read as.                           *)
THEOREM OfferedPass == FileFollowsIntent => (Spec => []OfferedHostsPass)
<1> SUFFICES ASSUME FileFollowsIntent PROVE Spec => []OfferedHostsPass
  OBVIOUS
<1>1. ASSUME AgentInv, CatalogInv, OfferInv PROVE OfferedHostsPass
  <2> SUFFICES ASSUME NEW a \in Agents, agent[a].pc = "placed", catalog = agent[a].rev,
                      NEW f \in Check(catalog, Proposal(a), {evidence})
               PROVE  f.code \notin HostCodes
    BY DEF OfferedHostsPass, HostCodes
  <2>1. PICK want, host, s : want = agent[a].want /\ host = agent[a].host /\ s = Service(want, host)
    OBVIOUS
  <2>2. Proposal(a).services = {s} /\ want \in Wants[a]
    BY <1>1, <2>1, ProposedIs DEF AgentInv
  <2>3. host \in Candidates(catalog, Requirements(catalog, want.intent))
    BY <1>1, <2>1 DEF OfferInv
  <2>4. /\ s.host = host /\ s.expose = Given(want.raw.expose, want.top.expose)
    BY <2>1 DEF Service
  <2>5. s.expose # None => s.expose = Exposure(catalog, want.intent)
    BY <1>1, <2>2, <2>4, SameExposure DEF FileFollowsIntent, CatalogInv
  <2>6. s.host \in DOMAIN catalog.hosts
        /\ (s.expose # None => \A t \in Tiers(catalog, s.expose) : TierFits(catalog, t, s.host))
    BY <2>3, <2>4, <2>5, CandidateFits
  <2> QED BY <2>2, <2>6, HostRulesPass
<1> QED BY <1>1, AgentInit, CatalogInit, OfferInit, AgentNext, CatalogNext, OfferNext, PTL DEF Spec

LEMMA Forewarning ==
  ASSUME PortsSpelt, AgentInv, CatalogInv, OfferInv
  PROVE  Forewarned
<1> SUFFICES ASSUME NEW a \in Agents, agent[a].pc = "placed", catalog = agent[a].rev,
                    NEW b \in Proposed(a).bindings,
                    NEW t \in DeclaredBindings(catalog, Proposed(a).host),
                    ~ReadsAs(t.by, Proposed(a).name), BindingsConflict(b, t.at)
             PROVE  <<"port", Proposed(a).host>> \in agent[a].conflicts
  BY DEF Forewarned
<1>1. PICK want, host, req : /\ want = agent[a].want /\ host = agent[a].host
                             /\ req = Requirements(catalog, want.intent)
  OBVIOUS
<1>2. /\ Proposed(a).name = ServiceOf(want) /\ Proposed(a).host = host
      /\ Proposed(a).bindings = PortBindings(want.raw.ports) /\ want \in Wants[a]
  BY <1>1, ProposedIs DEF Service, AgentInv
<1>3. PICK e \in catalog.endpoints :
        /\ e.service \in ServicesOn(catalog, host) /\ e.port # None
        /\ t = [at |-> Listener(e), by |-> e.service]
  BY <1>2 DEF DeclaredBindings
<1>4. e.port = b.port /\ e.service # ServiceOf(want)
  BY <1>2, <1>3 DEF ReadsAs, BindingsConflict, Listener
<1>5. Asked(want.intent, "port") = b.port
  BY <1>2, <1>3, <1>4 DEF CatalogInv, PortsSpelt
<1>6. req.port = b.port
  BY <1>1, <1>5 DEF Requirements
<1>7. host \in Candidates(catalog, req) /\ agent[a].conflicts = Conflicts(catalog, req)
  BY <1>1 DEF OfferInv
<1>8. <<"port", host>> \in Conflicts(catalog, req)
  BY <1>3, <1>4, <1>6, <1>7 DEF Conflicts
<1> QED BY <1>2, <1>7, <1>8

(* A declared listener `check` will refuse the file for was named among    *)
(* the conflicts of the answer (placement._conflicts against               *)
(* rules.port_collision).  It takes that the intent spells the ports of    *)
(* the file, those aside that nobody else publishes.                       *)
THEOREM Forewarns == PortsSpelt => (Spec => []Forewarned)
<1> SUFFICES ASSUME PortsSpelt PROVE Spec => []Forewarned
  OBVIOUS
<1>1. AgentInv /\ CatalogInv /\ OfferInv => Forewarned
  BY Forewarning
<1> QED BY <1>1, AgentInit, CatalogInit, OfferInit, AgentNext, CatalogNext, OfferNext, PTL DEF Spec

-----------------------------------------------------------------------------
(* What the services that are up never share.                              *)

\* A service that is to go up, with what its check was shown.
Standing(want, host, seen) ==
  [name |-> ServiceOf(want), host |-> host, bindings |-> PortBindings(want.raw.ports),
   hostnames |-> want.raw.hostnames, seen |-> seen]
Avoids(y) ==
  /\ \A c \in y.seen.listeners : SocketClash(c, y) => c.name = y.name /\ c.host = y.host
  /\ \A c \in y.seen.names : ~NameClash(c, y)

Known(e) == \E n \in DOMAIN EndpointIds : e.id = EndpointIds[n] /\ e.service \in {None, n}
OneEach == \A x, y \in running : x.name = y.name /\ x.host = y.host => x = y
RunningInv ==
  \A y \in running : /\ Avoids(y) /\ y.name \in DOMAIN EndpointIds
                     /\ \A b \in y.bindings : b.port # None
EvidenceInv == \A e \in evidence.endpoints : Known(e)
ClearedInv ==
  \A a \in Agents : agent[a].pc = "cleared" =>
    Avoids(Standing(agent[a].want, agent[a].host, agent[a].seen))

\* What Deploy puts up.
LEMMA StandingIs ==
  ASSUME AgentInv, NEW a \in Agents, agent[a].pc # "idle"
  PROVE  [Claims(Proposed(a)) EXCEPT !.seen = agent[a].seen]
           = Standing(agent[a].want, agent[a].host, agent[a].seen)
<1>1. PICK want, host, seen : want = agent[a].want /\ host = agent[a].host /\ seen = agent[a].seen
  OBVIOUS
<1>2. Proposed(a) = Service(want, host)
  BY <1>1, ProposedIs
<1>3. [Claims(Service(want, host)) EXCEPT !.seen = seen] = Standing(want, host, seen)
  BY DEF Claims, Service, Standing
<1> QED BY <1>1, <1>2, <1>3

LEMMA StandingShape ==
  ASSUME NEW a \in Agents, NEW want \in Wants[a], NEW host, NEW seen
  PROVE  LET y == Standing(want, host, seen)
         IN y.name \in DOMAIN EndpointIds /\ \A b \in y.bindings : b.port # None
BY WantsAssumption DEF Standing, PortBindings

\* Two services that share a socket have bindings in conflict.
LEMMA SharedSocket ==
  ASSUME NEW x, NEW y, SocketClash(x, y)
  PROVE  /\ x.host = y.host
         /\ \E b \in x.bindings, d \in y.bindings : BindingsConflict(d, b)
<1>1. PICK socket : /\ socket \in UNION {Sockets(b) : b \in x.bindings}
                    /\ socket \in UNION {Sockets(b) : b \in y.bindings}
  BY DEF SocketClash
<1>2. PICK b \in x.bindings : socket \in Sockets(b)
  BY <1>1
<1>3. PICK d \in y.bindings : socket \in Sockets(d)
  BY <1>1
<1>4. PICK u : socket = <<b.port, b.protocol, u>>
               /\ u \in IF b.bind \in Wildcards THEN Addresses ELSE {b.bind}
  BY <1>2 DEF Sockets
<1>5. PICK v : socket = <<d.port, d.protocol, v>>
               /\ v \in IF d.bind \in Wildcards THEN Addresses ELSE {d.bind}
  BY <1>3 DEF Sockets
<1>6. b.port = d.port /\ b.protocol = d.protocol /\ u = v
  BY <1>4, <1>5
<1>7. AddressesOverlap(d.bind, b.bind)
  BY <1>4, <1>5, <1>6 DEF AddressesOverlap
<1>8. BindingsConflict(d, b)
  BY <1>6, <1>7 DEF BindingsConflict
<1> QED BY <1>8 DEF SocketClash

\* The two collisions among the rules.
LEMMA CollisionsAreErrors ==
  ASSUME NEW cat, NEW art, NEW observed, Errors(Check(cat, art, observed)) = {}
  PROVE  /\ \A s \in art.services : s.host # None =>
              \A b \in s.bindings :
                \A t \in DeclaredBindings(cat, s.host)
                           \union ObservedBindings(cat, observed, s.host) :
                  ~ReadsAs(t.by, s.name) => ~BindingsConflict(b, t.at)
         /\ \A s \in art.services :
              s.hostnames \intersect (Hostnames(cat) \union ObservedHostnames(observed)) = {}
<1>1. ASSUME NEW s \in art.services, s.host # None, NEW b \in s.bindings,
             NEW t \in DeclaredBindings(cat, s.host) \union ObservedBindings(cat, observed, s.host),
             ~ReadsAs(t.by, s.name), BindingsConflict(b, t.at)
      PROVE  FALSE
  <2>1. Error("port-collision", s.name) \in PortCollision(cat, art, observed)
    BY <1>1 DEF PortCollision
  <2>2. Error("port-collision", s.name) \in Check(cat, art, observed)
    BY <2>1 DEF Check
  <2> QED BY <2>2, CodeOf DEF Errors
<1>2. ASSUME NEW s \in art.services, NEW n \in s.hostnames,
             n \in Hostnames(cat) \union ObservedHostnames(observed)
      PROVE  FALSE
  <2>1. Error("hostname-collision", n) \in HostnameCollision(cat, art, observed)
    BY <1>2 DEF HostnameCollision
  <2>2. Error("hostname-collision", n) \in Check(cat, art, observed)
    BY <2>1 DEF Check
  <2> QED BY <2>2, CodeOf DEF Errors
<1> QED BY <1>1, <1>2

\* The listener of a service that was shown is one the check compares with.
LEMMA ShownIsCompared ==
  ASSUME ToldApart, EvidenceInv, NEW r, r.name \in DOMAIN EndpointIds, NEW b, b.port # None,
         NEW e \in catalog.endpoints \union evidence.endpoints, ShownBy(catalog, r, e),
         Listener(e) = b
  PROVE  \E t \in DeclaredBindings(catalog, r.host)
                    \union ObservedBindings(catalog, {evidence}, r.host) :
           t.at = b /\ t.by \in {r.name, EndpointIds[r.name]}
<1>1. e.port # None
  BY DEF Listener
<1>2. CASE /\ e \in catalog.endpoints /\ e.service = r.name
           /\ r.name \in DOMAIN catalog.services /\ catalog.services[r.name].on = r.host
  <2>1. [at |-> Listener(e), by |-> e.service] \in DeclaredBindings(catalog, r.host)
    BY <1>1, <1>2 DEF DeclaredBindings, ServicesOn
  <2> QED BY <1>2, <2>1
<1>3. CASE /\ e \in evidence.endpoints /\ e.id = EndpointId(r) /\ evidence.ok
           /\ ObservedHost(catalog, e) = r.host
  <2>1. PICK n \in DOMAIN EndpointIds : e.id = EndpointIds[n] /\ e.service \in {None, n}
    BY <1>3 DEF EvidenceInv, Known
  <2>2. n = r.name
    BY <1>3, <2>1 DEF EndpointId, ToldApart
  <2>3. PICK t : t = [at |-> Listener(e), by |-> IF e.service # None THEN e.service ELSE e.id]
    OBVIOUS
  <2>4. t \in ObservedBindings(catalog, {evidence}, r.host)
    BY <1>1, <1>3, <2>3 DEF ObservedBindings
  <2>5. t.at = b /\ t.by \in {r.name, EndpointIds[r.name]}
    BY <2>1, <2>2, <2>3
  <2> QED BY <2>4, <2>5
<1> QED BY <1>2, <1>3 DEF ShownBy, ObservedHost

\* A file `check` passes stays clear of every service whose listeners, or whose
\* names, it was shown.
LEMMA ClearedAvoids ==
  ASSUME ToldApart, AgentInv, RunningInv, EvidenceInv,
         NEW a \in Agents, agent[a].pc = "placed",
         Errors(Check(catalog, Proposal(a), {evidence})) = {},
         NEW seen,
         seen.listeners = {Claims(r) : r \in {x \in running : ListenersShown(catalog, x)}},
         seen.names = {Claims(r) : r \in {x \in running : NamesShown(catalog, x)}}
  PROVE  Avoids(Standing(agent[a].want, agent[a].host, seen))
<1>1. PICK want, host : want = agent[a].want /\ host = agent[a].host
  OBVIOUS
<1>2. PICK s, y : s = Service(want, host) /\ y = Standing(want, host, seen)
  OBVIOUS
<1>3. /\ y.name = s.name /\ y.host = s.host /\ y.bindings = s.bindings
      /\ y.hostnames = s.hostnames /\ y.seen = seen
  BY <1>2 DEF Service, Standing
<1>4. s \in Proposal(a).services /\ want \in Wants[a] /\ host \in DOMAIN Base.hosts
  BY <1>1, <1>2, ProposedIs DEF AgentInv
<1>5. s.host # None /\ s.name \in DOMAIN EndpointIds
  BY <1>2, <1>4, BaseAssumption, WantsAssumption DEF Service
<1>6. ASSUME NEW r \in running, ListenersShown(catalog, r), SocketClash(Claims(r), y),
             r.name # y.name
      PROVE  FALSE
  <2>1. Claims(r).host = r.host /\ Claims(r).bindings = r.bindings
    BY DEF Claims
  <2>2. PICK b \in r.bindings, d \in s.bindings : BindingsConflict(d, b)
    BY <1>3, <1>6, <2>1, SharedSocket
  <2>3. r.host = s.host
    BY <1>3, <1>6, <2>1, SharedSocket
  <2>4. r.name \in DOMAIN EndpointIds /\ b.port # None
    BY DEF RunningInv
  <2>5. PICK e \in catalog.endpoints \union evidence.endpoints :
          ShownBy(catalog, r, e) /\ Listener(e) = b
    BY <1>6 DEF ListenersShown
  <2>6. PICK t \in DeclaredBindings(catalog, r.host)
                     \union ObservedBindings(catalog, {evidence}, r.host) :
          t.at = b /\ t.by \in {r.name, EndpointIds[r.name]}
    BY <2>4, <2>5, ShownIsCompared
  <2>7. ~ReadsAs(t.by, s.name)
    BY <1>3, <1>5, <1>6, <2>4, <2>6 DEF ToldApart
  <2> QED BY <1>4, <1>5, <2>2, <2>3, <2>6, <2>7, CollisionsAreErrors
<1>7. ASSUME NEW r \in running, NamesShown(catalog, r), NameClash(Claims(r), y)
      PROVE  FALSE
  <2>1. PICK n \in r.hostnames : n \in s.hostnames
    BY <1>3, <1>7 DEF NameClash, Claims
  <2>2. n \in Hostnames(catalog) \union ObservedHostnames({evidence})
    BY <1>7, <2>1 DEF NamesShown, Hostnames, ObservedHostnames
  <2> QED BY <1>4, <2>1, <2>2, CollisionsAreErrors
<1>8. \A c \in seen.listeners : SocketClash(c, y) => c.name = y.name /\ c.host = y.host
  BY <1>6 DEF Claims, SocketClash
<1>9. \A c \in seen.names : ~NameClash(c, y)
  BY <1>7
<1> QED BY <1>1, <1>2, <1>3, <1>8, <1>9 DEF Avoids

LEMMA ClashInit == Init => OneEach /\ RunningInv /\ EvidenceInv /\ ClearedInv
BY DEF Init, OneEach, RunningInv, EvidenceInv, ClearedInv, NoSource, Resting

LEMMA RunningNext ==
  ASSUME AgentInv, OneEach, RunningInv, ClearedInv, [Next]_vars
  PROVE  OneEach' /\ RunningInv'
<1>1. ASSUME NEW a \in Agents, Deploy(a) PROVE OneEach' /\ RunningInv'
  <2>1. PICK s : s = Standing(agent[a].want, agent[a].host, agent[a].seen)
    OBVIOUS
  <2>2. agent[a].pc = "cleared" /\ agent[a].want \in Wants[a]
    BY <1>1 DEF Deploy, AgentInv
  <2>3. running' = {d \in running : <<d.name, d.host>> # <<s.name, s.host>>} \union {s}
    BY <1>1, <2>1, <2>2, StandingIs DEF Deploy
  <2>4. /\ Avoids(s) /\ s.name \in DOMAIN EndpointIds
        /\ \A b \in s.bindings : b.port # None
    BY <2>1, <2>2, StandingShape DEF ClearedInv
  <2> QED BY <2>3, <2>4 DEF OneEach, RunningInv
<1>2. CASE running' \subseteq running
  BY <1>2 DEF OneEach, RunningInv
<1> QED BY <1>1, <1>2 DEF Next, vars, Consult, CheckFile, DeclareService, DeclareEndpoint,
      WithdrawService, WithdrawEndpoint, SetRole, MoveExecutor, Stop, Collect, GoesStale,
      ContestHost

LEMMA EvidenceNext ==
  ASSUME RunningInv, EvidenceInv, [Next]_vars
  PROVE  EvidenceInv'
<1>1. ASSUME NEW tells, Collect(tells) PROVE EvidenceInv'
  <2>1. PICK found : found = UNION {Reported(d, tells) : d \in running}
    OBVIOUS
  <2>2. evidence'.endpoints = found
    BY <1>1, <2>1 DEF Collect, NoSource
  <2>3. ASSUME NEW e \in found PROVE Known(e)
    <3>1. PICK d \in running : e \in Reported(d, tells)
      BY <2>1, <2>3
    <3>2. e.id = EndpointIds[d.name] /\ e.service \in {None, d.name}
      BY <3>1 DEF Reported, EndpointId
    <3> QED BY <3>2 DEF Known, RunningInv
  <2> QED BY <2>2, <2>3 DEF EvidenceInv
<1>2. CASE GoesStale
  <2>1. evidence'.endpoints = evidence.endpoints
    BY <1>2 DEF GoesStale
  <2> QED BY <2>1 DEF EvidenceInv
<1>3. CASE UNCHANGED evidence
  BY <1>3 DEF EvidenceInv
<1> QED BY <1>1, <1>2, <1>3 DEF Next, vars, Consult, CheckFile, Deploy, DeclareService,
      DeclareEndpoint, WithdrawService, WithdrawEndpoint, SetRole, MoveExecutor, Stop, ContestHost

LEMMA ClearedNext ==
  ASSUME ToldApart, AgentInv, CatalogInv, RunningInv, EvidenceInv, ClearedInv, [Next]_vars
  PROVE  ClearedInv'
<1>1. ASSUME NEW a \in Agents, CheckFile(a) PROVE ClearedInv'
  <2>1. PICK seen : seen =
          [listeners |-> {Claims(r) : r \in {x \in running : ListenersShown(catalog, x)}},
           names |-> {Claims(r) : r \in {x \in running : NamesShown(catalog, x)}}]
    OBVIOUS
  <2>2. PICK want, host : want = agent[a].want /\ host = agent[a].host
    OBVIOUS
  <2>3. PICK row : row = [pc |-> "cleared", want |-> want, host |-> host, rev |-> Base,
                          conflicts |-> {}, seen |-> seen]
    OBVIOUS
  <2>4. agent[a].pc = "placed"
    BY <1>1 DEF CheckFile
  <2>5. CASE Errors(Check(catalog, Proposal(a), {evidence})) = {}
    <3>1. agent' = [agent EXCEPT ![a] = row]
      BY <1>1, <2>1, <2>2, <2>3, <2>5 DEF CheckFile
    <3>2. Avoids(Standing(want, host, seen))
      BY <2>1, <2>2, <2>4, <2>5, ClearedAvoids
    <3>3. row.want = want /\ row.host = host /\ row.seen = seen
      BY <2>3
    <3>4. \A c \in Agents : agent'[c] = IF c = a THEN row ELSE agent[c]
      BY <3>1 DEF AgentInv
    <3> QED BY <3>2, <3>3, <3>4 DEF ClearedInv
  <2>6. CASE Errors(Check(catalog, Proposal(a), {evidence})) # {}
    <3>1. PICK rest : rest = Resting
      OBVIOUS
    <3>2. rest.pc # "cleared"
      BY <3>1 DEF Resting
    <3>3. agent' = [agent EXCEPT ![a] = rest]
      BY <1>1, <2>6, <3>1 DEF CheckFile
    <3>4. \A c \in Agents : agent'[c] = IF c = a THEN rest ELSE agent[c]
      BY <3>3 DEF AgentInv
    <3> QED BY <3>2, <3>4 DEF ClearedInv
  <2> QED BY <2>5, <2>6
<1>2. ASSUME NEW a \in Agents, NEW row, agent' = [agent EXCEPT ![a] = row], row.pc # "cleared"
      PROVE ClearedInv'
  <2>1. \A c \in Agents : agent'[c] = IF c = a THEN row ELSE agent[c]
    BY <1>2 DEF AgentInv
  <2> QED BY <1>2, <2>1 DEF ClearedInv
<1>3. ASSUME NEW a \in Agents, NEW w \in Wants[a], Consult(a, w) PROVE ClearedInv'
  <2>1. PICK h, cat, told : agent' = [agent EXCEPT ![a] =
                [pc |-> "placed", want |-> w, host |-> h, rev |-> cat,
                 conflicts |-> told, seen |-> Unseen]]
    BY <1>3, ConsultIs
  <2>2. PICK row : row = [pc |-> "placed", want |-> w, host |-> h, rev |-> cat,
                          conflicts |-> told, seen |-> Unseen]
    OBVIOUS
  <2>3. row.pc # "cleared"
    BY <2>2
  <2> QED BY <1>2, <2>1, <2>2, <2>3
<1>4. ASSUME NEW a \in Agents, Deploy(a) \/ DeclareService(a) \/ DeclareEndpoint(a)
      PROVE ClearedInv'
  BY <1>2, <1>4, AgentGoesOn
<1>5. CASE UNCHANGED agent
  BY <1>5 DEF ClearedInv
<1> QED BY <1>1, <1>3, <1>4, <1>5 DEF Next, vars, WithdrawService, WithdrawEndpoint, SetRole,
      MoveExecutor, Stop, Collect, GoesStale, ContestHost

(* What `check` let through clashes only with what it was not shown        *)
(* (rules.port_collision, hostname_collision): two services that are up    *)
(* and share a socket or a hostname were each invisible to the check of    *)
(* the other, however catalog, evidence and agents moved in between.  It   *)
(* takes that endpoints can be told apart by their ids.                    *)
THEOREM NoClash == ToldApart => (Spec => []NoUnseenClash)
<1> SUFFICES ASSUME ToldApart PROVE Spec => []NoUnseenClash
  OBVIOUS
<1>1. OneEach /\ RunningInv => NoUnseenClash
  <2> SUFFICES ASSUME OneEach, RunningInv, NEW x \in running, NEW y \in running, x # y
               PROVE  /\ SocketClash(x, y) => Claims(x) \notin y.seen.listeners
                      /\ NameClash(x, y) => Claims(x) \notin y.seen.names
    BY DEF NoUnseenClash
  <2>1. PICK c : c = Claims(x)
    OBVIOUS
  <2>2. /\ c.name = x.name /\ c.host = x.host /\ c.bindings = x.bindings
        /\ c.hostnames = x.hostnames
    BY <2>1 DEF Claims
  <2>3. SocketClash(x, y) => SocketClash(c, y)
    BY <2>2 DEF SocketClash
  <2>4. NameClash(x, y) => NameClash(c, y)
    BY <2>2 DEF NameClash
  <2>5. ~(c.name = y.name /\ c.host = y.host)
    BY <2>2 DEF OneEach
  <2> QED BY <2>1, <2>3, <2>4, <2>5 DEF RunningInv, Avoids
<1> QED BY <1>1, AgentInit, CatalogInit, ClashInit, AgentNext, CatalogNext, RunningNext,
      EvidenceNext, ClearedNext, PTL DEF Spec
=============================================================================
