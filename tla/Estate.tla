------------------------------- MODULE Estate -------------------------------
(***************************************************************************)
(* Agents that deploy services with the map in hand: `context-for` offers  *)
(* a host, `check` judges the compose file, the service goes up, and only  *)
(* then is it declared, its service and its endpoint in two writes through *)
(* the gate.  Meanwhile collectors report and fail, operators edit hosts   *)
(* and executors, and services are stopped and withdrawn.                  *)
(*                                                                         *)
(* Deploying is no part of Cadastre: Deploy and Stop stand for what an     *)
(* agent does with its answers.                                            *)
(*                                                                         *)
(* Source: cli/context_for.py, cli/check.py, core/writes.py (the gate),    *)
(* core/observed.py (what evidence is usable).                             *)
(***************************************************************************)
EXTENDS Artifacts, Placement

CONSTANTS
  Agents,
  Wants,        \* agent -> what it may deploy: an intent, which is a set of words,
                \*   and a compose file, [intent, key, raw, top]
  EndpointIds,  \* name of a service -> id of its endpoint
  Pipelines,    \* pipeline files somebody may check at any time
  Base,         \* the catalog before anything is deployed
  Roles,        \* roles an operator may give a host
  Addresses,    \* addresses a listener can be bound at
  Tells,        \* what an endpoint collector reports beside the port:
                \*   subsets of {"host", "service"}
  Contestable,  \* hosts the trust ledger may hold a contest about
  MaxDeploys,   \* bound on deployments
  MaxEdits      \* bound on what operators do

VARIABLES
  catalog,    \* declared/, as Rules sees it
  running,    \* the services that are up
  evidence,   \* what the one collector of endpoints last reported
  contested,  \* hosts contested under an `exclude` policy
  agent,      \* what each agent is doing
  deploys, edits   \* how many there have been

vars == <<catalog, running, evidence, contested, agent, deploys, edits>>

ServiceOf(want) == Given(want.raw.name, want.key)

\* The catalog agents start from has been through the gate, and its services
\* stand on its hosts; a file leaves the host to the agent and publishes ports.
ASSUME BaseAssumption ==
  /\ {"nets", "hosts", "services", "endpoints", "pipelines", "execs", "pools", "tops", "policy"}
       \subseteq DOMAIN Base
  /\ Errors(CheckCatalog(Base)) = {}
  /\ None \notin DOMAIN Base.hosts
  /\ \A s \in DOMAIN Base.services : Base.services[s].on \in DOMAIN Base.hosts
ASSUME WantsAssumption ==
  \A a \in Agents : \A w \in Wants[a] :
    /\ w.raw.host = None /\ {"host", "expose", "fronted"} \subseteq DOMAIN w.top
    /\ ServiceOf(w) \in DOMAIN EndpointIds
    /\ \A p \in w.raw.ports : p.port # None
ASSUME BoundsAssumption == MaxDeploys \in Nat /\ MaxEdits \in Nat

Unseen == [listeners |-> {}, names |-> {}]
\* What a service that is up holds, and what its check had been shown.
Claims(s) == [name |-> s.name, host |-> s.host, bindings |-> s.bindings,
              hostnames |-> s.hostnames, seen |-> Unseen]
EndpointId(s) == EndpointIds[s.name]

NoSource == [ok |-> FALSE, caps |-> {"endpoint.list"}, endpoints |-> {},
             names |-> {}, refs |-> {}]
Resting == [pc |-> "idle", want |-> None, host |-> None, rev |-> Base, conflicts |-> {},
            seen |-> Unseen]

\* The file agent a writes for its host, and what check reads out of it.
FileOf(a) ==
  LET want == agent[a].want IN
  [kind |-> "compose",
   top |-> [want.top EXCEPT !.host = agent[a].host],
   services |-> [k \in {want.key} |-> want.raw]]
Proposal(a) == Parse(FileOf(a))
Proposed(a) == CHOOSE s \in Proposal(a).services : TRUE

Init ==
  /\ catalog = Base
  /\ running = {}
  /\ evidence = NoSource
  /\ contested = {}
  /\ agent = [a \in Agents |-> Resting]
  /\ deploys = 0 /\ edits = 0

-----------------------------------------------------------------------------
(* What an agent asks.                                                     *)

Consult(a, want) ==
  LET answer == ContextFor(catalog, want.intent, contested) IN
  /\ agent[a].pc = "idle"
  /\ \E h \in answer.candidates :
       agent' = [agent EXCEPT ![a] =
                   [pc |-> "placed", want |-> want, host |-> h, rev |-> catalog,
                    conflicts |-> answer.conflicts, seen |-> Unseen]]
  /\ UNCHANGED <<catalog, running, evidence, contested, deploys, edits>>

\* Whose listeners and names the answer of `check` rests on: declared, or in
\* evidence that is fresh; a hostname counts however old the evidence.
ShownBy(cat, d, e) ==
  \/ e \in cat.endpoints /\ e.service = d.name
     /\ d.name \in DOMAIN cat.services /\ cat.services[d.name].on = d.host
  \/ e \in evidence.endpoints /\ e.id = EndpointId(d) /\ evidence.ok
     /\ IF e.host # None THEN e.host = d.host
        ELSE e.service = d.name /\ d.name \in DOMAIN cat.services
             /\ cat.services[d.name].on = d.host
Sockets(b) == {<<b.port, b.protocol, x>> :
                 x \in IF b.bind \in Wildcards THEN Addresses ELSE {b.bind}}
ListenersShown(cat, d) ==
  \A b \in d.bindings :
    \E e \in cat.endpoints \union evidence.endpoints :
      ShownBy(cat, d, e) /\ Listener(e) = b
NamesShown(cat, d) ==
  d.hostnames \subseteq {e.address : e \in cat.endpoints \union evidence.endpoints}

CheckFile(a) ==
  LET findings == Check(catalog, Proposal(a), {evidence}) IN
  /\ agent[a].pc = "placed"
  /\ agent' = [agent EXCEPT ![a] =
       IF Errors(findings) # {} THEN Resting
       ELSE [pc |-> "cleared", want |-> agent[a].want, host |-> agent[a].host, rev |-> Base,
             conflicts |-> {},
             seen |->
               [listeners |-> {Claims(r) : r \in {x \in running : ListenersShown(catalog, x)}},
                names |-> {Claims(r) : r \in {x \in running : NamesShown(catalog, x)}}]]]
  /\ UNCHANGED <<catalog, running, evidence, contested, deploys, edits>>

\* A service that goes up replaces the one of its name on that host.
Deploy(a) ==
  LET s == [Claims(Proposed(a)) EXCEPT !.seen = agent[a].seen] IN
  /\ agent[a].pc = "cleared" /\ deploys < MaxDeploys
  /\ running' = {d \in running : <<d.name, d.host>> # <<s.name, s.host>>} \union {s}
  /\ deploys' = deploys + 1
  /\ agent' = [agent EXCEPT ![a].pc = "up", ![a].seen = Unseen]
  /\ UNCHANGED <<catalog, evidence, contested, edits>>

-----------------------------------------------------------------------------
(* Writes, each of which runs check_catalog over what would be stored.     *)

Gate(cat) == Errors(CheckCatalog(cat)) = {} /\ catalog' = cat

DeclareService(a) ==
  LET s == Proposed(a)
      row == [on |-> s.host, tags |-> {}, by |-> {}]
  IN /\ agent[a].pc = "up"
     /\ Gate([catalog EXCEPT !.services =
               [n \in DOMAIN @ \union {s.name} |-> IF n = s.name THEN row ELSE @[n]]])
     /\ agent' = [agent EXCEPT ![a].pc = "half"]
     /\ UNCHANGED <<running, evidence, contested, deploys, edits>>

EndpointRows(s) ==
  {[id |-> EndpointId(s), service |-> s.name, host |-> None, address |-> n,
    port |-> b.port, protocol |-> b.protocol, bind |-> b.bind] :
     b \in s.bindings, n \in s.hostnames}
DeclareEndpoint(a) ==
  LET s == Proposed(a)
  IN /\ agent[a].pc = "half"
     /\ Gate([catalog EXCEPT !.endpoints =
               {e \in @ : e.id # EndpointId(s)} \union EndpointRows(s)])
     /\ agent' = [agent EXCEPT ![a] = Resting]
     /\ UNCHANGED <<running, evidence, contested, deploys, edits>>

\* A reference from an endpoint to its service is not checked by the gate.
WithdrawService(s) ==
  /\ s \in DOMAIN catalog.services \ DOMAIN Base.services
  /\ Gate([catalog EXCEPT !.services = [n \in DOMAIN @ \ {s} |-> @[n]]])
  /\ edits < MaxEdits /\ edits' = edits + 1
  /\ UNCHANGED <<running, evidence, contested, agent, deploys>>
WithdrawEndpoint(e) ==
  /\ e \in catalog.endpoints
  /\ Gate([catalog EXCEPT !.endpoints = @ \ {e}])
  /\ edits < MaxEdits /\ edits' = edits + 1
  /\ UNCHANGED <<running, evidence, contested, agent, deploys>>

SetRole(h, role) ==
  /\ role # catalog.hosts[h].role
  /\ Gate([catalog EXCEPT !.hosts[h].role = role])
  /\ edits < MaxEdits /\ edits' = edits + 1
  /\ UNCHANGED <<running, evidence, contested, agent, deploys>>
MoveExecutor(x, h) ==
  /\ h # catalog.execs[x].on
  /\ Gate([catalog EXCEPT !.execs[x].on = h])
  /\ edits < MaxEdits /\ edits' = edits + 1
  /\ UNCHANGED <<running, evidence, contested, agent, deploys>>

-----------------------------------------------------------------------------
(* The world, and what is known of it.                                     *)

Stop(d) ==
  /\ d \in running
  /\ running' = running \ {d}
  /\ UNCHANGED <<catalog, evidence, contested, agent, deploys, edits>>

Reported(d, tells) ==
  {[id |-> EndpointId(d), service |-> IF "service" \in tells THEN d.name ELSE None,
    host |-> IF "host" \in tells THEN d.host ELSE None, address |-> n,
    port |-> b.port, protocol |-> b.protocol, bind |-> b.bind] :
     b \in d.bindings, n \in d.hostnames}
Collect(tells) ==
  /\ evidence' = [NoSource EXCEPT !.ok = TRUE,
                    !.endpoints = UNION {Reported(d, tells) : d \in running}]
  /\ UNCHANGED <<catalog, running, contested, agent, deploys, edits>>
\* Failed to refresh, or older than its TTL: kept, and no longer relied on.
GoesStale ==
  /\ evidence.ok
  /\ evidence' = [evidence EXCEPT !.ok = FALSE]
  /\ UNCHANGED <<catalog, running, contested, agent, deploys, edits>>
ContestHost(h) ==
  /\ contested' = contested \union {h} /\ h \notin contested
  /\ edits < MaxEdits /\ edits' = edits + 1
  /\ UNCHANGED <<catalog, running, evidence, agent, deploys>>

Next ==
  \/ \E a \in Agents : \/ \E w \in Wants[a] : Consult(a, w)
                       \/ CheckFile(a) \/ Deploy(a)
                       \/ DeclareService(a) \/ DeclareEndpoint(a)
  \/ \E s \in DOMAIN catalog.services : WithdrawService(s)
  \/ \E e \in catalog.endpoints : WithdrawEndpoint(e)
  \/ \E h \in DOMAIN catalog.hosts, role \in Roles : SetRole(h, role)
  \/ \E x \in DOMAIN catalog.execs, h \in DOMAIN catalog.hosts : MoveExecutor(x, h)
  \/ \E d \in running : Stop(d)
  \/ \E tells \in Tells : Collect(tells)
  \/ GoesStale
  \/ \E h \in Contestable : ContestHost(h)

Spec == Init /\ [][Next]_vars

-----------------------------------------------------------------------------
(* Properties.                                                             *)

\* Every part of the state has its shape; an agent holds a host of the
\* catalog from the answer on, and a service that is up stands on one.
TypeOK ==
  /\ DOMAIN catalog = DOMAIN Base /\ DOMAIN catalog.hosts = DOMAIN Base.hosts
  /\ \A s \in DOMAIN catalog.services : catalog.services[s].on \in DOMAIN Base.hosts
  /\ \A r \in running : r.host \in DOMAIN Base.hosts
  /\ evidence.ok \in BOOLEAN /\ DOMAIN evidence = DOMAIN NoSource
  /\ contested \subseteq Contestable
  /\ \A a \in Agents :
       /\ agent[a].pc \in {"idle", "placed", "cleared", "up", "half"}
       /\ agent[a].pc # "idle" => agent[a].host \in DOMAIN Base.hosts
  /\ deploys \in 0..MaxDeploys /\ edits \in 0..MaxEdits

\* Two sockets cannot be bound: same host, port, transport and an address in
\* common.
SocketClash(x, y) ==
  /\ x.host = y.host
  /\ (UNION {Sockets(b) : b \in x.bindings}) \intersect (UNION {Sockets(b) : b \in y.bindings}) # {}
NameClash(x, y) == x.hostnames \intersect y.hostnames # {}

\* What `check` lets through clashes only with what it was not shown.  If two
\* services that are up bind one socket or claim one hostname, then neither was
\* visible to the check of the other, as a declaration or as evidence: what the
\* agents checked at the same time, or what no collector had reported yet.
\* rules.port_collision, hostname_collision.
NoUnseenClash ==
  \A x, y \in running : x # y =>
    /\ SocketClash(x, y) => Claims(x) \notin y.seen.listeners
    /\ NameClash(x, y) => Claims(x) \notin y.seen.names

\* It is where the endpoint of one service can be taken neither for that of
\* another nor, by its id, for another service: `check` knows an endpoint a
\* collector reports without a service by how its id ends, and passes over what
\* it takes for the service's own.
ToldApart ==
  \A s, t \in DOMAIN EndpointIds : s # t =>
    /\ EndpointIds[s] # EndpointIds[t]
    /\ ~ReadsAs(s, t) /\ ~ReadsAs(EndpointIds[s], t)

\* A host `context-for` offers is a host `check` accepts, as long as the
\* catalog has not changed: the two read exposure and networks by code of their
\* own (placement._reject, rules.exposure_network_class).
OfferedHostsPass ==
  \A a \in Agents : agent[a].pc = "placed" /\ catalog = agent[a].rev =>
    \A f \in Check(catalog, Proposal(a), {evidence}) :
      f.code \notin {"unknown-host", "exposure-network-class"}

\* It is where the file asks for the exposure its intent was read as.
FileFollowsIntent ==
  \A a \in Agents : \A w \in Wants[a] :
    LET expose == Given(w.raw.expose, w.top.expose)
    IN expose # None => expose = Exposure(Base, w.intent)

\* A declared listener that `check` will refuse the file for was named among the
\* conflicts of the answer the agent placed it by, though context-for looks at
\* port numbers alone (placement._conflicts, catalog.ports_on_host).
Forewarned ==
  \A a \in Agents : agent[a].pc = "placed" /\ catalog = agent[a].rev =>
    LET s == Proposed(a) IN
    (\E b \in s.bindings, t \in DeclaredBindings(catalog, s.host) :
        ~ReadsAs(t.by, s.name) /\ BindingsConflict(b, t.at))
      => <<"port", s.host>> \in agent[a].conflicts

\* It is where an intent spells the ports its file publishes, those aside that
\* nobody else publishes.
PortsSpelt ==
  \A a \in Agents : \A w \in Wants[a] : \A b \in PortBindings(w.raw.ports) :
    \/ Asked(w.intent, "port") = b.port
    \/ /\ \A e \in Base.endpoints : e.port # b.port
       /\ \A c \in Agents : \A v \in Wants[c] : ServiceOf(v) # ServiceOf(w) =>
            \A d \in PortBindings(v.raw.ports) : d.port # b.port

\* What the write gate accepts, `check` does not hold against a pipeline later:
\* whatever edits led here, no pipeline file fails on a pool, an executor or a
\* topology the catalog was allowed to contain (rules.check_catalog against the
\* artifact-scoped rules).
GateCoversCheck ==
  \A p \in Pipelines :
    \A f \in Errors(Check(catalog, Parse(p), {evidence})) :
      f.code \notin {"execution-public-access", "execution-placement", "topology-missing"}
=============================================================================
