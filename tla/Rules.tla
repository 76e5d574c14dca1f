-------------------------------- MODULE Rules --------------------------------
(***************************************************************************)
(* `cadastre check`: a proposed artifact against the catalog and the       *)
(* evidence, one operator per registered rule, each the set of findings    *)
(* the rule yields.  A finding keeps its level, its code and what it is    *)
(* about; what it says to the reader is left out, and so are which of a    *)
(* topology's references is missing and what a collision is with.  A       *)
(* topology's target is a service or outside the catalog.                  *)
(*                                                                         *)
(*   catalog  [nets, hosts, services, endpoints, names, refs, pipelines,   *)
(*             repos, execs, pools, tops, policy]                          *)
(*   artifact [kind, services, refs, jobs, grants, systems, repo, topology,*)
(*             routes]                                                     *)
(*   observed a set of [ok, caps, endpoints, names, refs], one per source  *)
(*                                                                         *)
(* Source: core/rules.py, core/topology.py, core/catalog.py.               *)
(***************************************************************************)
EXTENDS Integers, FiniteSets

CONSTANTS None,       \* an optional field that is not set
          Wildcards,  \* bind addresses that stand for every address
          NonTargets, \* roles that are never a deployment target
          Endings     \* the names of services and ids of endpoints that end in
                      \*   ":" and the name of a service, with that name

ASSUME WildcardAssumption == None \in Wildcards

Finding(level, code, subject) == [level |-> level, code |-> code, subject |-> subject]
Error(code, subject) == Finding("error", code, subject)
Warn(code, subject)  == Finding("warn", code, subject)
When(condition, findings) == IF condition THEN findings ELSE {}

-----------------------------------------------------------------------------
(* Views of the catalog.                                                   *)

HostNetworks(cat, h) ==
  IF h \in DOMAIN cat.hosts THEN cat.hosts[h].nets \intersect DOMAIN cat.nets ELSE {}
HostNetworkClasses(cat, h) == {cat.nets[n] : n \in HostNetworks(cat, h)}
ServicesOn(cat, h) == {s \in DOMAIN cat.services : cat.services[s].on = h}
Tiers(cat, name) == {t \in cat.policy.tiers : t.name = name}
IngressOf(cat) == {s \in DOMAIN cat.services : "ingress" \in cat.services[s].tags}

Hostnames(cat) ==
  {e.address : e \in cat.endpoints} \union cat.names

PipelinesFor(cat, s) ==
  LET declared == IF s \in DOMAIN cat.services
                    THEN {d.pipeline : d \in cat.services[s].by} ELSE {}
      deploying == {p \in DOMAIN cat.pipelines : s \in cat.pipelines[p].deploys}
  IN (declared \union deploying) \intersect DOMAIN cat.pipelines

\* The one marked authoritative, or the only one the service names.
HasAuthority(cat, s) ==
  /\ s \in DOMAIN cat.services
  /\ LET by == cat.services[s].by
         marked == {d \in by : d.authoritative}
     IN Cardinality(marked) = 1 \/ (marked = {} /\ Cardinality(by) = 1)

\* One executor must carry every label.
Eligible(cat, system, job) ==
  {e \in DOMAIN cat.execs :
     /\ system # None => cat.execs[e].system = system
     /\ job.pool # None => cat.execs[e].pool = job.pool
     /\ job.labels \subseteq cat.execs[e].selectors}

-----------------------------------------------------------------------------
(* Listeners: a port, a transport and the address it is bound at.          *)

Transport(protocol) == IF protocol = "udp" THEN "udp" ELSE "tcp"
Listener(e) ==
  [port |-> e.port, protocol |-> Transport(e.protocol), bind |-> e.bind]

\* Mutant: an address overlaps only itself.
SameAddress(a, b) == a = b
AddressesOverlap(a, b) == a \in Wildcards \/ b \in Wildcards \/ a = b
BindingsConflict(a, b) ==
  /\ a.port = b.port /\ a.protocol = b.protocol
  /\ AddressesOverlap(a.bind, b.bind)

DeclaredBindings(cat, h) ==
  {[at |-> Listener(e), by |-> e.service] :
     e \in {x \in cat.endpoints : x.service \in ServicesOn(cat, h) /\ x.port # None}}

\* The host a collector reports, or the one its service is declared on.
ObservedHost(cat, e) ==
  IF e.host # None THEN e.host
  ELSE IF e.service \in DOMAIN cat.services THEN cat.services[e.service].on ELSE None
ObservedBindings(cat, observed, h) ==
  {[at |-> Listener(e), by |-> IF e.service # None THEN e.service ELSE e.id] :
     e \in UNION {{x \in src.endpoints : x.port # None /\ ObservedHost(cat, x) = h} :
                    src \in {s \in observed : s.ok}}}

ObservedHostnames(observed) ==
  UNION {{e.address : e \in src.endpoints} \union src.names : src \in observed}

-----------------------------------------------------------------------------
(* Services a compose file proposes.                                       *)

UnknownHost(cat, art) ==
  {Error("unknown-host", s.name) :
     s \in {x \in art.services : x.host # None /\ x.host \notin DOMAIN cat.hosts}}

TierFits(cat, tier, h) ==
  /\ tier.net # None => tier.net \in HostNetworks(cat, h)
  /\ tier.class \in HostNetworkClasses(cat, h)
ExposureNetworkClass(cat, art) ==
  UNION {LET tiers == Tiers(cat, s.expose) IN
           When(tiers = {}, {Error("unknown-exposure-tier", s.name)})
           \union When(\E t \in tiers : ~TierFits(cat, t, s.host),
                       {Error("exposure-network-class", s.name)}) :
         s \in {x \in art.services : x.expose # None /\ x.host # None}}

ExposureRequiresIngress(cat, art) ==
  {Warn("exposure-requires-ingress", s.name) :
     s \in {x \in art.services :
              x.fronted = None /\ \E t \in Tiers(cat, x.expose) : t.ingress}}

ExposureNoneConflict(cat, art) ==
  {Error("exposure-none-conflict", s.name) :
     s \in {x \in art.services :
              /\ x.expose = "none" /\ Tiers(cat, "none") # {}
              /\ x.bindings # {} \/ x.hostnames # {} \/ x.fronted # None}}

\* A frontend must exist, be tagged, be wanted by the tier, stand on the
\* tier's network and share a network with what it fronts.
FrontedByValidation(cat, art) ==
  LET Wrong(s) ==
        LET front == cat.services[s.fronted]
            tiers == Tiers(cat, s.expose)
        IN \/ "ingress" \notin front.tags
           \/ \E t \in tiers : ~t.ingress
           \/ \E t \in tiers : t.ingress /\ t.net # None
                                 /\ t.net \notin HostNetworks(cat, front.on)
           \/ s.host # None
              /\ HostNetworks(cat, front.on) \intersect HostNetworks(cat, s.host) = {}
  IN {Error("fronted-by-validation", s.name) :
        s \in {x \in art.services :
                 /\ x.fronted # None
                 /\ x.fronted \in DOMAIN cat.services => Wrong(x)}}

ArtifactInternalCollision(art) ==
  LET listeners == UNION {{[at |-> b, host |-> s.host, by |-> s.name] :
                             b \in s.bindings} :
                          s \in {x \in art.services : x.host # None}}
      names == UNION {s.hostnames : s \in art.services}
      ClaimedTwice(n) == Cardinality({s \in art.services : n \in s.hostnames}) > 1
  IN {Error("artifact-internal-collision", n) : n \in {x \in names : ClaimedTwice(x)}}
     \union
     {Error("artifact-internal-collision", l.host) :
        l \in {x \in listeners : \E y \in listeners \ {x} :
                 x.host = y.host /\ BindingsConflict(x.at, y.at)}}

\* Every hostname the artifact claims, its own service's earlier claim
\* included; what a collector saw counts however old it is.
HostnameCollision(cat, art, observed) ==
  LET claimed == (UNION {s.hostnames : s \in art.services}) \union art.routes
  IN {Error("hostname-collision", n) :
        n \in claimed \intersect (Hostnames(cat) \union ObservedHostnames(observed))}

EndpointSourcesUnavailable(observed) ==
  LET sources == {s \in observed : "endpoint.list" \in s.caps}
  IN sources = {} \/ \E s \in sources : ~s.ok
\* What holds a listener is labelled with its service or its id, and with the
\* source first if it is observed.  It reads as that of the service with that
\* name, and as that of one its label ends in.
ReadsAs(by, name) == by = name \/ <<by, name>> \in Endings
PortCollision(cat, art, observed) ==
  LET placed == {s \in art.services : s.host # None /\ s.bindings # {}}
      Taken(s) == {t \in DeclaredBindings(cat, s.host)
                           \union ObservedBindings(cat, observed, s.host) :
                     ~ReadsAs(t.by, s.name)}
  IN {Error("port-collision", s.name) :
        s \in {x \in placed : \E b \in x.bindings, t \in Taken(x) :
                                 BindingsConflict(b, t.at)}}
     \union When(placed # {} /\ EndpointSourcesUnavailable(observed),
                 {Warn("port-collision-unchecked", None)})

\* `formed` and `named` stand for the regular expressions of the conventions.
SecretRefFormat(cat, art) ==
  {Error("secret-ref-format", r) : r \in art.refs \ cat.policy.formed}
SecretRefUnknown(cat, art, observed) ==
  {Error("secret-ref-unknown", r) :
     r \in art.refs \ (cat.refs \union UNION {s.refs : s \in observed})}
ServiceNameConvention(cat, art) ==
  {Error("service-name-convention", s.name) :
     s \in {x \in art.services : x.name \notin cat.policy.named}}
ServiceNameCollision(cat, art) ==
  {Error("service-name-collision", s.name) :
     s \in {x \in art.services : /\ x.host # None /\ x.name \in DOMAIN cat.services
                                 /\ cat.services[x.name].on # x.host}}

-----------------------------------------------------------------------------
(* Pipelines and the executors their jobs select.                          *)

PipelineAuthority(cat, art) ==
  {Error("pipeline-authority", s.name) :
     s \in {x \in art.services :
              /\ Cardinality(PipelinesFor(cat, x.name)) >= 2
              /\ ~HasAuthority(cat, x.name)}}
  \union
  LET ofRepo == {p \in DOMAIN cat.pipelines : cat.pipelines[p].repo = art.repo}
  IN When(/\ art.kind = "pipeline" /\ art.repo # None
          /\ Cardinality({cat.pipelines[p].system : p \in ofRepo}
                           \union art.systems) > 1,
          {Warn("pipeline-authority", art.repo)})

Jobs(art) == IF art.kind = "pipeline" THEN art.jobs ELSE {}
\* A selector with an expression in it is never evaluated.
Static(art) == {j \in Jobs(art) : j.kind \in {"labels", "pool"}}
System(art) == IF Cardinality(art.systems) = 1
                 THEN CHOOSE s \in art.systems : TRUE ELSE None
EligibleFor(cat, art, job) == Eligible(cat, System(art), job)

ReachableExecutors(cat, art) ==
  UNION {EligibleFor(cat, art, j) : j \in Jobs(art)}
ReachablePools(cat, art) ==
  ({j.pool : j \in Jobs(art)}
     \union {cat.execs[e].pool : e \in ReachableExecutors(cat, art)})
  \intersect DOMAIN cat.pools

ExecutionIndeterminate(art) ==
  {Warn("execution-indeterminate", j.job) :
     j \in {x \in Jobs(art) : x.kind = "indeterminate"}}

\* Only where the catalog declares executors at all; a hosted selector names
\* none of them.
ExecutionUnsatisfiable(cat, art) ==
  UNION {When(~(j.labels \intersect cat.policy.hosted # {}),
              IF j.pool # None /\ j.pool \notin DOMAIN cat.pools
                THEN {Error("execution-unknown-pool", j.job)}
                ELSE When(EligibleFor(cat, art, j) = {},
                          {Error("execution-unsatisfiable", j.job)})) :
         j \in {x \in Static(art) : DOMAIN cat.execs # {}}}

ExecutionHostedPool(cat, art) ==
  When(cat.policy.selfHosted,
       {Error("execution-hosted-pool", j.job) :
          j \in {x \in Jobs(art) : x.labels \intersect cat.policy.hosted # {}}})

\* Each capability may be declared by a different eligible executor.
ExecutionCapability(cat, art) ==
  {Error("execution-capability", j.job) :
     j \in {x \in Static(art) :
              LET able == EligibleFor(cat, art, x) IN
              /\ able # {}
              /\ ~(x.caps \subseteq UNION {cat.execs[e].caps : e \in able})}}

StaleExecutorSources(observed) ==
  \E s \in observed : "ci.status" \in s.caps /\ ~s.ok
ExecutionAvailability(cat, art, observed) ==
  {Warn("execution-availability", j.job) :
     j \in {x \in Static(art) :
              LET able == EligibleFor(cat, art, x) IN
              /\ able # {}
              /\ \/ StaleExecutorSources(observed)
                 \/ \A e \in able : cat.execs[e].status # "online"}}

PublicAccessFindings(cat, pools) ==
  When(~cat.policy.allowPublic,
       {Finding(IF \E e \in DOMAIN cat.execs :
                      cat.execs[e].pool = p /\ ~cat.execs[e].ephemeral
                  THEN "error" ELSE "warn",
                "execution-public-access", p) :
          p \in {x \in pools : cat.pools[x].public}})

PlacementFindings(cat, execs) ==
  {Error("execution-placement", e) :
     e \in {x \in execs :
              LET h == cat.execs[x].on IN
              /\ h # None
              /\ h \in DOMAIN cat.hosts =>
                   cat.hosts[h].role \in NonTargets \union cat.policy.excluded}}

GrantFindings(grants) ==
  {Warn("grant-wildcard", g.role) :
     g \in {x \in grants : x.anyTarget /\ x.anyAction}}
  \union {Error("grant-wildcard-principal", g.role) :
            g \in {x \in grants : x.principal = "*"}}

-----------------------------------------------------------------------------
(* Topologies, and the two entry points.                                   *)

TopologyDrift(cat) ==
  LET Missing(t) ==
        LET top == cat.tops[t] IN
        \/ top.pipeline \notin DOMAIN cat.pipelines
        \/ top.repo \notin cat.repos
        \/ top.node # None /\ top.node \notin DOMAIN cat.hosts
        \/ top.kind = "service" /\ top.target \notin DOMAIN cat.services
        \/ top.exposure # None /\ Tiers(cat, top.exposure) = {}
  IN {Error("topology-missing", t) : t \in {x \in DOMAIN cat.tops : Missing(x)}}

TopologyClaim(cat, art) ==
  LET top == cat.tops[art.topology]
      named == {s.name : s \in art.services}
  IN When(art.topology # None,
          IF art.topology \notin DOMAIN cat.tops
            THEN {Error("topology-unknown", art.topology)}
            ELSE When(art.repo # None /\ art.repo # top.repo,
                      {Error("topology-repo-mismatch", art.topology)})
                 \union When(/\ top.kind = "service"
                             /\ named # {} /\ top.target \notin named,
                             {Error("topology-target-mismatch", art.topology)}))

\* rules.run, then what cli.check adds to it.
Check(cat, art, observed) ==
  UNION {UnknownHost(cat, art), ExposureNetworkClass(cat, art),
         ExposureRequiresIngress(cat, art), ExposureNoneConflict(cat, art),
         FrontedByValidation(cat, art), ArtifactInternalCollision(art),
         HostnameCollision(cat, art, observed), PortCollision(cat, art, observed),
         SecretRefFormat(cat, art), SecretRefUnknown(cat, art, observed),
         ServiceNameConvention(cat, art), ServiceNameCollision(cat, art),
         PipelineAuthority(cat, art), ExecutionIndeterminate(art),
         ExecutionUnsatisfiable(cat, art), ExecutionHostedPool(cat, art),
         ExecutionCapability(cat, art), ExecutionAvailability(cat, art, observed),
         PublicAccessFindings(cat, ReachablePools(cat, art)),
         PlacementFindings(cat, ReachableExecutors(cat, art)),
         When(art.kind = "grants", GrantFindings(art.grants)),
         TopologyDrift(cat), TopologyClaim(cat, art)}

\* Mutant: the gate looks at topologies and grants alone.
CheckTopologies(cat) == TopologyDrift(cat) \union GrantFindings(cat.policy.grants)
\* check_catalog, what the write gate runs over every proposed catalog.
CheckCatalog(cat) ==
  UNION {TopologyDrift(cat), PublicAccessFindings(cat, DOMAIN cat.pools),
         PlacementFindings(cat, DOMAIN cat.execs), GrantFindings(cat.policy.grants)}

Errors(findings)   == {f \in findings : f.level = "error"}
Warnings(findings) == {f \in findings : f.level = "warn"}
=============================================================================
