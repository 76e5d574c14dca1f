------------------------------ MODULE Placement ------------------------------
(***************************************************************************)
(* `cadastre context-for`: an intent read by keywords, and every host      *)
(* either offered or excluded.  An intent is the set of its words; a word  *)
(* names a tier, a tag, a host, a size or nothing Cadastre knows.          *)
(*                                                                         *)
(* Source: core/placement.py, cli/context_for.py.                          *)
(***************************************************************************)
EXTENDS Rules

CONSTANTS PublicWords,  \* words for "reachable from the internet"
          GpuWords,     \* words for "has an accelerator"
          Negations,    \* words of a negated, excluding or contradictory phrase
          Stopwords,    \* words that say nothing
          Asks          \* word -> [port, name, hostname, cpu, memory, disk]: values it spells

Sizes == {"cpu", "memory", "disk"}

KnownTags(cat) == UNION {cat.hosts[h].tags : h \in DOMAIN cat.hosts}
TierNames(cat) == {t.name : t \in cat.policy.tiers}
PublicTiers(cat) == {t \in cat.policy.tiers : t.class = "public"}

\* The value some word of the intent spells for a field.
Asked(words, field) ==
  LET spelling == {w \in words \intersect DOMAIN Asks : Asks[w][field] # None}
  IN IF spelling = {} THEN None ELSE Asks[CHOOSE w \in spelling : TRUE][field]

\* A tier the intent names, or the only public one if it asks to be public.
Exposure(cat, words) ==
  LET named == words \intersect TierNames(cat)
      public == PublicTiers(cat)
  IN IF named # {} THEN CHOOSE n \in named : TRUE
     ELSE IF words \intersect PublicWords # {} /\ Cardinality(public) = 1
            THEN (CHOOSE t \in public : TRUE).name
            ELSE None

Requirements(cat, words) ==
  LET expose == Exposure(cat, words)
      spelled == words \intersect DOMAIN Asks
      hosts == words \intersect DOMAIN cat.hosts
      tags == (words \intersect KnownTags(cat)) \ {expose}
  IN [expose |-> expose,
      tags   |-> tags,
      gpu    |-> words \intersect GpuWords # {},
      size   |-> [k \in Sizes |-> Asked(words, k)],
      port   |-> Asked(words, "port"),
      name   |-> Asked(words, "name"),
      hostname |-> Asked(words, "hostname"),
      host   |-> IF hosts = {} THEN None ELSE CHOOSE h \in hosts : TRUE,
      unrecognised |-> words \ UNION {tags, TierNames(cat), GpuWords, PublicWords,
                                      Stopwords, spelled, hosts},
      conflict |-> \/ Cardinality(words \intersect TierNames(cat)) > 1
                   \/ words \intersect Negations # {}]

-----------------------------------------------------------------------------

\* Tags a grant denies to agents.
DeniedTags(cat) ==
  UNION {g.deny : g \in {x \in cat.policy.grants : x.principal = "agent"}}

\* Mutant: the class of a network will do, whichever network the tier names.
ClassFits(cat, tier, h) == tier.class \in HostNetworkClasses(cat, h)
\* _reject asks this of a host by itself, not through the rule of `check`.
HostReaches(cat, tier, h) ==
  LET networks == HostNetworks(cat, h)
  IN /\ tier.net = None \/ tier.net \in networks
     /\ \E n \in networks : cat.nets[n] = tier.class
\* The reasons _reject gives, any of which excludes the host.
Rejected(cat, h, req) ==
  LET host == cat.hosts[h] IN
  \/ host.role \in NonTargets
  \/ req.host # None /\ h # req.host
  \/ \E t \in DeniedTags(cat) : t \in host.tags /\ t \notin req.tags
  \/ \E t \in Tiers(cat, req.expose) : ~HostReaches(cat, t, h)
  \/ ~(req.tags \subseteq host.tags)
  \/ req.gpu /\ ~host.gpu
  \* What the catalog does not say is never guessed.
  \/ \E k \in Sizes : /\ req.size[k] # None
                      /\ IF host.size[k] = None THEN TRUE
                         ELSE host.size[k] < req.size[k]

\* An intent with a conflict in it gets neither candidates nor exclusions.
Candidates(cat, req) ==
  IF req.conflict THEN {}
  ELSE {h \in DOMAIN cat.hosts : ~Rejected(cat, h, req)}
Exclusions(cat, req) ==
  IF req.conflict THEN {} ELSE DOMAIN cat.hosts \ Candidates(cat, req)

\* Mutant: only the host the intent asks for is looked at.
ConflictsAsked(cat, req) ==
  {<<"port", h>> : h \in {x \in Candidates(cat, req) \intersect {req.host} :
     \E e \in cat.endpoints : e.service \in ServicesOn(cat, x) /\ e.port = req.port}}
\* Declared ports only: neither the transport, nor the address, nor what a
\* collector saw is looked at here.
Conflicts(cat, req) ==
  LET PortsOn(h) == {e.port : e \in {x \in cat.endpoints : x.service \in ServicesOn(cat, h)}}
  IN {<<"port", h>> : h \in {x \in Candidates(cat, req) :
                               req.port # None /\ req.port \in PortsOn(x)}}
     \union When(req.hostname # None /\ req.hostname \in Hostnames(cat),
                 {<<"hostname", req.hostname>>})
     \union When(req.name # None /\ req.name \in DOMAIN cat.services,
                 {<<"service name", req.name>>})

\* A candidate somebody contests is moved to the exclusions.
ContextFor(cat, words, contested) ==
  LET req == Requirements(cat, words)
      offered == Candidates(cat, req)
  IN [candidates |-> offered \ contested,
      exclusions |-> Exclusions(cat, req) \union (offered \intersect contested),
      conflicts  |-> Conflicts(cat, req),
      requirements |-> req]
=============================================================================
