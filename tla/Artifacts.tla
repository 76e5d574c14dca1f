------------------------------ MODULE Artifacts ------------------------------
(***************************************************************************)
(* What `cadastre check` reads out of a proposed file.  A file is a record *)
(* of what the YAML says; an artifact is the record Rules works on.  What  *)
(* the parser does not recognise is dropped, and only a service without a  *)
(* host leaves a word about it.                                            *)
(*                                                                         *)
(* Source: core/artifacts.py.                                              *)
(***************************************************************************)
EXTENDS Rules

Blank(kind) ==
  [kind |-> kind, services |-> {}, refs |-> {}, jobs |-> {}, grants |-> {},
   systems |-> {}, repo |-> None, topology |-> None, routes |-> {}, unchecked |-> {}]

Given(value, otherwise) == IF value # None THEN value ELSE otherwise

\* A published port: an integer, digits, host:container with or without an
\* address and a transport, or a mapping with `published`.  A range, a
\* variable or a mapping without `published` is passed over.
Readable == {"number", "mapping", "published"}
PortBindings(ports) ==
  {[port |-> p.port,
    protocol |-> IF p.form # "number" /\ p.protocol # None THEN p.protocol ELSE "tcp",
    bind |-> IF p.form = "number" THEN None ELSE p.address] :
      p \in {x \in ports : x.form \in Readable}}

\* A prefix says "reference" whatever the variable is called; a slash says it
\* only under the name of a credential, and never under a filesystem root.
LooksLikeSecretReference(v) ==
  \/ v.value = "prefixed"
  \/ v.value = "slash" /\ v.key = "credential"
SecretRefs(raw) ==
  raw.secrets \union {v.ref : v \in {x \in raw.env : LooksLikeSecretReference(x)}}

\* Mutant: a host given for the whole file is not inherited.
OwnHostOnly(key, raw, top) ==
  [name |-> Given(raw.name, key), host |-> raw.host, expose |-> Given(raw.expose, top.expose),
   bindings |-> PortBindings(raw.ports), hostnames |-> raw.hostnames,
   fronted |-> Given(raw.fronted, top.fronted)]
ProposedService(key, raw, top) ==
  [name      |-> Given(raw.name, key),
   host      |-> Given(raw.host, top.host),
   expose    |-> Given(raw.expose, top.expose),
   bindings  |-> PortBindings(raw.ports),
   hostnames |-> raw.hostnames,
   fronted   |-> Given(raw.fronted, top.fronted)]

\* file: [kind, top, services: key -> raw]
ParseCompose(file) ==
  LET proposed == {ProposedService(k, file.services[k], file.top) :
                     k \in DOMAIN file.services}
  IN [Blank("compose") EXCEPT
        !.services  = proposed,
        !.refs      = UNION {SecretRefs(file.services[k]) : k \in DOMAIN file.services},
        !.repo      = file.top.repo,
        !.topology  = file.top.topology,
        !.unchecked = {s.name : s \in {x \in proposed : x.host = None}}]

\* Caddy's servers and the generic `routes`, both if both are there.
ParseIngress(file) ==
  LET hosts == file.caddy \union file.routes
  IN [Blank("ingress") EXCEPT !.routes = hosts,
                              !.unchecked = IF hosts = {} THEN {"ingress"} ELSE {}]

\* runs-on: nothing, labels, a pool with labels, or something with an
\* expression in it, which is never evaluated.
ExecutionRequirement(job, defaults) ==
  LET caps == Given(job.requires, defaults)
      Of(kind) == [job |-> job.id, kind |-> kind, labels |-> {}, pool |-> None,
                      caps |-> caps]
  IN IF job.form = "absent" THEN Of("absent")
     ELSE IF job.expression THEN Of("indeterminate")
     ELSE IF job.form = "group"
            THEN [Of(IF job.pool # None THEN "pool" ELSE "labels") EXCEPT
                    !.labels = job.labels \ {job.pool}, !.pool = job.pool]
     ELSE IF job.labels = {} THEN Of("unrecognised")
     ELSE [Of("labels") EXCEPT !.labels = job.labels]

\* The system is what the file says, or what its shape suggests.
ParsePipeline(file) ==
  [Blank("pipeline") EXCEPT
     !.refs     = file.refs,
     !.systems  = {Given(file.system, IF file.jobs # {} THEN "ci-public"
                                      ELSE "ci-selfhosted")},
     !.repo     = file.repo,
     !.topology = file.topology,
     !.jobs     = {ExecutionRequirement(j, file.requires) : j \in file.jobs},
     !.services = {[name |-> s, host |-> None, expose |-> None, bindings |-> {},
                    hostnames |-> {}, fronted |-> None] : s \in file.deploys}]

ParseGrants(file) == [Blank("grants") EXCEPT !.grants = file.grants]

Parse(file) ==
  CASE file.kind = "compose"  -> ParseCompose(file)
    [] file.kind = "ingress"  -> ParseIngress(file)
    [] file.kind = "pipeline" -> ParsePipeline(file)
    [] file.kind = "grants"   -> ParseGrants(file)
=============================================================================
