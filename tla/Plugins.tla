------------------------------ MODULE Plugins -------------------------------
(***************************************************************************)
(* The plugin contract: what one call of a plugin can come back as, what a *)
(* plugin declares about itself, which plugins are registered, and what    *)
(* plugins.yaml may say.  Pure definitions, without state.                 *)
(*                                                                         *)
(* Source: plugins/protocol.py, plugins/runner.py, plugins/harness.py,     *)
(* plugins/collectors/http.py, plugins/collectors/__init__.py,             *)
(* plugins/contract.py, plugins/registry.py, plugins/config.py,            *)
(* core/provenance.py.                                                     *)
(***************************************************************************)
EXTENDS Integers, Sequences, FiniteSets, Functions, SequencesExt

CONSTANTS
  None,
  Fields,       \* kind -> its fields; the kinds of the core
  ModuleFields, \* the same of the Manifest module
  Ttl,          \* capability -> how long its answers are fresh
  DefaultTtl    \* for a capability that Ttl does not name

CoreKinds == DOMAIN Fields
Kinds     == CoreKinds \union DOMAIN ModuleFields
FieldsOf(kind) == IF kind \in CoreKinds THEN Fields[kind] ELSE ModuleFields[kind]

\* active_registry: the kinds this installation knows.
ActiveKinds(manifest) == IF manifest THEN Kinds ELSE CoreKinds

-----------------------------------------------------------------------------
(* One call.  An entity is its id and its fields, a field the set of the   *)
(* values it says, empty when it says nothing.                             *)

ErrorKinds == {"unreachable", "unauthorized", "not_found", "invalid_config",
               "rate_limited", "internal"}
WriteMethods == {"vcs.open_pr", "ci.trigger", "broker.mint", "broker.exec"}

OkReply(result, asOf) == [ok |-> TRUE, result |-> result, asOf |-> asOf]
FailReply(kind)       == [ok |-> FALSE, kind |-> kind]

\* http.get_json: the status of the upstream, None when there is no answer.
FromStatus(status) ==
  CASE status \in {401, 403} -> "unauthorized"
    [] status = 404          -> "not_found"
    [] status = 429          -> "rate_limited"
    [] status >= 500         -> "unreachable"
    [] OTHER                 -> "internal"
GetJson(status, body) ==
  CASE status = None  -> FailReply("unreachable")
    [] status # 200   -> FailReply(FromStatus(status))
    [] body = None    -> FailReply("internal")
    [] OTHER          -> [ok |-> TRUE, body |-> body]

\* harness.serve: a handler that raises is still a reply and exit code 0.
Serve(methods, method, reply) ==
  CASE method \notin methods -> FailReply("not_found")
    [] reply = None          -> FailReply("internal")
    [] OTHER                 -> reply

\* protocol.parse_reply, of the one object on stdout; anything unclean is a
\* ValueError, and other errors are nobody's: a `v` that is no number, bytes
\* that are no text.
ParseReply(out) ==
  CASE out.form \in {"empty", "unparsable", "list"} -> FailReply("internal")
    [] out.form \in {"undecodable", "version"}      -> [ok |-> FALSE, kind |-> "raised"]
    [] out.form = "object" /\ out.reply.ok ->
         IF out.reply.asOf = None \/ out.reply.result = None
           THEN FailReply("internal") ELSE out.reply
    [] OTHER ->
         FailReply(IF out.reply.kind \in ErrorKinds THEN out.reply.kind ELSE "internal")

\* runner.call.  `token` is what app_auth came to, `end` how the process ended.
Call(method, token, process) ==
  CASE method \in WriteMethods      -> FailReply("invalid_config")
    [] token.kind # "ready"         -> FailReply(token.kind)
    [] process.end = "no command"   -> FailReply("invalid_config")
    [] process.end = "timeout"      -> FailReply("unreachable")
    [] process.end = "os error"     -> FailReply("internal")
    [] process.end = "failed"       -> FailReply("internal")
    [] OTHER                        -> ParseReply(process.out)

-----------------------------------------------------------------------------
(* What a plugin declares (plugins/contract.py).                           *)

Classes(d)   == d.reflected \union d.intended \union d.annotated
NoScope      == [ids |-> None, where |-> <<>>]

\* `coverage`, of a declaration, of a reply and in plugins.yaml alike.
ValidScope(kind, scope) == DOMAIN scope.where \subseteq FieldsOf(kind)

ValidDeclaration(d) ==
  /\ d.kind \in CoreKinds
  /\ d.authority \in {"source", "catalog"}
  /\ d.reflected \intersect d.intended = {}
  /\ d.annotated \intersect (d.reflected \union d.intended) = {}
  /\ Classes(d) \union d.identity \subseteq FieldsOf(d.kind) \union {"id"}
  /\ d.identity # {}
  /\ DOMAIN d.onContest \subseteq Classes(d)
  /\ Range(d.onContest) \subseteq {"exclude", "warn", "ignore"}
  /\ ValidScope(d.kind, d.coverage)

\* parse_plugin_info
ValidInfo(info) ==
  /\ info.name # None
  /\ \A d \in info.entities : ValidDeclaration(d)
  /\ \A d, e \in info.entities : d.kind = e.kind => d = e

\* runner.info: the handshake.
Info(token, process) ==
  LET outcome == Call("plugin.info", token, process) IN
  IF outcome.ok /\ ~ValidInfo(outcome.result) THEN FailReply("internal") ELSE outcome

IdentityOf(kind) == CASE kind = "secret"   -> {"ref"}
                      [] kind = "pipeline" -> {"repo", "system"}
                      [] OTHER             -> {"id"}
CatalogOwned(kind) == IF kind = "ci_executor" THEN {"runs_on", "capabilities"} ELSE {}
EmptinessNotCredible == {<<"hypervisor-proxmox", "host">>}
\* The fields named x-<namespace> a plugin may report beside the kind's own.
Namespaces ==
  {<<"vpn-tailscale", "host">>, <<"hypervisor-proxmox", "host">>,
   <<"secrets-infisical", "secret">>, <<"orchestrator-gitops", "service">>}

DeclarationFor(kind, authority, plugin) ==
  LET annotated == FieldsOf(kind) \intersect {"tags", "notes"}
      owned     == FieldsOf(kind) \ annotated
      held      == IF authority = "source" THEN CatalogOwned(kind) ELSE owned
  IN [kind |-> kind, authority |-> authority,
      reflected |-> owned \ held, intended |-> held, annotated |-> annotated,
      identity |-> IdentityOf(kind),
      extensions |-> {n \in Namespaces : n = <<plugin, kind>>},
      onContest |-> [f \in owned \ held |-> "exclude"],
      emptyExpected |-> <<plugin, kind>> \notin EmptinessNotCredible,
      coverage |-> NoScope]

Said(e, field) == IF field = "id" THEN {e.id}
                  ELSE IF field \in DOMAIN e.f THEN e.f[field] ELSE {}
IdentityKey(e, fields) == [x \in fields |-> Said(e, x)]

\* matches, with its one override: repositories correlate by their remotes.
RepoMatches(seen, d) ==
  IF Said(seen, "remotes") = {} \/ Said(d, "remotes") = {}
    THEN seen.id = d.id
    ELSE Said(seen, "remotes") \intersect Said(d, "remotes") # {}
Matches(seen, d, declaration) ==
  IF declaration.kind = "repo" THEN RepoMatches(seen, d)
  ELSE IdentityKey(seen, declaration.identity) = IdentityKey(d, declaration.identity)

-----------------------------------------------------------------------------
(* Which plugins are registered: the in-tree ones, the module's while it   *)
(* is enabled, and the files of plugins/, which may replace any of them.   *)

Builtin(name, authority, kinds) ==
  [name |-> name,
   entities |-> {DeclarationFor(k, authority, name) : k \in kinds \intersect CoreKinds}]
BuiltinPlugins ==
  {Builtin("static", "catalog", {"host", "service", "network", "endpoint", "secret",
                                 "repo", "pipeline", "ci_executor", "ci_pool"}),
   Builtin("exec", "source", {}),
   Builtin("ingress-caddy", "source", {"endpoint"}),
   Builtin("forge-forgejo", "source", {"repo", "secret"}),
   Builtin("forge-github", "source", {"repo", "pipeline", "ci_executor", "ci_pool"}),
   Builtin("ci-woodpecker", "source", {"pipeline", "secret"}),
   Builtin("secrets-infisical", "source", {"secret"}),
   Builtin("orchestrator-gitops", "source", {"service"}),
   Builtin("dns-cloudflare", "source", {"domain"}),
   Builtin("vpn-tailscale", "source", {"host", "network"}),
   Builtin("hypervisor-proxmox", "source", {"host"}),
   Builtin("hypervisor-hyperv", "source", {"host"}),
   Builtin("registry-crates", "source", {})}
ManifestPlugins ==
  {[name |-> p[1],
    entities |-> {DeclarationFor(p[2], "source", p[1]) :
                    k \in {p[2]} \intersect DOMAIN ModuleFields}] :
     p \in {<<"work-git", "repo_checkout">>, <<"work-github", "forge_item">>,
            <<"work-markdown", "markdown_finding">>}}

Discover(manifest, local) ==
  LET in == BuiltinPlugins \union (IF manifest THEN ManifestPlugins ELSE {}) IN
  {p \in in : \A q \in local : q.name # p.name} \union local
Registered(plugins, name) == \E p \in plugins : p.name = name
\* None, or what the plugin of this name says of the kind.
DeclarationOf(plugins, name, kind) ==
  LET found == {d \in UNION {p.entities : p \in {q \in plugins : q.name = name}} :
                  d.kind = kind}
  IN IF found = {} THEN None ELSE CHOOSE d \in found : TRUE

-----------------------------------------------------------------------------
(* plugins.yaml (load_plugins): one bad source and no session opens.       *)

ValidAuth(s) ==
  s.appAuth # None => /\ s.appAuth.appId # None /\ s.appAuth.keyFile # None
                      /\ s.tokenEnv # None
ValidSource(s, manifest) ==
  /\ s.id # None /\ s.exe # None
  /\ \A k \in DOMAIN s.coverage : k \in ActiveKinds(manifest) /\ ValidScope(k, s.coverage[k])
  /\ ValidAuth(s)
LoadPlugins(file, manifest) ==
  /\ \A i \in DOMAIN file : ValidSource(file[i], manifest)
  /\ \A i, j \in DOMAIN file : file[i].id = file[j].id => i = j

\* A source without methods is asked for these.
DefaultMethods == <<"inventory.list", "network.list", "endpoint.list">>
MethodsFor(s)  == IF s.methods = <<>> THEN DefaultMethods ELSE s.methods
\* `plugin:` defaults to the id of the source.
LabelOf(s)     == IF s.plugin = None THEN s.id ELSE s.plugin

\* provenance.ttl_for and provenance.evaluate.
Prefix(capability) == IF capability \in {"dns.zones", "dns.records"} THEN "dns"
                      ELSE IF capability = "inventory.list" THEN "inventory" ELSE "work"
TtlFor(capability, overrides) ==
  LET keys == SelectSeq(<<capability, Prefix(capability), "default">>,
                        LAMBDA k : k \in DOMAIN overrides)
  IN CASE keys # <<>>               -> overrides[Head(keys)]
       [] capability \in DOMAIN Ttl -> Ttl[capability]
       [] OTHER                     -> DefaultTtl
Stale(ok, asOf, ttl, now) == ~ok \/ now - asOf > ttl
=============================================================================
