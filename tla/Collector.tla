----------------------------- MODULE Collector ------------------------------
(***************************************************************************)
(* One `cadastre collect` after the other over an estate that changes: the *)
(* handshake with each source's plugin, its methods one by one, what the   *)
(* run makes of the answers and stores, and what drift then says is        *)
(* missing.  Evidence.tla has the ledger, the history and overlapping      *)
(* runs; here it is the contents of an answer that matter.                 *)
(*                                                                         *)
(* Source: cli/collect.py, core/observed.py, cli/session.py and what       *)
(* Plugins and Drift translate.                                            *)
(***************************************************************************)
EXTENDS Drift

CONSTANTS
  Things,      \* what the estate may contain: [kind, id, f]
  Fickle,      \* those of them that may go and come back
  Place,       \* thing -> the zone, node or path of a secret store it is in
  Exes,        \* command -> [name, kinds (method -> kinds), names (method ->
               \*   the stores it reports bare references of), extended], the
               \*   last whether its entities carry x-<namespace> fields
  Files,       \* versions of plugins.yaml, each a sequence of sources
  Local,       \* what the files in plugins/ declare
  Catalogs,    \* declared/, in versions
  Reaches,     \* source -> the places it may look into: what its credential is
               \*   good for and its configuration (zones, environment, path) names
  Mishaps,     \* what a method call may run into
  Handshakes,  \* source -> what its handshake may run into
  Alphabet,    \* the methods, in alphabetical order
  MaxClock,    \* bound on the clock
  MaxChanges   \* bound on the changes around the collector

VARIABLES
  things,   \* the estate
  reach,    \* source -> the places it looks into
  file,     \* plugins.yaml
  manifest, \* whether the Manifest module is enabled
  catalog,  \* declared/
  stored,   \* source -> its evidence, for the sources observed.sqlite3 has
  run,      \* the collector process
  last,     \* how the last run ended: [how, enabled, started]
  clock, changes

around == <<things, reach, file, manifest, catalog>>
vars == <<around, stored, run, last, clock, changes>>

\* What the files of plugins.yaml say of a source, the rest being checked
\* when a session opens; how a call can go wrong.
ASSUME FilesAssumption ==
  \A f \in Files :
    /\ f \in Seq(Range(f))
    /\ \A src \in Range(f) : /\ src.id \in DOMAIN Reaches /\ src.exe \in DOMAIN Exes
                             /\ src.methods \in Seq(Range(src.methods))
ASSUME MishapsAssumption ==
  Mishaps \union UNION Range(Handshakes) \subseteq
    {"fine", "denied", "throttled", "down", "unparsable", "undecodable",
     "timeout", "no command", "os error", "failed"}

Sources == DOMAIN Reaches
NoRun == [pc |-> "idle"]
Nothing == [entities |-> <<>>, coverage |-> <<>>, names |-> <<>>, caps |-> {},
            asOf |-> None, world |-> <<>>, asked |-> <<>>]
Widest(places, s) == places \in Reaches[s] /\ \A r \in Reaches[s] : places \subseteq r => r = places

Init ==
  /\ things \in {Things, Things \ Fickle}
  /\ reach \in {r \in [Sources -> UNION Range(Reaches)] : \A s \in Sources : Widest(r[s], s)}
  /\ file \in Files /\ manifest = TRUE /\ catalog \in Catalogs
  /\ stored = <<>>
  /\ run = NoRun /\ last = [how |-> "none", enabled |-> {}, started |-> 0]
  /\ clock = 0 /\ changes = 0

-----------------------------------------------------------------------------
(* Opening a session.                                                      *)

Discovered == [m \in BOOLEAN |-> Discover(m, Local)]
Plugs == Discovered[manifest]
Overrides == <<>>
FirstOf(caps) == IF caps = {} THEN "inventory.list"
                 ELSE Head(SelectSeq(Alphabet, LAMBDA m : m \in caps))
\* load_observed: what is stored, judged again by its age.
Shown(ev, now) ==
  [ev EXCEPT !.ok = ~Stale(ev.ok, ev.asOf, TtlFor(FirstOf(ev.caps), Overrides), now)]
Readable(ev) ==
  DOMAIN ev.entities \union DOMAIN ev.coverage \subseteq ActiveKinds(manifest)
SessionOpens == LoadPlugins(file, manifest) /\ \A s \in DOMAIN stored : Readable(stored[s])

Enabled(sources) == {sources[i].id : i \in {j \in DOMAIN sources : sources[j].enabled}}
Open ==
  /\ run.pc = "idle" /\ SessionOpens
  /\ run' = [pc |-> "source", todo |-> file, prior |-> stored, now |-> clock,
             kinds |-> ActiveKinds(manifest), enabled |-> Enabled(file)]
  /\ UNCHANGED <<around, stored, last, clock, changes>>

Source == Head(run.todo)
\* A dict laid over another, as dict.update does.
Updated(old, new) ==
  [x \in DOMAIN old \union DOMAIN new |-> IF x \in DOMAIN new THEN new[x] ELSE old[x]]
Ends(how) ==
  /\ run' = NoRun
  /\ last' = [how |-> how, enabled |-> run.enabled, started |-> run.now]
Skip ==
  /\ run.pc = "source" /\ run.todo # <<>> /\ ~Source.enabled
  /\ run' = [run EXCEPT !.todo = Tail(@)]
  /\ UNCHANGED <<around, stored, last, clock, changes>>

-----------------------------------------------------------------------------
(* One call of a plugin, from the upstream it asks to what runner.call     *)
(* makes of its process.                                                   *)

Token == [kind |-> "ready"]
Statuses == [fine |-> 200, denied |-> 403, throttled |-> 429, down |-> None]
Exited(form, reply) == [end |-> "exited", out |-> [form |-> form, reply |-> reply]]
Process(methods, method, mishap, reply) ==
  CASE mishap \in DOMAIN Statuses ->
         LET up == GetJson(Statuses[mishap], reply) IN
         Exited("object", Serve(methods, method, IF up.ok THEN up.body ELSE up))
    [] mishap \in {"unparsable", "undecodable"} -> Exited(mishap, None)
    [] OTHER -> [end |-> mishap]

\* What the plugin's handler answers: everything of the method's kinds in the
\* places it looks into.  dns-cloudflare reports the zones it went through as
\* its coverage, if there were any; secrets-infisical reports the store it is
\* said to be, although it looks into one path of one environment.
Visible(s)   == {t \in things : Place[t] \in reach[s]}
Seen(s, kind) == {[id |-> t.id, f |-> t.f] : t \in {x \in Visible(s) : x.kind = kind}}
Coverage(exe, method, zones) ==
  CASE exe.name = "dns-cloudflare" /\ method = "dns.records" /\ zones # {} ->
         [domain |-> [ids |-> None, where |-> [zone |-> zones]]]
    [] exe.name = "secrets-infisical" /\ method = "secret.list" ->
         [secret |-> [ids |-> None, where |-> [store |-> exe.names[method]]]]
    [] OTHER -> <<>>
Names(exe, method, s) ==
  [store \in exe.names[method] |->
     UNION {Said(t, "ref") : t \in {x \in Visible(s) : store \in Said(x, "store")}}]
Answer(exe, method, s) ==
  OkReply([entities |-> [k \in exe.kinds[method] |-> Seen(s, k)],
           names |-> Names(exe, method, s),
           coverage |-> Coverage(exe, method, reach[s])], clock)
Introduces ==
  [x \in DOMAIN Exes |->
     [name |-> Exes[x].name,
      entities |-> {DeclarationFor(k, "source", Exes[x].name) : k \in UNION Range(Exes[x].kinds)}]]

\* The identity announced in the handshake is adopted when it is registered,
\* and so are the fields its declarations allow.
Adopted(outcome) == outcome.ok /\ Registered(Plugs, outcome.result.name)
Handshake ==
  /\ run.pc = "source" /\ run.todo # <<>> /\ Source.enabled
  /\ \E mishap \in Handshakes[Source.id] :
       \E outcome \in {Info(Token, Process({"plugin.info"}, "plugin.info", mishap,
                                           OkReply(Introduces[Source.exe], clock)))} :
          IF outcome.ok \/ outcome.kind # "raised"
            THEN /\ run' = [pc |-> "call", todo |-> run.todo, prior |-> run.prior,
                            now |-> run.now, kinds |-> run.kinds, enabled |-> run.enabled,
                            left |-> MethodsFor(Source), got |-> Nothing, failed |-> FALSE,
                            plugin |-> IF Adopted(outcome) THEN outcome.result.name
                                         ELSE LabelOf(Source),
                            extensions |-> Adopted(outcome)]
                 /\ last' = last
            ELSE Ends("aborted")
  /\ UNCHANGED <<around, stored, clock, changes>>

-----------------------------------------------------------------------------
(* collect_source.                                                         *)

\* _parse_reported_coverage drops what it cannot use.
Reported(coverage) ==
  [k \in {x \in DOMAIN coverage : x \in run.kinds /\ ValidScope(x, coverage[x])} |-> coverage[k]]
\* _merge: whoever names an entity first has it.
Merge(into, new) ==
  [k \in DOMAIN into \union DOMAIN new |->
     LET had == IF k \in DOMAIN into THEN into[k] ELSE {}
         more == IF k \in DOMAIN new THEN new[k] ELSE {}
     IN had \union {e \in more : \A x \in had : x.id # e.id}]
\* parse_source refuses a kind or a field nobody declared.
Parses(exe, reply) ==
  /\ DOMAIN reply.entities \subseteq run.kinds
  /\ exe.extended /\ UNION Range(reply.entities) # {} => run.extensions
Later(a, b) == IF a = None \/ b > a THEN b ELSE a

Taken(got, method, outcome) ==
  LET result == outcome.result
      kinds  == DOMAIN result.entities \union {x \in {"secret"} : result.names # <<>>}
  IN [entities |-> Merge(got.entities, result.entities),
      coverage |-> Updated(got.coverage, Reported(result.coverage)),
      names |-> IF result.names = <<>> THEN got.names ELSE result.names,
      caps |-> got.caps \union {method},
      asOf |-> Later(got.asOf, outcome.asOf),
      world |-> Updated(got.world, [k \in kinds |-> {t \in things : t.kind = k}]),
      asked |-> Updated(got.asked, [k \in kinds |->
                  [exe |-> Source.exe, method |-> method, places |-> reach[Source.id],
                   own |-> DOMAIN Source.coverage]])]

Ask ==
  /\ run.pc = "call" /\ run.left # <<>>
  /\ \E mishap \in Mishaps :
       LET method == Head(run.left)
           exe == Exes[Source.exe]
           reply == IF method \in DOMAIN exe.kinds THEN Answer(exe, method, Source.id) ELSE None
           next == [run EXCEPT !.left = Tail(@)]
       IN \E outcome \in {Call(method, Token, Process(DOMAIN exe.kinds, method, mishap, reply))} :
          \/ /\ outcome.ok /\ Parses(exe, outcome.result)
             /\ run' = [next EXCEPT !.got = Taken(@, method, outcome)]
             /\ last' = last
          \/ /\ ~outcome.ok /\ outcome.kind # "raised"
             /\ run' = [next EXCEPT !.failed = TRUE]
             /\ last' = last
          \/ /\ IF outcome.ok THEN ~Parses(exe, outcome.result) ELSE outcome.kind = "raised"
             /\ Ends("aborted")
  /\ UNCHANGED <<around, stored, clock, changes>>

\* Mutant: the previous evidence is kept as it is.
KeptAsItWas(caps) ==
  IF Source.id \in DOMAIN run.prior THEN run.prior[Source.id]
  ELSE [source |-> Source.id, plugin |-> run.plugin, asOf |-> run.now, ok |-> FALSE,
        caps |-> caps, entities |-> <<>>, coverage |-> Source.coverage,
        names |-> <<>>, world |-> <<>>, asked |-> <<>>]
\* The previous evidence of the source, marked stale.
Kept(caps) ==
  IF Source.id \in DOMAIN run.prior THEN [run.prior[Source.id] EXCEPT !.ok = FALSE]
  ELSE [source |-> Source.id, plugin |-> run.plugin, asOf |-> run.now, ok |-> FALSE,
        caps |-> caps, entities |-> <<>>, coverage |-> Source.coverage,
        names |-> <<>>, world |-> <<>>, asked |-> <<>>]
\* Mutant: a method that failed does not make the source stale.
FreshAnyway ==
  [source |-> Source.id, plugin |-> run.plugin, asOf |-> run.got.asOf, ok |-> TRUE,
   caps |-> run.got.caps, entities |-> run.got.entities,
   coverage |-> Updated(run.got.coverage, Source.coverage), names |-> run.got.names,
   world |-> run.got.world, asked |-> run.got.asked]
Fresh ==
  [source |-> Source.id, plugin |-> run.plugin, asOf |-> run.got.asOf, ok |-> ~run.failed,
   caps |-> run.got.caps, entities |-> run.got.entities,
   coverage |-> Updated(run.got.coverage, Source.coverage), names |-> run.got.names,
   world |-> run.got.world, asked |-> run.got.asked]
\* The plugin the source is labelled with says an empty answer is unexpected.
UnexpectedEmpty ==
  /\ UNION Range(run.got.entities) = {}
  /\ \E p \in Plugs : p.name = LabelOf(Source) /\ \E d \in p.entities : ~d.emptyExpected

Outcome == CASE run.got.caps = {} -> Kept({})
             [] run.got.caps # {} /\ UnexpectedEmpty -> Kept(run.got.caps)
             [] OTHER -> Fresh
Record ==
  /\ run.pc = "call" /\ run.left = <<>>
  /\ stored' = Updated(stored, [s \in {Source.id} |-> Outcome])
  /\ run' = [pc |-> "source", todo |-> Tail(run.todo), prior |-> run.prior, now |-> run.now,
             kinds |-> run.kinds, enabled |-> run.enabled]
  /\ UNCHANGED <<around, last, clock, changes>>

Finish ==
  /\ run.pc = "source" /\ run.todo = <<>>
  /\ Ends("done")
  /\ UNCHANGED <<around, stored, clock, changes>>
\* The process dies; what it recorded stays.
Kill ==
  /\ run.pc # "idle" /\ changes < MaxChanges
  /\ Ends("killed") /\ changes' = changes + 1
  /\ UNCHANGED <<around, stored, clock>>

-----------------------------------------------------------------------------
(* Around it: the estate, credentials, plugins.yaml, the catalog, the      *)
(* module switch, time.                                                    *)

Change ==
  /\ changes < MaxChanges /\ changes' = changes + 1
  /\ UNCHANGED <<stored, run, last, clock>>
Come    == Change /\ \E t \in Things \ things :
             things' = things \union {t} /\ UNCHANGED <<reach, file, manifest, catalog>>
Go      == Change /\ \E t \in things \intersect Fickle :
             things' = things \ {t} /\ UNCHANGED <<reach, file, manifest, catalog>>
Regrant == Change /\ \E s \in Sources : \E r \in Reaches[s] \ {reach[s]} :
             reach' = [reach EXCEPT ![s] = r] /\ UNCHANGED <<things, file, manifest, catalog>>
Edit    == Change /\ \E f \in Files \ {file} :
             file' = f /\ UNCHANGED <<things, reach, manifest, catalog>>
Declare == Change /\ \E c \in Catalogs \ {catalog} :
             catalog' = c /\ UNCHANGED <<things, reach, file, manifest>>
Toggle  == Change /\ manifest' = ~manifest /\ UNCHANGED <<things, reach, file, catalog>>
Tick    == /\ clock < MaxClock /\ clock' = clock + 1
           /\ UNCHANGED <<around, stored, run, last, changes>>

Collect == Open \/ Skip \/ Handshake \/ Ask \/ Record \/ Finish
Next == Collect \/ Kill \/ Come \/ Go \/ Regrant \/ Edit \/ Declare \/ Toggle \/ Tick

Spec == Init /\ [][Next]_vars

-----------------------------------------------------------------------------
(* Properties.                                                             *)

Is(t, d) == t.kind = d.kind /\ t.id = d.id /\ Said(t, "zone") = Said(d, "zone")

\* core/drift.py: `missing` is about absence.  When the source last answered for
\* the kind, nothing in the estate was what was declared.
MissingIsAbsence ==
  \A s \in DOMAIN stored :
    \A k \in DOMAIN stored[s].entities \intersect CoreKinds :
      \A row \in CompareKind(catalog, stored[s], k, Plugs) :
        row.category = "missing" =>
          \A d \in DeclaredOf(catalog, k), t \in stored[s].world[k] :
            d.id = row.id => ~Is(t, d)

\* What of the estate a source could see when it last answered for a kind.
InView(ev, kind) == {t \in ev.world[kind] : Place[t] \in ev.asked[kind].places}

\* What a `missing` row does mean, whatever a credential reaches: of all the
\* source could see when it last answered for the kind, nothing was what was
\* declared; and unless plugins.yaml narrows the source itself, the declared
\* domain is in a zone dns-cloudflare then went through, if it went through any,
\* and the declared secret in the store the Infisical source is said to be.
\* Evidence is kept over failed runs, methods answer one by one, and the
\* estate, the credentials, the configuration and the catalog change meanwhile.
SpokenFor(ev, d) ==
  LET was == ev.asked[d.kind]
      exe == Exes[was.exe]
  IN d.kind \notin was.own =>
       /\ exe.name = "dns-cloudflare" /\ was.method = "dns.records" /\ d.kind = "domain"
            => was.places = {} \/ Said(d, "zone") \intersect was.places # {}
       /\ exe.name = "secrets-infisical" /\ was.method = "secret.list" /\ d.kind = "secret"
            => Said(d, "store") \intersect exe.names[was.method] # {}
MissingIsUnseen ==
  \A s \in DOMAIN stored :
    \A k \in DOMAIN stored[s].entities \intersect CoreKinds :
      \A row \in CompareKind(catalog, stored[s], k, Plugs) :
        row.category = "missing" =>
          \A d \in DeclaredOf(catalog, k) : d.id = row.id =>
            /\ \A t \in InView(stored[s], k) : ~Is(t, d)
            /\ SpokenFor(stored[s], d)

Entries == UNION {Range(f) : f \in Files}
\* A catalog names an entity once; a plugin that reports secrets reports no
\* bare references elsewhere; dns.records reports records, which have a zone,
\* and the secrets of Infisical have a store; a secret's id is its own.
WellReported ==
  /\ \A c \in Catalogs : /\ None \notin c.entities
                         /\ \A d, e \in c.entities : d.kind = e.kind /\ d.id = e.id => d = e
  /\ \A x \in DOMAIN Exes : \A m, n \in DOMAIN Exes[x].kinds :
       /\ "secret" \in Exes[x].kinds[m] /\ Exes[x].names[n] # {} => "secret" \in Exes[x].kinds[n]
       /\ Exes[x].name = "dns-cloudflare" /\ m = "dns.records" => "domain" \in Exes[x].kinds[m]
       /\ Exes[x].name = "secrets-infisical" /\ m = "secret.list" => "secret" \in Exes[x].kinds[m]
  /\ "zone" \in FieldsOf("domain") /\ "store" \in FieldsOf("secret")
  /\ \A t, u \in Things : t.kind = "secret" /\ u.kind = "secret" /\ t.id = u.id => t = u
  /\ UNION {Said(t, "ref") : t \in Things} \subseteq DOMAIN SecretKey

\* What a reference of one store is called in another: what the contracts
\* between the two map it to, otherwise the same.
Renamed(c, ref, store, other) ==
  LET at(s, p) == UNION {k.mappings : k \in {x \in c.contracts : x.from = s /\ x.to = p}}
  IN {m[2] : m \in {x \in at(store, other) : SecretKey[x[1]] = SecretKey[ref]}}
     \union {m[1] : m \in {x \in at(other, store) : SecretKey[x[2]] = SecretKey[ref]}}
CalledIn(ref, store, other) ==
  LET names == Renamed(catalog, ref, store, other)
  IN IF names = {} THEN {ref} ELSE names

\* A reference said to be only in one store is not found in another it is
\* compared with: under a name it should have there, by the part stores agree
\* on, that store had nothing its sources could see when they were last asked.
\* The two are asked at different moments, and a credential, a configuration or
\* a contract may change between them.
Held(known, store) ==
  {SecretKey[r] :
     r \in UNION {UNION {Said(t, "ref") :
                          t \in {x \in InView(ev, "secret") : store \in Said(x, "store")}} :
                   ev \in {x \in known : store \in StoresOf(x)}}}
OnlyInIsUnseen ==
  LET known == Range(stored) IN
  \A row \in SecretStoreDiff(catalog, known) :
    \E other \in Stores(known) \ {row.source} :
      \E name \in CalledIn(row.id, row.source, other) : SecretKey[name] \notin Held(known, other)

\* It is where contracts are between two stores, select by the part stores agree
\* on, and do not compare by that part what another contract between the two
\* maps.
ContractsAgree ==
  \A c \in Catalogs : \A p \in c.contracts :
    /\ p.from # p.to
    /\ p.mappings = {} => \A x \in DOMAIN SecretKey : x \in Selected({x}, p.selectors) =>
         /\ \A y \in DOMAIN SecretKey :
              SecretKey[y] = SecretKey[x] => y \in Selected({y}, p.selectors)
         /\ Renamed(c, x, p.from, p.to) = {} /\ Renamed(c, x, p.to, p.from) = {}

\* What a session shows as fresh is the whole of an answer: every method it
\* is configured with answered, for every kind those methods report.
FreshIsWhole ==
  \A s \in DOMAIN stored : Shown(stored[s], clock).ok =>
    /\ stored[s].caps # {}
    /\ \E f \in Files : \E i \in DOMAIN f :
         /\ f[i].id = s /\ Range(MethodsFor(f[i])) = stored[s].caps
         /\ DOMAIN stored[s].entities =
              UNION {Exes[f[i].exe].kinds[m] : m \in stored[s].caps}

Judged(hows) ==
  run.pc = "idle" /\ last.how \in hows =>
    \A s \in last.enabled :
      /\ s \in DOMAIN stored
      /\ stored[s].ok => stored[s].asOf >= last.started

\* A source that did not answer is visible: after a run that reached its end,
\* every enabled source is stale or holds an answer of that run.
SilenceIsVisible == Judged({"done"})

\* provenance.py: a failing plugin degrades to a stale source, it never fails
\* the command.  So the same is true of every run that nobody killed.
FailingPluginsDegrade == Judged({"done", "aborted"})
=============================================================================
