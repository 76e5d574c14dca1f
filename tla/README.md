# Cadastre in TLA+

Cadastre keeps a catalog of what an estate should be, collects evidence of what
it is, shows where the two disagree, and tells people and agents where a new
service may go. This directory specifies it: the SQLite catalog and its write
gate, the rules, placement and the work agents do with them, plugins,
collection, drift and the trust ledger, the paging collectors, the HTTP and MCP
servers with their clients, and backup. Line numbers refer to `src/` (the
package is `src/src/cadastre/`).

`PROJECT.json` lists the components, the runs, the lines each definition models,
the hazards found in the code with the properties that cover them, the findings
and the theorems.

## 1. The system

| Part | State | Operations | Interacts with | Modules |
|---|---|---|---|---|
| Catalog store (`core/storage.py`) | `catalog.sqlite3`: entities, annotations, policy, metadata (revision, required modules, resolutions, acknowledgements), audit | `apply_catalog_transaction`, `load_declared`, `import_bundle`, `export_bundle`, reads | every command and request opens it; `modules.yaml` decides what kinds a process knows | `CatalogStore` |
| Write gate (`core/writes.py`) | none | add, update, annotate, delete; `write_metadata` | reads the store, runs `check_catalog`, hands the whole catalog back | `CatalogModel`, `CatalogStore` |
| Rules, parsers of proposed files (`core/rules.py`, `artifacts.py`, `topology.py`) | none | `check`, `check_catalog`, one function per rule and per kind of file | the gate, `cadastre check`, both servers | `Rules`, `Artifacts`, `Estate` |
| Placement (`core/placement.py`, `cli/context_for.py`) | none | `parse_intent`, candidates, rejections, conflicts | catalog and evidence of one session | `Placement`, `Estate` |
| Collection (`cli/collect.py`, `core/observed.py`, `storage.record_observed`) | `observed.sqlite3`: sources, observations | `collect`, one source after another | runs plugins; reads the catalog once | `Evidence`, `Collector` |
| Plugins (`plugins/`): contract, protocol, runner, registry, `plugins.yaml` | worker processes, cached tokens | `plugin.info`, one call per method | run by collection | `Plugins`, `Collector` |
| Collectors (`plugins/collectors/`) | none | read a foreign API, page by page | upstream services | `Listing`, `Collector` |
| Drift (`core/drift.py`) | none | `compare`, secret stores, replication contracts | catalog and evidence | `Drift`, `Collector` |
| Trust ledger (`core/trust.py`, `cli/trust.py`) | `trust_records` in `observed.sqlite3`; decisions in `catalog.sqlite3` | `update_records`, resolve, acknowledge, presented states | written by collection, decided on by people | `Evidence` |
| MCP server (`mcp/streamable.py`) | session set, time each was last seen | initialize, DELETE, tools/list, tools/call | limiter, authorizer and audit log of `adapters/security.py`; writes go to the gate | `McpServer`, `Remote` |
| HTTP adapter (`adapters/http.py`), services, client (`adapters/client.py`) | request threads | routes as reads, checks and writes | the same limiter, authorizer and audit log | `Remote` |
| stdio MCP server and bridge (`mcp/server.py`, `mcp/remote.py`) | the tools it offers | every tool, here or at an endpoint | the client; the two servers | `Remote` |
| Backup (`storage.backup`, `restore`) | backup directories | backup, restore, integrity | copies and replaces both databases beside the writers | `Backup` |
| Manifest (`manifest/`) | its rows in the catalog | the gate's; ranking and projection | the module marker | `CatalogStore` |
| Queries, rendering, UI, scripts | none | read and format | sessions | none |

What is hard in it:

* **Overlap.** Every command, request and tool call is a process or thread of
  its own. A write reads the catalog in three SELECTs outside any transaction,
  computes a whole new catalog, and only then takes the write lock. The MCP
  server's tables have no lock at all. Agents ask, check, deploy and declare in
  steps between which everything may change.
* **Failure.** Processes die between transactions; a lock wait times out; a
  source fails in part, or answers with what nobody can read; the audit sink
  fails; an import spans two database files that commit one after the other; a
  reply is lost after the write it reports.
* **Order and time.** Sessions expire while they are used, tokens between two
  checks or two pages, the limiter's clock is read before its lock,
  acknowledgements lapse, lists change while they are paged through.

What makes each part correct: the tables of the store agree with each other and
with the audit, no client undoes another, nobody changes what a source owns or
what a disabled module owns; what check lets through clashes with nothing it
could see, and what placement offers check accepts; what is reported missing was
looked for and not in view, what is shown as fresh is whole, a source that fell silent is visible; a
contest is never forgotten and every record rests on evidence; a session that is
accepted has an age and dies when idle, the limiter limits, no write goes
unaudited; what a client is told is true and every call ends; a backup is whole,
consistent and restorable.

## 2. The modules

**`CatalogModel`** has no state. It is the catalog as a value and what each
operation makes of it: the authority rules of `writes.write`, which look up in the
catalog the host a service or an endpoint is on and the role that host has there
(`OnExternalHost`; `Providers` are the bodies that give a host the role, `RunsOn`
those that put a record on another), the overlay of annotations, what the tree loader and the bundle import accept, what the policy
loses when it is stored, and the check of the gate. Identities, bodies and
references are constants: `CheckRefs` are the references `check_catalog` looks
at, `LoadRefs` those only the tree loader looks at, `OptIn` what the check
refuses unless the policy allows it. An entity's annotatable fields (tags,
notes) are one field, everything else about it is its `body`.

**`CatalogStore`** gives these operations processes and a database. A client
goes through `Start` (load `modules.yaml`), `Open` (open the store; the module
refusal), `ReadEntities`, `ReadAnnotations`, one of `Add`, `Update`, `Renote`,
`Annotate`, `Delete`, `Reload`, `Merge` (read the policy, compute, check), `Begin`
(take the lock) and `CommitCatalog` or `Rollback`; resolutions and
acknowledgements go through `ReadList` and `CommitMark`. `Busy` is the lock
wait that times out, `Crash` the death of the process at any point, `ToggleModule`
the edit of `modules.yaml`. A SELECT and a transaction are each one step,
because SQLite isolates them; what lies between them is not, because nothing
does. `Open` reads the revision and the module marker together: the marker only
changes with the revision. Opening also takes the write lock for an instant; as
that writes nothing, it can be taken to happen before or after any transaction
beside it.
`Checked` is the set of clients that pass `expected_revision`. The parameter
exists for edits and imports; no shipped caller uses it, and `load_declared` has
no such parameter. What is claimed of calls as they are shipped is therefore
claimed of those that nobody overtook (`Undisturbed`: the store is still at the
revision it had when the process opened it), and what an overtaken call does is
shown by violations.

**`SerialCatalog`** is what the design promises: a call reads, decides and
replaces the catalog in one step. `CatalogStore` INSTANCEs it over its own
tables; with every client in `Checked` the store implements it.

**`Evidence`** models a collect run as four steps per source: `Fetch` (call the
methods, decide what to record), `RecordSource`, `LoadLedger`, `SaveLedger`, the
last three being transactions of their own. A session copies the catalog and the
evidence at `Start`, as `Session.open` does. `EstateChanges` is the world,
`CatalogEdit` any write `CatalogStore` models, `Resolve` and `Acknowledge` the
people. A source's methods each see some entities; any subset may answer.
`Diverging` is `drift.compare` for the field of an entity and for the entity
itself, bounded by what the source's methods cover. Of the list of the last 20
signatures of a record only the last one is kept: flapping is set as soon as two
follow each other and never cleared. A reply carries no time of its own here:
evidence is dated by the run.

**`McpServer`** has one thread per request: limiter (`Arrive` reads the clock,
`Admit` holds the lock), `Authorize`, then the session steps, each access of the
set or of the table being a step (`Find`, `ReadSeen`, `Judge`, `Discard`, `Pop`,
`AddSession`, `Stamp`), then `Read` or `AuditWrite` and `Write`, which test the
same conditions twice, as the code does. `Judge` makes the comparison and the
renewal in one step with one reading of the clock; the code reads it twice.
`Restart` loses what is kept in memory. `used`, `admitted`, `allowed` and
`written` record history for the properties. A client knows a session only once
its initialize has been answered.

**`Backup`** treats a database as the set of transactions committed to it and
its revision as their number. `backup` copies and reads the revision of one
database after the other and then writes the manifest; `restore` verifies the
digests, puts one file and then the other. Beside it run commits of either
database and imports, which SQLite commits to the catalog first and to the
attached evidence database second. Processes `Open` and `Close` the databases, and may leave
a `-wal` file behind; `restore` takes no lock and asks nobody. A database that is
renamed over while somebody has it open, or that has a `-wal` beside it, has a
content nobody can tell (`Unknown`), and stays so: a later commit may be in the
file that is gone, and the `-wal` of one file is read with the other. The operator
runs one of the two commands at a time, and copies go bad only while nobody is
reading them.

**`Rules`** has every rule of `core/rules.py` as a set of findings, over an
artifact, a catalog and the evidence; `Check` and `CheckCatalog` are the two
registries. `CatalogModel` keeps its own, smaller check: there the references
are a parameter, because what matters to the store is that a check can fail, and
a catalog with pools and topologies would be out of reach beside two clients.
**`Artifacts`** is what the parsers find in a compose, pipeline, topology or
proxy file, **`Placement`** how an intent is read and each host offered or
excluded. The three are pure. Whether a host is offered and whether `check`
accepts it there is decided by different functions of the code, and they are
different operators here. An intent is a set of words; `Asks` says which value a
word spells.

**`Estate`** composes the three with agents. An agent goes through `Consult`
(`context-for`), `CheckFile`, `Deploy`, `DeclareService` and `DeclareEndpoint`;
between two of these steps operators withdraw services and endpoints, give hosts
another role and move executors (all through the gate), services stop, a
collector reports or goes stale, a host is contested. `Deploy` and `Stop` are
not code of the repository: they stand for what is done with its answers.
`Unseen` and `seen` record what a check was shown.

**`Plugins`** is the plugin contract: how a process can end and what its output
is taken for, what a plugin may say about itself, which plugins are registered
and which override which, what `plugins.yaml` may contain, and how old an answer
may be. **`Drift`** is `core/drift.py`: identity, the scope of a source's
coverage, rules for known undeclared things, field differences, the comparison
of secret stores under replication contracts.

**`Collector`** composes the two into a `collect` run: `Open`, and for each
source `Skip`, or `Handshake`, `Ask` for each method, and `Record`; then
`Finish`. `Kill` ends it anywhere. Beside it the estate changes (`Come`, `Go`),
a credential comes to reach other places (`Regrant`), `plugins.yaml` and the catalog
are edited, the module is switched. `Place` says in which zone, node or path of a
secret store a thing is, and `Reaches` into which of them a source may look. What a
source claims to cover is another matter, and modelled as it is: dns-cloudflare
claims the zones it went through, if there were any; secrets-infisical claims its
store on every reply, and reads one path of one environment (`Coverage`). Where `Evidence` has overlapping runs, the
ledger and transactions, and treats a reply as a set of values, `Collector` has
one run at a time and the contents of a reply.

**`Listing`** looks inside one call of a paging collector: `Start` mints or
reuses an installation token, `Fetch` asks for the next page of the list that is
due, `Publish` transforms what was read. Which list is due follows from what was
read (`StagesOf`): runners, groups, the members of each group, the workflows of
each repository, the runs and their jobs, zones and their records. `Appear` and
`Vanish` change the upstream between two pages, `Trip` is a failing request,
`Tick` the clock.

**`Remote`** is a consumer, a network and a server. The consumer is the stdio
MCP server or the bridge, in one of its configurations: `Boot` (the bridge asks
for the list of tools), `Begin`, `Local` or `Send`, `Take` or `GiveUp`. A server
thread goes through `Authorize`, then `Session` (MCP endpoint) or `Open` (HTTP
adapter), `Query` or `Write` and `Respond`. Messages are lost and overtaken,
the server stops and starts with other options, tokens expire, the module is
switched, others commit (`Rival`). A question takes one of three ways: as JSON, as
the path of a GET, where an id is percent-encoded and only `/lookup` decodes it, or
as its query, which `/drift` ignores (`Received`, `Spelling`, `Decoding`). It complements the other modules: the
sessions' expiry and the limiter are in `McpServer`, the commit in
`CatalogStore`; here the catalog is the list of what was committed.

The `MC` modules give the constants their values.

## 3. The runs

`tlc -config <name>.cfg <module>`; all are exhaustive over their bounds.

| Run (module) | Question | Result |
|---|---|---|
| `CatalogStoreShipped` (`MCCatalogStore`) | two clients as shipped, every operation, three revisions | holds: types; audit rows number the revisions; no annotation without entity; marker set and kept; what is stored passes the check; every change is audited; if nobody overtook it, a reload keeps the annotations, an edit leaves what a source owns, and a process without the module leaves its rows |
| `CatalogStoreChecked` (`MCCatalogStore`) | two clients that pass the revision they read | holds: implements `SerialCatalog`; no lost update; every call ends |
| `LostUpdate` (`MCCatalogStore`) | the same without it | **violated**: a commit undoes another client's edit |
| `EvidenceForbid` (`MCEvidence`) | two sources in turn, one run at a time | holds: records survive; dead sources keep evidence; every record rests on evidence; history has what is current |
| `McpServer` (`MCMcpServer`) | two threads, one session, all kinds of request and caller | holds: accepted sessions have an age; limiter; every write has its audit row |
| `ExpiredSession` (`MCMcpServer`) | two requests of an expired session | **violated**: one is served |
| `Backup` (`MCBackup`) | two backup directories, two transactions, connections that come and go | holds: manifest revision not behind its copy; only whole backups; a database nobody had in use is restored whole |
| `Estate` (`MCEstate`) | two agents place, check, deploy and declare while everything changes | holds: services that clash were invisible to each other's check; an offered host passes; a declared listener that fails the file was a named conflict; what the gate accepts no pipeline file fails on |
| `Collector` (`MCCollector`) | runs over a hypervisor, a DNS account and two secret stores, with credentials that reach all, part or none of it and plugins that fail in every way | holds: what is `missing`, or `only in` another store, was not in what the source could see, and is in a zone or store it speaks for; fresh means whole; after a run every enabled source is stale or of that run |
| `Listing` (`MCListing`) | one call of each paging method while the lists change | holds: a published inventory is whole; a section that says complete is; the token outlives the call |
| `DnsPaging` (`MCListing`) | a zone with a record of a type that is not modelled | **violated**: the later pages are never read |
| `Remote` (`MCRemote`) | one consumer in seven configurations, two calls, one mishap | holds: what it is told is true (a write at most once, in its own name; an answer to its question, from the catalog of that time); every call ends |

The findings in `PROJECT.json` quote the sentence each violation is about. Those
that name no run are reproduced with a configuration kept for the purpose:

| Configuration (module) | Property violated |
|---|---|
| `OptedPolicy` (`MCCatalogStore`) | `StoredPassesCheck`: an opt-in to public pools is not stored, and the store no longer passes its own check |
| `WorkGraph` (`MCCatalogStore`) | `WorkGraphResolves`: the gate deletes a work item others are blocked by |
| `LostAnnotation` (`MCCatalogStore`) | `AnnotationsSurviveLoad`: a reload deletes an annotation that was committed after it read |
| `DroppedRows` (`MCCatalogStore`) | `DormantRowsKept`: a load by a process without the module deletes a work item that was added after it read |
| `EvidencePartial` (`MCEvidence`) | `EvidenceKept`: the failed method's evidence is lost |
| `EvidenceAccepted` (`MCEvidence`) | `AgreedMeansMatch`: an accepted contest is shown as agreed while the sources differ |
| `BackupMoments` (`MCBackup`) | `TransactionConsistent`: evidence of an import without its catalog |
| `LostZones` (`MCCollector`) | `MissingIsAbsence`: a token narrowed to no zone during the run has every domain reported missing |
| `OtherPaths` (`MCCollector`) | `MissingIsAbsence`: the secrets of a store that are not in the path a source reads are reported missing |
| `FailingPlugins` (`MCCollector`) | `FailingPluginsDegrade`: a reply nobody declared ends the whole run |
| `RemoteDrift` (`MCRemote`) | `AnswersTrue`: the stdio server drops the filters of `drift` |
| `RemoteRepo` (`MCRemote`) | `AnswersTrue`: `manifest_repo` of an id with a colon is answered for its encoded spelling |

### Bounds

* `MaxRevision` (3, and 2 where refinement and liveness are checked): two
  transactions after the first fill the store is what it takes for a client to
  read, be overtaken and write back; nothing in the code depends on the
  number of a revision beyond equality. Two clients are enough for the same
  reason: a client is disturbed by what was committed since it read, not by whom.
  The theorems of section 4 hold for any number.
* The instance of `CatalogStoreShipped` has a host, a service on it and an endpoint
  of that, which a collector owns unless the host is a provider's, a runner placed
  on the host (a reference), and a work item of the optional module: one identity
  for each way the gate distinguishes them. The other runs have no service and no
  endpoint.
* `MaxClock`, `MaxChanges`, `MaxDecisions` of `Evidence` allow a collection,
  one change of the estate or the catalog, another collection, and one decision:
  the steps between a contest, its resolution and its return. The changes are of
  any entity to any value.
* `McpServer`: `Ttl` 1 within a clock of 3 lets a session be used, expire and be
  raced for; `Window` 3, `Limit` 2 with 4 requests lets the limiter refuse and
  forget. `Stall` 1 is how far behind the clock a thread may be when it gets the
  limiter's lock: it is an assumption about scheduling, and the limit is claimed
  for intervals shorter by that much. `Restart` is bounded to servers with a
  session.
* `Backup`: two transactions, two directories: a backup before and one after a
  restore, and an import or a commit on each side of either.
* `Estate`: two agents whose files can clash in sockets (with and without a
  bind address) and in hostnames, two hosts of different networks, `MaxDeploys` 2
  (a clash needs two), `MaxEdits` 1: an edit between the steps of two agents, and
  with it every pair of an answer and a changed catalog. What a collector tells
  of an endpoint beside its port (`Tells`) decides whether a rule can attribute it.
* `Collector`: `MaxClock` 1 makes an answer old while its source is still
  configured, `MaxChanges` 1 is one change of the world, the credentials, the
  configuration or the catalog at any point of a run, and runs follow each other
  without bound. `Reaches` lets a credential see no zone or one or both, the
  hypervisor or nothing, and either of the two paths of a store.
* `Listing`: pages of two rows and lists of up to three, so that a list ends on
  a full page, on a part of one and on an empty one; `MaxPages` 2, and the bounds
  of sections at 2 or 3, so that each is reached; one row appears or vanishes.
  `Margin` 2, `Lifetime` 4, `Timeout` 2 keep the order of 300 s, 3600 s and the
  120 s of a call: the margin is not shorter than the timeout.
* `Remote`: one consumer; what other consumers do to it they do through the
  catalog, and that is `Rival`. Two calls, so that a late request of the first
  can meet the second; one mishap, at any point.

`CHECK_DEADLOCK FALSE` appears where the bounds exhaust the clock, the requests,
the calls or the transactions, and the system is then at rest. In the
configurations that name a `SYMMETRY` no liveness is checked.

### Fairness

`CallsEnd` of `CatalogStore` is checked under weak fairness of each client's own
steps. The operating system schedules a process that can run, and `busy_timeout`
(5 s, `storage.py:134`) ends the wait for the lock: nothing is assumed of
`Start`, `Crash` or `ToggleModule`. `CallsEnd` of `Remote` is checked under weak
fairness of each consumer's own steps once it is in a call: `urlopen` has a
timeout, so `GiveUp` is a step of its own. Nothing is assumed of the network, of
the server, or of `Begin`. No other property needs fairness.

## 4. The proofs

Eight modules hold theorems, each for every value of the constants that meets the
named assumptions of the modules, which TLC evaluates in each run. Every
invariant and every action property that a passing run checks is one of them,
under the hypotheses named here. Where a hypothesis is a definition of the
component's module, the `MC` module asserts it (`HypothesesAssumption`) or a
configuration that violates it shows that it is needed.

**`CatalogStoreProofs`** (about `CatalogStore`)

| Theorem | Says |
|---|---|
| `TypeCorrect` | `Spec => []TypeOK` |
| `AuditIsNumbered` | audit row *i* carries revision *i*, and the store is at the last one |
| `AnnotationsHaveEntities` | no annotation row without its entity row |
| `MarkerIsSet`, `MarkerStays` | a store with module rows carries the marker, for ever |
| `EveryChangeIsAudited` | a step that changes a table adds exactly its one audit row |
| `GateHolds` | if no file opts in through the execution policy, what is stored passes the check |

`TypeOK` is inductive only with `Engaged`: a client past its start has a call
and is at a step that belongs to it. `TablesOK` (audit, annotations, marker) is
inductive because `OnlyCommitsWrite` shows that no step but the two commits
touches a table, and `CommitRecords` what a commit adds. `GateHolds` needs what
each client has in hand, not only what is stored: from the decision to the
commit its proposal passes the check under the stored policy (`Proposed`), and
the overlay does not change what the check looks at (`CheckIgnoresOverlay`).
`NoFileOptsIn` is the hypothesis the configuration `OptedPolicy` shows to be
necessary.

The refinement of `SerialCatalog` and what rests on the same invariant are in the
same module. `EveryoneChecks`: each client passes the revision it read.
`LostUpdate` shows that without it they are false.

| Theorem | Says | Hypothesis |
|---|---|---|
| `CommitsAreSerial` | `CatalogStore` implements `SerialCatalog`: every commit is one call applied to the catalog it replaces | `EveryoneChecks` |
| `UpdatesSurvive` | an edit changes nothing but the entity its audit row names | `EveryoneChecks` |
| `ReloadKeepsAnnotations` | a reload that nobody overtook keeps every annotation the database has at its commit | |
| `SourcesKeepTheirs` | an edit that nobody overtook leaves alone what a source owns, by the role the host has before it and after it | |
| `DormantRowsStay` | a process without the module that nobody overtook changes no row of it | |

The last three hold of the program as it is shipped, where no caller passes a
revision. What becomes of a call that was overtaken is not theirs to say:
`LostAnnotation` and `DroppedRows` show that a load then does what the
documentation rules out, and `LostUpdate` that an edit undoes another.

The refinement mapping is the identity on the tables. The inductive invariant,
`RefineInv`, says what a client's copy is worth: its expected revision is not
above the store's, and if the two are equal, its copy agrees with the tables as
far as it has read, and after its decision its proposal is what the call makes
of them (`Current`). A commit raises the revision, so it makes every other copy
stale without having to look at it (`FitCommit`), and a client whose copy is
stale cannot commit if it passes its revision, and is not `Undisturbed` if it does
not. The decision step is where the serial outcome is computed
(`FitDecide`), and the commit step where it takes effect. The
last three need also that whoever is about to commit holds the lock (`Locked`):
the one who commits is then the one whose copy is current.

**`EvidenceProofs`** (about `Evidence`)

| Theorem | Says |
|---|---|
| `TypeCorrect` | types, and a run under way is at a source of its order |
| `HistoryIsComplete` | what a source currently says has its row in the history |
| `AgesSurvive` | no collection, crash or decision drops a record or moves its first time |
| `EvidenceForEveryChange` | a record is made or changed only to what stored evidence says |
| `DeadSourcesKeepEvidence` | a source none of whose methods answer keeps its evidence |

The first two hold with overlapping runs, the other three for one run at a time
(`Overlap = FALSE`): two runs would write back what they read. `Steady` is
inductive: at most one run is under way (`Alone`), and what it holds is what the
tables hold: the ledger it loaded, the evidence it copied and, after `Record`,
the evidence it has just stored.

**`CollectorProofs`** (about `Collector` and the operators of `Drift` and
`Plugins`)

| Theorem | Says | Hypotheses |
|---|---|---|
| `TypeCorrect` | what is stored are rows of evidence, a run under way is at a source or a call of it | |
| `SilenceVisible` | after a run every source that was enabled is stale or has an answer of that run | |
| `FreshWhole` | what is fresh has the answers of all methods of its source | |
| `MissingUnseen` | what drift calls missing was not among what the source could see when it was asked, and is in a zone, or the store, it speaks for | `WellReported` |
| `OnlyInUnseen` | of a reference `only in` one secret store, some other store showed its sources nothing under the name it should have there | `ContractsAgree`, `WellReported` |

`SilenceInv`: an enabled source is still before the run (`Waiting`) or has a row
of it. `WholeInv`: what has been gathered is of exactly the methods that
answered, and a method that is passed over is noted as failed, which is what keeps
a row from being fresh. `AbsenceInv` says of a row, and of what a call has so far,
that each thing that was in view when it was asked is among its entities, and that
the zones or the store its collector claimed are the coverage stored with it unless
`plugins.yaml` has its own (`Accounted`); what is missing was then not in view,
because `drift.compare` reports what is covered and not among the entities.
`TruthInv` says the same of references and stores (`Told`). Neither theorem assumes
anything of credentials or of coverage, and neither says that what is missing is
absent: `OtherPaths` and `LostZones` are the configurations where a source claims
more than it looked at. The hypotheses are about what is declared and reported:
`ContractsAgree` rules out two replication contracts that map a reference twice;
`WellReported` says that a catalog names an entity once, that `dns.records` reports
records and `secret.list` secrets, and that a secret's id is its own. `MCCollector`
asserts both.

**`EstateProofs`** (about `Estate` and the operators of `Rules`, `Artifacts` and
`Placement`)

| Theorem | Says | Hypothesis |
|---|---|---|
| `TypeCorrect` | agents, catalog and what is up have their shape and stand on hosts of the catalog | |
| `GateCovers` | no sequence of edits leads to a catalog on which a pipeline fails for a pool, an executor or a topology | |
| `OfferedPass` | a host `context-for` offers passes the rules of `check` about hosts and networks while the catalog stays | `FileFollowsIntent` |
| `Forewarns` | a declared listener `check` refuses a file for was named among the conflicts of the answer | `PortsSpelt` |
| `NoClash` | two services that are up and share a socket or a hostname were each invisible to the other's check | `ToldApart` |

`GateInv` is inductive because every write is a catalog the gate found no error
in (`Writes`, `OnlyWritesWrite`); the theorem is that the rules a pipeline file
meets find nothing the gate's do not. `OfferInv` keeps what the answer said until
the agent has its file checked; that placement and the rules agree is then a fact
about two sets of operators (`SameTest`, `Forewarning`), proved for every catalog.
`NoClash` rests on `RunningInv`, `ClearedInv` (what was cleared, or is up, avoids
everything its check was shown), `EvidenceInv` and `OneEach`. The hypotheses are
about what agents ask: `FileFollowsIntent`, a file exposes what its intent was read
as; `PortsSpelt`, an intent spells the ports of its file that others use;
`ToldApart`, no endpoint of a service has the id of another's, or an id that reads as
another service's or as another endpoint's (`ReadsAs`). The last is a limit
of the code: an endpoint that a collector reports without its service goes by its
own id, and `port_collision` passes over a claimant that ends in `:` and the
service's id (`rules.py:512`) as the service's own, so a foreign endpoint whose id
is that of a service hides its listener from that service. `MCEstate` asserts the three.

**`BackupProofs`** (about `Backup`): `TypeCorrect`, `RevisionsFollowCopies`,
`ManifestsMeanWhole`, `RestoresAreWhole`. The inductive invariant `Sound` adds to
the types what each step of the operator has established: how many copies are
made (`Progress`), and that the digests of a manifest were those of two whole
copies (`Attested`), and that a database that was put in place is its copy and what
was acknowledged since (`Placed`). A database only grows while a backup runs, so a
revision that is read after the copy is not behind it. Nothing is claimed of a
database that was in use when it was renamed over (`Unknown`), nor of a copy of one:
what its connections commit may be lost.

**`McpServerProofs`** (about `McpServer`): `TypeCorrect`, `SessionsHaveAge`,
`EveryWriteIsAudited`, `LimiterHolds`. `Orderly`: every session a thread works on
was minted, and a thread that is about to take a session out of the table of
ages does so after the session left the set: what is in the set has an age,
whoever else is at work on it. `Audited` counts: the writes of a principal and its
threads between audit and write (`Pending`) are no more than its audit rows; it
needs `IsFiniteSet(Threads)`. `Limited`: whoever is in the limiter's table
accounts for the last window (`InWindow`), up to the delay `Stall`, which must
be shorter than the window.

**`RemoteProofs`** (about `Remote`): `ToldTrue`, which is `AnswersTrue` for any
number of consumers, calls and mishaps. Its hypothesis is `QuestionsArrive`: the
stdio server is asked only what its requests can say, that is no `drift` with a
filter, no empty filter, and no `manifest_repo` or `manifest_why` of an id a path
spells otherwise; `RemoteDrift` and `RemoteRepo` show it to be necessary. The invariant is `Truthful`. Of the requests that can
write a call has one, on its way or at a thread (`OneWrite`), and the log has one
row at most for a call (`LogFits`). Until its consumer sends that request nothing
says anything of the call (`CallFits`); from then on the thread knows whether the
row is there (`ThreadFits`), and so does the reply (`ReplyFits`); when the consumer
has heard the outcome, no request of the call is left that could change it
(`ToldFits`). A request that was overtaken by a timeout may still write: the
consumer was told nothing of it. `QuestionsArrive` and `RemoteAssumption` (the
configurations and questions have the shape the code gives them) are all it takes.

**`ListingProofs`** (about `Listing`)

| Theorem | Says | Hypothesis |
|---|---|---|
| `TokensLast` | no page is refused because the token expired | `Patient` |
| `PublishedWhole` | an inventory that is published has everything that was upstream all through the call, unless a row was taken away meanwhile | |
| `SectionsAreTold` | a section of `ci.pipelines` that says it is complete is | |

`Patient`: the timeout of a source is at most the margin below which a cached
token is not handed out again, and less than the lifetime of a new one. The margin
is 300 seconds in the code, the lifetime an hour; the timeout is 30 seconds unless
the configuration says otherwise, which no code bounds. The invariant, `Lasting`: a
call under way is ended by its timeout (`until`) before its token ends.

The other two hold for any upstream (`UpstreamAssumption` says its rows are rows
and its group numbers numbers), any page size, any ceilings and any changes. For
an inventory `ReadInv` says that what was read of a list up to page *n* has every
row of the list's first *n - 1* pages (`Reaches`), which rows that come last do not
disturb, and that a list read to its end has what was there all through the call
(`Wholly`). `NextPage` is the step: a page that is not full is the last one, a full
one leaves the next due, and at its ceiling an inventory fails instead of ending.
A row taken away moves the rows behind it to an earlier page: hence the condition.
For a section `PipeInv` says that a list fetched in one page that was as long as
the list has what was there (`OnePage`), and that the runs of a repository were
read after those of the repositories before it and within what those left of the
budget (`BudgetInv`): what is left when a repository's turn comes is what the
finished history computes (`SameBudget`), so a history that says it is complete cut
none of the runs short.

What `FlattenSeq` and the job history compute is a fact about every length of a
sequence. The provers cannot apply the library's induction theorems, whose
parameter is an operator; `SetInduction` takes the induction hypothesis as a set
instead, and rests on the well-foundedness of finite sets under inclusion.

Only model-checked: liveness (both `CallsEnd`), which is beyond the temporal
prover here, and what is violated (`LostUpdate`, `IdleExpires` and `RecordsWhole`
in the runs, the rest in the configurations kept for a finding).

## 5. Not modelled

* Query commands (`lookup`, `question`, `brief`, `dns-chain`, ...), rendering,
  the web interface, the CLI's argument parsing, the version document: each is a
  view of one session without state of its own; their content is layout. What
  they read from is modelled; `context-for`, which decides something, is in
  `Placement`. As requests to a server they are `Query` in `Remote`.
* Manifest ranking and projection, the order in which placement scores its
  candidates: pure orders over one catalog that no property of the system
  depends on.
* Parsing, YAML and field schemas: they decide which values there are, not what
  happens to them. The loader's acceptance is a constant relation.
* SQLite below its transactions (write-ahead log files, page cache): assumed
  serialisable. What becomes of a database whose files are replaced while it is
  open is not worked out: `Backup` takes its content to be unknown.
* File-based legacy catalogs and the migration registry: used once, at the start
  of a store, by one process.
* TLS, proxy headers, the token file format.
* The collectors that are one request and a field mapping of a foreign format.
  `Collector` has four of them: what they can see, and what two of them claim to
  have seen (zones of dns-cloudflare, the store of secrets-infisical; the others
  claim nothing). The three that page are in `Listing`.

Where `PROJECT.json` lists a hazard without a property, it says why.

## 6. What is left

* `export_bundle` and `import_bundle` as a round trip, and initialisation beside
  a writer.
* Overlapping collect runs in `Collector`, whose hazards `Evidence` has for the
  ledger and the history.
* The proofs of `Evidence` about the tables of a run assume one run at a time
  (`Overlap = FALSE`); what two runs at once leave of the ledger is a hazard in
  `PROJECT.json` without a property.
