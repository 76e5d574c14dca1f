--------------------------- MODULE MCCatalogStore ---------------------------
(* Small instances of CatalogStore: a host a collector owns, with or without *)
(* a service and its endpoint, a CI runner placed on it, and a Manifest work *)
(* item.                                                                    *)
EXTENDS CatalogStore, TLC

CONSTANTS host, runner, item, item2, service, door,
          plain, placed, vendor, public, blocked,
          note, t0, t1, mark

MCIds      == {host, runner, item}
ShippedIds == MCIds \union {service, door}
MCManifest == {item}
MCBodies   == {plain, placed, vendor, public}
\* The runner placed on the host needs it (execution-placement); the work
\* item blocked by nothing; a public pool with a persistent runner needs the
\* policy to opt in (execution-public-access).
MCCheckRefs == {<<runner, placed, host>>}
MCRunsOn    == {<<service, placed, host>>, <<door, placed, service>>}
MCLoadRefs  == MCCheckRefs \union RunsOn
MCOptIn     == {<<runner, public>>}
MCOwned     == {host, service, door} \intersect Ids
MCProviders == {<<host, vendor>>}

Row(b)  == [body |-> b, note |-> NoNote]
Rowless == [k \in Ids |-> Absent]
Noteless == [k \in Ids |-> NoNote]
FileOf(ent, tier, allow, m) ==
  [ent |-> ent, ann |-> Noteless, pol |-> [tier |-> tier, allow |-> allow],
   marks |-> [c \in Collections |-> m]]

\* A service on the host and its endpoint, in the instance that has them.
Served  == [k \in Ids |-> IF k \in {service, door} THEN Row(placed) ELSE Absent]
\* The estate: a host with the runner on it.
Estate  == [Served EXCEPT ![host] = Row(plain), ![runner] = Row(placed)]
\* The same after the host was retired and the runner moved off it.
Retired == [Rowless EXCEPT ![runner] = Row(plain)]
\* A vendor's host, annotated, and a work item, as another instance exported
\* them.
Extra   == [Served EXCEPT ![host] = Row(vendor), ![item] = Row(plain)]
\* A tree that opts in to public pools.
Opted   == [Rowless EXCEPT ![runner] = Row(public)]

SeedFile  == FileOf(Estate, t0, FALSE, {})
MovedFile == FileOf(Retired, t1, FALSE, {})
ExtraFile == [FileOf(Extra, t0, FALSE, {mark}) EXCEPT !.ann[host] = note]
OptedFile == FileOf(Opted, t0, TRUE, {})
MCFiles   == {SeedFile, MovedFile, ExtraFile, OptedFile}

(* The calls of each instance. *)
AddOf(k, b)      == [op |-> "add", key |-> k, body |-> b, note |-> NoNote]
UpdateOf(k, b)   == [op |-> "update", key |-> k, body |-> b]
RenoteOf(k)      == [op |-> "renote", key |-> k, note |-> note]
AnnotateOf(k)    == [op |-> "annotate", key |-> k, note |-> note]
DeleteOf(k)      == [op |-> "delete", key |-> k]
MarkIn(c)        == [op |-> c, mark |-> mark]
FromFile(o, f)   == [op |-> o, file |-> f]

\* Every operation of every kind of client, one or two targets each.  The host
\* is a provider's in one file and ours in another, and so is what is on it.
ShippedCalls ==
  {AddOf(item, plain), UpdateOf(runner, placed), RenoteOf(host),
   AnnotateOf(host), AnnotateOf(runner), DeleteOf(runner), DeleteOf(item),
   UpdateOf(host, plain), UpdateOf(service, plain), DeleteOf(door), AddOf(door, placed),
   MarkIn("resolutions"), FromFile("replace", SeedFile),
   FromFile("load", MovedFile), FromFile("merge", ExtraFile)}

\* The calls that source authority is about, and those that move entities
\* under a client that has read them.
CheckedCalls ==
  {AddOf(host, vendor), UpdateOf(host, vendor), UpdateOf(host, plain),
   AnnotateOf(host), DeleteOf(host), DeleteOf(item), MarkIn("acknowledgements"),
   FromFile("replace", SeedFile),
   FromFile("load", SeedFile), FromFile("replace", ExtraFile)}

\* Two work items, one blocked by the other.
WorkIds    == {item, item2}
WorkBodies == {plain, blocked}
WorkRefs   == {<<item2, blocked, item>>}
WorkCalls  == {AddOf(item, plain), AddOf(item2, blocked), DeleteOf(item)}

\* A reload of the tree beside an annotation, or beside a work item's birth.
ReloadCalls  == {FromFile("load", SeedFile), AnnotateOf(host)}
DormantCalls == {FromFile("load", SeedFile), AddOf(item, plain)}

\* An opted-in tree and an ordinary edit.
OptedCalls == {FromFile("load", OptedFile), AddOf(item, plain)}

Symmetry == Permutations(Clients)
=============================================================================
