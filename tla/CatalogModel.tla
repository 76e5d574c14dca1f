---------------------------- MODULE CatalogModel ----------------------------
(***************************************************************************)
(* The catalog as a value: entities, the annotations overlaid on them, the *)
(* policy, the checks the write gate and the tree loader run, and what     *)
(* each operation makes of a catalog it has read.  Nothing here has state; *)
(* CatalogStore and SerialCatalog give these operators processes, a        *)
(* database and an order.                                                  *)
(*                                                                         *)
(* Source: core/catalog.py, core/storage.py, core/writes.py,               *)
(* core/loader.py, core/rules.py, modules/registry.py.                     *)
(***************************************************************************)
EXTENDS Integers, Sequences, FiniteSets

CONSTANTS
  Ids,          \* (kind, id) identities the model tells apart
  ManifestIds,  \* those whose kind belongs to the optional Manifest module
  Bodies,       \* what an entity says, its annotatable fields aside
  Notes,        \* values of the annotatable fields (tags, notes)
  NoNote,       \* the annotatable fields are unset / there is no annotation
  Absent,       \* no row with this identity
  Tiers,        \* the part of the policy a database row stores
  NoTier,       \* that part of model.Policy()
  CheckRefs,    \* <<k, b, t>>: k saying b names t, and check_catalog looks
  LoadRefs,     \* <<k, b, t>>: the same, looked at by the tree loader only
  OptIn,        \* <<k, b>>: check_catalog refuses it unless policy opts in
  Owned,        \* identities of a kind some plugin declares source authority for
  Providers,    \* <<k, b>>: k saying b is a host with role `external`
  RunsOn,       \* <<k, b, t>>: service k on host t, endpoint k of service t
  Marks,        \* entries of the resolution and acknowledgement lists
  Files,        \* trees and bundles on disk
  Calls         \* the calls clients may make

ASSUME IdsAssumption ==
  /\ ManifestIds \subseteq Ids
  /\ Owned \subseteq Ids
  /\ NoNote \notin Notes
  /\ NoTier \in Tiers
  /\ Absent \notin [body : Bodies, note : Notes \union {NoNote}]

ASSUME RefsAssumption ==
  /\ CheckRefs \subseteq Ids \X Bodies \X Ids
  /\ LoadRefs \subseteq Ids \X Bodies \X Ids
  /\ OptIn \subseteq Ids \X Bodies
  /\ Providers \subseteq Ids \X Bodies

\* An endpoint belongs to a service and a service runs on a host: nothing
\* stands on itself.
ASSUME RunsOnAssumption ==
  /\ RunsOn \subseteq Ids \X Bodies \X Ids
  /\ \A r, s \in RunsOn : r[1] # r[3] /\ (r[3] = s[1] => s[3] # r[1])

Note        == Notes \union {NoNote}
Entity      == [body : Bodies, note : Note]
EntityTable == [Ids -> Entity \union {Absent}]
NoteTable   == [Ids -> Note]
\* `allow` stands for the whole ExecutionPolicy, the part no row stores.
Policy      == [tier : Tiers, allow : BOOLEAN]
Catalog     == [ent : EntityTable, ann : NoteTable, pol : Policy]

Collections == {"resolutions", "acknowledgements"}
MarkTable   == [Collections -> SUBSET Marks]
File        == [ent : EntityTable, ann : NoteTable, pol : Policy, marks : MarkTable]

\* `renote` is the `update` of an annotatable field (tags, notes); the two
\* collections stand for the writes of a trust resolution or acknowledgement.
EditOps == {"add", "update", "renote", "delete", "annotate"}
FileOps == {"load", "merge", "replace"}
Request ==
       [op : {"add"}, key : Ids, body : Bodies, note : Note]
  \cup [op : {"update"}, key : Ids, body : Bodies]
  \cup [op : {"renote", "annotate"}, key : Ids, note : Notes]
  \cup [op : {"delete"}, key : Ids]
  \cup [op : Collections, mark : Marks]
  \cup [op : FileOps, file : Files]
AuditRow == [revision : Nat, op : EditOps \union FileOps \union Collections,
             changed : SUBSET Ids]

ASSUME RequestAssumption == Files \subseteq File /\ Calls \subseteq Request

\* The tables of a new database, and model.Policy().
Empty == [ent |-> [k \in Ids |-> Absent], ann |-> [k \in Ids |-> NoNote],
          pol |-> [tier |-> NoTier, allow |-> FALSE]]

Rows(ent)      == {k \in Ids : ent[k] # Absent}
Annotated(ann) == {k \in Ids : ann[k] # NoNote}

\* active_registry: the kinds a process knows, module on or off.
Kinds(reg) == IF reg THEN Ids ELSE Ids \ ManifestIds

\* _catalog_from_connection lays every annotation over its entity.
Overlay(ent, ann) ==
  [k \in Ids |-> IF k \in Rows(ent) \intersect Annotated(ann)
                   THEN [ent[k] EXCEPT !.note = ann[k]]
                   ELSE ent[k]]

\* _policy_to_dict then _policy_from_dict: the execution policy has no key in
\* either, so what comes back is its default.
StoredPolicy(pol) == [pol EXCEPT !.allow = FALSE]

Says(ent, k, b)       == k \in Rows(ent) /\ ent[k].body = b
Resolved(ent, refs)   == \A r \in refs : Says(ent, r[1], r[2]) => r[3] \in Rows(ent)

\* check_catalog, the rules that report at level "error".
CheckPasses(cat) ==
  /\ Resolved(cat.ent, CheckRefs)
  /\ \A o \in OptIn : Says(cat.ent, o[1], o[2]) => cat.pol.allow

-----------------------------------------------------------------------------
(* The gated operations of writes.write.                                   *)

\* _on_external_host: k saying b is a third-party provider's, by the role of
\* its host as the catalog has it.  A host is asked itself, a service's host
\* is looked up, an endpoint's service is looked up and then its host.
IsProvider(ent, h) == h \in Rows(ent) /\ <<h, ent[h].body>> \in Providers
OnExternalHost(ent, k, b) ==
  \/ <<k, b>> \in Providers
  \/ \E t \in Rows(ent) :
       /\ <<k, b, t>> \in RunsOn
       /\ IsProvider(ent, t) \/ \E h \in Ids : /\ <<t, ent[t].body, h>> \in RunsOn
                                             /\ IsProvider(ent, h)

\* Source authority: the catalog may say b of k.
Authored(cat, k, b) == k \in Owned => OnExternalHost(cat.ent, k, b)

\* Mutant: only what the record was is looked at.
MayMoveIn(cat, k, b) == k \in Rows(cat.ent) /\ Authored(cat, k, cat.ent[k].body)
MayAdd(cat, k, b)    == k \notin Rows(cat.ent) /\ Authored(cat, k, b)
MayDelete(cat, k)    == k \in Rows(cat.ent) /\ Authored(cat, k, cat.ent[k].body)
\* _external_before_and_after: the new record too, against the old catalog.
MayUpdate(cat, k, b) ==
  /\ k \in Rows(cat.ent)
  /\ Authored(cat, k, cat.ent[k].body) /\ Authored(cat, k, b)
MayRenote(cat, k)    == k \in Rows(cat.ent)

AddTo(cat, k, b, n)    == [cat EXCEPT !.ent[k] = [body |-> b, note |-> n]]
DeleteFrom(cat, k)     == [cat EXCEPT !.ent[k] = Absent, !.ann[k] = NoNote]
UpdateIn(cat, k, b)    == [cat EXCEPT !.ent[k].body = b]
\* `update` of tags or notes writes the entity row; the annotation stays.
RenoteIn(cat, k, n)    == [cat EXCEPT !.ent[k].note = n]
AnnotateIn(cat, k, n)  == [cat EXCEPT !.ent[k].note = n, !.ann[k] = n]

-----------------------------------------------------------------------------
(* Whole catalogs read from files: a declared/ tree, an exported bundle.   *)

\* load_catalog: kinds of a disabled module are not read; references and
\* annotation targets must resolve; annotations are overlaid.
Restricted(ent, reg) == [k \in Ids |-> IF k \in Kinds(reg) THEN ent[k] ELSE Absent]
LoaderAccepts(file, reg) ==
  /\ Annotated(file.ann) \subseteq Rows(Restricted(file.ent, reg))
  /\ Resolved(Restricted(file.ent, reg), LoadRefs)
Loaded(file, reg) ==
  [ent |-> Overlay(Restricted(file.ent, reg), file.ann),
   ann |-> file.ann, pol |-> file.pol]

\* Mutant: the tree's own annotations only.
TreeOnly(cat, tree) == tree
\* load_declared: annotations the tree does not define are carried across.
Reloaded(cat, tree) ==
  [tree EXCEPT !.ann = [k \in Ids |-> IF k \in Annotated(tree.ann)
                                        THEN tree.ann[k] ELSE cat.ann[k]]]
Differing(cat, other) == {k \in Ids : cat.ent[k] # other.ent[k]}

\* import_bundle: what it validates before it opens the database.
Bundle(file) == [ent |-> file.ent, ann |-> file.ann, pol |-> StoredPolicy(file.pol)]
BundleAccepts(file, reg) ==
  /\ Rows(file.ent) \subseteq Kinds(reg)
  /\ Annotated(file.ann) \subseteq Rows(file.ent)
  /\ CheckPasses(Bundle(file))
\* mode "merge": entities are merged, policy and annotations are the bundle's.
Merged(cat, bundle) ==
  [bundle EXCEPT !.ent = [k \in Ids |-> IF k \in Rows(bundle.ent)
                                          THEN bundle.ent[k] ELSE cat.ent[k]]]

\* load_modules and active_registry, then what a call validates on its own:
\* the target's kind is known, the tree or bundle is well formed.
Valid(call, reg) ==
  /\ call.op \in EditOps => call.key \in Kinds(reg)
  /\ call.op = "load" => LoaderAccepts(call.file, reg)
  /\ call.op \in {"merge", "replace"} => BundleAccepts(call.file, reg)

\* Mutant: PRAGMA foreign_keys is off.
KeysOff(cat) == TRUE
\* FOREIGN KEY (kind, id) REFERENCES entities, checked at each INSERT.
KeysHold(cat) == Annotated(cat.ann) \subseteq Rows(cat.ent)
=============================================================================
