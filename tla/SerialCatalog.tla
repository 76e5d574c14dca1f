---------------------------- MODULE SerialCatalog ----------------------------
(***************************************************************************)
(* What DESIGN.md 2.3 promises of catalog.sqlite3: every write is one      *)
(* transaction that validates, checks, changes and audits.  A call here    *)
(* reads the catalog, decides and replaces it in one step, so calls have   *)
(* an order and each one sees all the calls before it.  CatalogStore       *)
(* implements this when its clients pass the revision they read.           *)
(***************************************************************************)
EXTENDS CatalogModel

VARIABLES entities, annotations, policy, required, revision, audit

vars == <<entities, annotations, policy, required, revision, audit>>

Init ==
  /\ entities = Empty.ent /\ annotations = Empty.ann /\ policy = Empty.pol
  /\ required = FALSE /\ revision = 0 /\ audit = <<>>

\* The catalog every call starts from.
Stored == [ent |-> Overlay(entities, annotations), ann |-> annotations,
           pol |-> policy]

NextRevision == revision + 1
Log(op, changed) ==
  audit' = Append(audit, [revision |-> NextRevision, op |-> op,
                          changed |-> changed])

Install(op, cat, changed) ==
  /\ CheckPasses(cat) /\ KeysHold(cat)
  /\ entities' = cat.ent /\ annotations' = cat.ann
  /\ policy' = StoredPolicy(cat.pol)
  /\ required' = (required \/ Rows(cat.ent) \intersect ManifestIds # {})
  /\ Log(op, changed)

\* An edit of one entity, through the gate.
Edit(c) ==
  \/ /\ c.op = "add" /\ MayAdd(Stored, c.key, c.body)
     /\ Install(c.op, AddTo(Stored, c.key, c.body, c.note), {c.key})
  \/ /\ c.op = "update" /\ MayUpdate(Stored, c.key, c.body)
     /\ Install(c.op, UpdateIn(Stored, c.key, c.body), {c.key})
  \/ /\ c.op = "renote" /\ MayRenote(Stored, c.key)
     /\ Install(c.op, RenoteIn(Stored, c.key, c.note), {c.key})
  \/ /\ c.op = "annotate" /\ MayRenote(Stored, c.key)
     /\ Install(c.op, AnnotateIn(Stored, c.key, c.note), {c.key})
  \/ /\ c.op = "delete" /\ MayDelete(Stored, c.key)
     /\ Install(c.op, DeleteFrom(Stored, c.key), {c.key})

\* A tree or a bundle takes the place of the catalog.
Exchange(c, reg) ==
  \/ /\ c.op = "load"
     /\ LET tree == Loaded(c.file, reg) IN
          Install(c.op, Reloaded(Stored, tree), Differing(Stored, tree))
  \/ /\ c.op = "merge"
     /\ LET cat == Merged(Stored, Bundle(c.file)) IN
          Install(c.op, cat, Rows(cat.ent))
  \/ /\ c.op = "replace"
     /\ Install(c.op, Bundle(c.file), Rows(c.file.ent))

\* A process without the module may change nothing once the store needs it;
\* only the reload lacks the refusal, and it fails on the rows themselves.
Change(c, reg) ==
  /\ Valid(c, reg)
  /\ reg \/ IF c.op = "load" THEN Rows(entities) \subseteq Kinds(reg) ELSE ~required
  /\ Edit(c) \/ Exchange(c, reg)

\* A resolution or acknowledgement takes a revision and changes no table here.
Mark(c) ==
  /\ c.op \in Collections
  /\ Log(c.op, {})
  /\ UNCHANGED <<entities, annotations, policy, required>>

Next ==
  /\ revision' = NextRevision
  /\ \E c \in Calls : Mark(c) \/ \E reg \in BOOLEAN : Change(c, reg)
Spec == Init /\ [][Next]_vars
=============================================================================
