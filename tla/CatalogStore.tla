---------------------------- MODULE CatalogStore ----------------------------
(***************************************************************************)
(* catalog.sqlite3 and the processes that write it.                        *)
(*                                                                         *)
(* Every client is one command, request or tool call: it loads             *)
(* modules.yaml, opens the store, reads the catalog in three SELECTs that  *)
(* are not in a transaction, computes and checks a proposed catalog in     *)
(* memory, and then replaces the whole catalog in one BEGIN IMMEDIATE      *)
(* transaction (core/storage.py, core/writes.py).  A transaction becomes   *)
(* visible at its commit, so everything it writes is one step here; what   *)
(* it writes was read before its lock was taken, and that is why the reads *)
(* are steps of their own.                                                 *)
(***************************************************************************)
EXTENDS CatalogModel

CONSTANTS
  Clients,      \* client processes
  Checked,      \* those that pass expected_revision (no shipped caller does)
  NoClient,     \* nobody holds the write lock
  MaxRevision   \* bound: no call starts once the store is at this revision

ASSUME StoreAssumption ==
  /\ Checked \subseteq Clients
  /\ NoClient \notin Clients
  /\ MaxRevision \in Nat

NoMarks  == [c \in Collections |-> {}]
NoCall   == [op |-> "none"]

VARIABLES
  entities,     \* table entities
  annotations,  \* table annotations
  policy,       \* table policy
  marks,        \* metadata rows resolutions, acknowledgements
  required,     \* metadata row required_modules names "manifest"
  revision,     \* metadata row revision
  audit,        \* table audit, in revision order
  lock,         \* holder of the write lock BEGIN IMMEDIATE takes
  enabled,      \* modules.yaml enables "manifest"
  client        \* what each process has read and computed

tables == <<entities, annotations, policy, marks, required, revision, audit>>
vars   == <<entities, annotations, policy, marks, required, revision, audit,
            lock, enabled, client>>

\* `seen` is the revision the store was at when the session opened it.  Only a
\* Checked client knows it (its expected_revision); for the others it is a
\* history variable that no guard reads.
Session ==
  [pc      : {"idle", "open", "entities", "annotations", "policy", "list",
              "begin", "commit"},
   call    : Calls \union {NoCall},
   reg     : BOOLEAN,
   seen    : Nat,
   cat     : Catalog,
   marks   : MarkTable,
   changed : SUBSET Ids]

Idle == [pc |-> "idle", call |-> NoCall, reg |-> FALSE, seen |-> 0,
         cat |-> Empty, marks |-> NoMarks, changed |-> {}]

Init ==
  /\ entities = Empty.ent /\ annotations = Empty.ann /\ policy = Empty.pol
  /\ marks = NoMarks /\ required = FALSE /\ revision = 0 /\ audit = <<>>
  /\ lock = NoClient /\ enabled \in BOOLEAN
  /\ client = [p \in Clients |-> Idle]

-----------------------------------------------------------------------------
(* Before the transaction.                                                 *)

At(p, label)  == client[p].pc = label
Op(p)         == client[p].call.op
Stop(p)       == client' = [client EXCEPT ![p] = Idle]
Goto(p, next) == client' = [client EXCEPT ![p].pc = next]

Start(p) ==
  /\ At(p, "idle")
  /\ revision < MaxRevision
  /\ \E c \in Calls :
       /\ Valid(c, enabled)
       /\ client' = [client EXCEPT ![p] =
                       [Idle EXCEPT !.pc = "open", !.call = c, !.reg = enabled]]
  /\ UNCHANGED <<tables, lock, enabled>>

\* Mutant: the import of a bundle is not refused.
ImportsAnyway(p) == required /\ ~client[p].reg /\ Op(p) \notin FileOps
\* refuse_if_module_disabled: on every mutating call but load_declared.
ModuleRefuses(p) == required /\ ~client[p].reg /\ Op(p) # "load"

AfterOpen(op) == IF op \in Collections THEN "list"
                 ELSE IF op = "replace" THEN "begin" ELSE "entities"

\* A bundle import proposes the bundle; it needs no read unless it merges.
Open(p) ==
  /\ At(p, "open")
  /\ ~ModuleRefuses(p)
  /\ LET c == client[p].call IN
       client' = [client EXCEPT
         ![p].pc      = AfterOpen(c.op),
         ![p].seen    = revision,
         ![p].cat     = IF c.op = "replace" THEN Bundle(c.file) ELSE @,
         ![p].changed = IF c.op = "replace" THEN Rows(c.file.ent) ELSE @]
  /\ UNCHANGED <<tables, lock, enabled>>

Refused(p) ==
  /\ At(p, "open") /\ ModuleRefuses(p)
  /\ Stop(p)
  /\ UNCHANGED <<tables, lock, enabled>>

\* Mutant: wait for the module that knows the row.
WaitsForModule(p) ==
  /\ At(p, "entities")
  /\ Rows(entities) \subseteq Kinds(client[p].reg)
  /\ client' = [client EXCEPT ![p].pc = "annotations", ![p].cat.ent = entities]
  /\ UNCHANGED <<tables, lock, enabled>>
\* _catalog_from_connection: SELECT ... FROM entities.  A row of a kind the
\* registry does not know raises KeyError.
ReadEntities(p) ==
  /\ At(p, "entities")
  /\ IF Rows(entities) \subseteq Kinds(client[p].reg)
       THEN client' = [client EXCEPT ![p].pc = "annotations", ![p].cat.ent = entities]
       ELSE Stop(p)
  /\ UNCHANGED <<tables, lock, enabled>>

\* SELECT ... FROM annotations, overlaid at once.  An annotation of an entity
\* the first SELECT did not return raises KeyError.
ReadAnnotations(p) ==
  /\ At(p, "annotations")
  /\ IF Annotated(annotations) \subseteq Rows(client[p].cat.ent)
       THEN client' = [client EXCEPT
              ![p].pc = "policy", ![p].cat.ann = annotations,
              ![p].cat.ent = Overlay(@, annotations)]
       ELSE Stop(p)
  /\ UNCHANGED <<tables, lock, enabled>>

-----------------------------------------------------------------------------
(* SELECT ... FROM policy, and the operation itself: refuse, or propose a  *)
(* catalog that check_catalog lets through.                                *)

Snapshot(p) == [client[p].cat EXCEPT !.pol = policy]

\* Mutant: the operation's own checks only.
Unchecked(p, may, cat, changed) ==
  /\ At(p, "policy")
  /\ IF may THEN client' = [client EXCEPT ![p].pc = "begin", ![p].cat = cat,
                                          ![p].changed = changed]
     ELSE Stop(p)
  /\ UNCHANGED <<tables, lock, enabled>>
Propose(p, may, cat, changed) ==
  /\ At(p, "policy")
  /\ IF may /\ CheckPasses(cat)
       THEN client' = [client EXCEPT ![p].pc = "begin", ![p].cat = cat,
                                     ![p].changed = changed]
       ELSE Stop(p)
  /\ UNCHANGED <<tables, lock, enabled>>

Add(p) ==
  LET c == client[p].call IN
  /\ Op(p) = "add"
  /\ Propose(p, MayAdd(Snapshot(p), c.key, c.body),
             AddTo(Snapshot(p), c.key, c.body, c.note), {c.key})

Update(p) ==
  LET c == client[p].call IN
  /\ Op(p) = "update"
  /\ Propose(p, MayUpdate(Snapshot(p), c.key, c.body),
             UpdateIn(Snapshot(p), c.key, c.body), {c.key})

Renote(p) ==
  LET c == client[p].call IN
  /\ Op(p) = "renote"
  /\ Propose(p, MayRenote(Snapshot(p), c.key),
             RenoteIn(Snapshot(p), c.key, c.note), {c.key})

Annotate(p) ==
  LET c == client[p].call IN
  /\ Op(p) = "annotate"
  /\ Propose(p, MayRenote(Snapshot(p), c.key),
             AnnotateIn(Snapshot(p), c.key, c.note), {c.key})

Delete(p) ==
  LET c == client[p].call IN
  /\ Op(p) = "delete"
  /\ Propose(p, MayDelete(Snapshot(p), c.key),
             DeleteFrom(Snapshot(p), c.key), {c.key})

Reload(p) ==
  LET c    == client[p].call
      tree == Loaded(c.file, client[p].reg)
  IN
  /\ Op(p) = "load"
  /\ Propose(p, TRUE, Reloaded(Snapshot(p), tree), Differing(Snapshot(p), tree))

Merge(p) ==
  LET cat == Merged(Snapshot(p), Bundle(client[p].call.file)) IN
  /\ Op(p) = "merge"
  /\ Propose(p, TRUE, cat, Rows(cat.ent))

\* write_metadata reads the list it will append to before BEGIN IMMEDIATE.
ReadList(p) ==
  /\ At(p, "list")
  /\ client' = [client EXCEPT
       ![p].pc = "begin",
       ![p].marks = [marks EXCEPT ![Op(p)] = @ \union {client[p].call.mark}]]
  /\ UNCHANGED <<tables, lock, enabled>>

-----------------------------------------------------------------------------
(* The transaction.                                                        *)

Begin(p) ==
  /\ At(p, "begin") /\ lock = NoClient
  /\ lock' = p
  /\ Goto(p, "commit")
  /\ UNCHANGED <<tables, enabled>>

\* busy_timeout runs out while somebody else holds the lock.
Busy(p) ==
  /\ At(p, "begin") /\ lock # NoClient
  /\ Stop(p)
  /\ UNCHANGED <<tables, lock, enabled>>

\* Mutant: a database that moved on is accepted, one that went back is not.
OnlyBackwards(p) == p \in Checked /\ client[p].seen > revision
Conflict(p) == p \in Checked /\ client[p].seen # revision
NextRevision == revision + 1
\* Mutant: the audit row names the revision that was read.
RecordsOld(p) ==
  /\ revision' = NextRevision
  /\ audit' = Append(audit, [revision |-> revision, op |-> Op(p),
                             changed |-> client[p].changed])
Record(p) ==
  /\ revision' = NextRevision
  /\ audit' = Append(audit, [revision |-> NextRevision, op |-> Op(p),
                             changed |-> client[p].changed])

\* Mutants: an import does not mark the store; the marker follows the rows.
MarkedByEdits(p) ==
  required \/ (Op(p) \in EditOps /\ Rows(client[p].cat.ent) \intersect ManifestIds # {})
MarkedByRows(p) == Rows(client[p].cat.ent) \intersect ManifestIds # {}
\* _record_required_modules: the marker is only ever set.
Marked(p) == required \/ Rows(client[p].cat.ent) \intersect ManifestIds # {}

\* apply_catalog_transaction up to connection.commit().
CommitCatalog(p) ==
  LET cat == client[p].cat IN
  /\ At(p, "commit") /\ Op(p) \notin Collections
  /\ ~Conflict(p) /\ KeysHold(cat)
  /\ entities' = cat.ent
  /\ annotations' = cat.ann
  /\ policy' = StoredPolicy(cat.pol)
  /\ required' = Marked(p)
  /\ marks' = IF Op(p) \in {"merge", "replace"} THEN client[p].call.file.marks
              ELSE marks
  /\ Record(p)
  /\ lock' = NoClient
  /\ Stop(p)
  /\ UNCHANGED enabled

\* Mutants: no audit row; the other list is gone.
MarksSilently(p) ==
  /\ At(p, "commit") /\ Op(p) \in Collections
  /\ marks' = [marks EXCEPT ![Op(p)] = client[p].marks[Op(p)]]
  /\ revision' = NextRevision
  /\ lock' = NoClient
  /\ Stop(p)
  /\ UNCHANGED <<entities, annotations, policy, required, audit, enabled>>
MarksAlone(p) ==
  /\ At(p, "commit") /\ Op(p) \in Collections
  /\ marks' = [c \in {Op(p)} |-> client[p].marks[c]]
  /\ Record(p)
  /\ lock' = NoClient
  /\ Stop(p)
  /\ UNCHANGED <<entities, annotations, policy, required, enabled>>
\* write_metadata up to connection.commit(): it has no expected_revision.
CommitMark(p) ==
  /\ At(p, "commit") /\ Op(p) \in Collections
  /\ marks' = [marks EXCEPT ![Op(p)] = client[p].marks[Op(p)]]
  /\ Record(p)
  /\ lock' = NoClient
  /\ Stop(p)
  /\ UNCHANGED <<entities, annotations, policy, required, enabled>>

\* The except branch: revision conflict, or a foreign key that does not hold.
Rollback(p) ==
  /\ At(p, "commit") /\ Op(p) \notin Collections
  /\ Conflict(p) \/ ~KeysHold(client[p].cat)
  /\ lock' = NoClient
  /\ Stop(p)
  /\ UNCHANGED <<tables, enabled>>

\* The process dies, or fails on something the model leaves out.  SQLite
\* discards an uncommitted transaction.
Crash(p) ==
  /\ ~At(p, "idle")
  /\ lock' = IF lock = p THEN NoClient ELSE lock
  /\ Stop(p)
  /\ UNCHANGED <<tables, enabled>>

\* The operator edits modules.yaml.
ToggleModule ==
  /\ enabled' = ~enabled
  /\ UNCHANGED <<tables, lock, client>>

Step(p) ==
  \/ Open(p) \/ Refused(p) \/ ReadEntities(p) \/ ReadAnnotations(p)
  \/ Add(p) \/ Update(p) \/ Renote(p) \/ Annotate(p) \/ Delete(p)
  \/ Reload(p) \/ Merge(p) \/ ReadList(p)
  \/ Begin(p) \/ Busy(p) \/ CommitCatalog(p) \/ CommitMark(p) \/ Rollback(p)

Next == ToggleModule \/ \E p \in Clients : Start(p) \/ Step(p) \/ Crash(p)

Spec     == Init /\ [][Next]_vars
\* A process that is running keeps running: the operating system schedules it
\* and SQLite's busy handler gives up after five seconds.
FairSpec == Spec /\ \A p \in Clients : WF_vars(Step(p))
-----------------------------------------------------------------------------
(* Properties.                                                             *)

\* Every variable has its type.
TypeOK ==
  /\ entities \in EntityTable /\ annotations \in NoteTable /\ policy \in Policy
  /\ marks \in MarkTable /\ required \in BOOLEAN /\ revision \in Nat
  /\ audit \in Seq(AuditRow)
  /\ lock \in Clients \union {NoClient} /\ enabled \in BOOLEAN
  /\ client \in [Clients -> Session]

\* The audit table numbers the revisions: row i carries revision i and the
\* store is at the revision of its last row, whatever clients overlap, roll
\* back or die (core/storage.py:531-580, core/writes.py:441-451).
AuditNumbersRevisions ==
  /\ Len(audit) = revision
  /\ \A i \in 1..Len(audit) : audit[i].revision = i

\* No step changes a table without adding the one audit row of its revision,
\* and no step touches an audit row once written.
ChangeIsAudited ==
  [][/\ Len(audit') = Len(audit) + 1
     /\ SubSeq(audit', 1, Len(audit)) = audit
     /\ revision' = revision + 1]_tables

\* An annotation row always has its entity row, although clients put back
\* tables they read at different moments (FOREIGN KEY, core/storage.py:181).
NoOrphanAnnotation == Annotated(annotations) \subseteq Rows(entities)

\* A store that holds a Manifest row says so durably (core/storage.py:99-124).
MarkerCoversRows == Rows(entities) \intersect ManifestIds # {} => required

\* Nothing clears the marker, the deletion of the last such row included
\* (core/storage.py:466-474).
MarkerNeverCleared == [][required => required']_required

\* What a reader assembles from the committed tables passes the checks the
\* gate ran before the commit (DESIGN.md:158-163).
Readable == [ent |-> Overlay(entities, annotations), ann |-> annotations, pol |-> policy]
StoredPassesCheck == CheckPasses(Readable)

\* No committed transaction leaves a dangling work graph (MANIFEST.md:617-631).
WorkGraphResolves == Resolved(entities, LoadRefs)

\* A commit changes what its audit row names and nothing else: an edit leaves
\* every other entity, every other annotation and the policy as it found them
\* in the database, not as it read them some time before.
EditRow(row) == row.op \in EditOps
OnlyNamed(row) ==
  /\ policy' = policy
  /\ \A k \in Ids \ row.changed :
       entities'[k] = Readable.ent[k] /\ annotations'[k] = annotations[k]
NoLostUpdate ==
  [][Len(audit') > Len(audit) /\ EditRow(audit'[Len(audit')])
       => OnlyNamed(audit'[Len(audit')])]_audit

\* A commit that nobody overtook: the store is still at the revision it was at
\* when the process opened it.  No client is made to pass expected_revision.
Undisturbed(p) == lock = p /\ revision' # revision /\ client[p].seen = revision

\* A reload of declared/ that nobody overtook carries every annotation of the
\* live catalog across (core/storage.py:915-920).
AnnotationsCarried ==
  [][\A p \in Clients :
       Undisturbed(p) /\ Op(p) = "load"
         => Annotated(annotations) \subseteq Annotated(annotations')]_tables

\* The same of every reload, as core/storage.py:915 and USING-CADASTRE.md:211
\* have it.
AnnotationsSurviveLoad ==
  [][\A p \in Clients :
       lock = p /\ revision' # revision /\ Op(p) = "load"
         => Annotated(annotations) \subseteq Annotated(annotations')]_tables

\* An edit that nobody overtook never changes what a source owns: presence and
\* reflected fields of an owned record stay, unless the record stood on a
\* provider's host before, in the catalog before, and stands on one after, in
\* the catalog after (core/writes.py:115-159, 225-239, 306-316).
Provided(ent, k) == k \in Rows(ent) => OnExternalHost(ent, k, ent[k].body)
SourceOwnedKept ==
  [][\A p \in Clients :
       Undisturbed(p) /\ Op(p) \in EditOps
         => \A k \in Owned :
              \/ k \in Rows(entities) /\ k \in Rows(entities')
                   /\ entities'[k].body = entities[k].body
              \/ k \notin Rows(entities) /\ k \notin Rows(entities')
              \/ Provided(entities, k) /\ Provided(entities', k)]_tables

\* A process that has the module disabled and was not overtaken commits
\* nothing that changes a Manifest row (MANIFEST.md:580-595).
DormantRowsUntouched ==
  [][\A p \in Clients :
       Undisturbed(p) /\ ~client[p].reg
         => \A k \in ManifestIds : entities'[k] = entities[k]]_tables

\* No command of such a process drops a Manifest row, overtaken or not, as
\* MANIFEST.md:595 has it.
DormantRowsKept ==
  [][\A p \in Clients :
       lock = p /\ revision' # revision /\ ~client[p].reg
         => ManifestIds \intersect Rows(entities) \subseteq Rows(entities')]_tables

\* When every client passes the revision it read, the store is the serial
\* catalog: each commit is one call applied to the catalog it replaces
\* (DESIGN.md:155-163, core/storage.py:531-536).
Serial == INSTANCE SerialCatalog
            WITH entities <- entities, annotations <- annotations, policy <- policy,
                 required <- required, revision <- revision, audit <- audit
AppliesSerially == Serial!Spec

\* Every call ends: a commit, a refusal or an error, never a hang on the lock.
CallsEnd == \A p \in Clients : client[p].pc # "idle" ~> client[p].pc = "idle"
=============================================================================
