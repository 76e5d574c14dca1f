------------------------------- MODULE Backup -------------------------------
(***************************************************************************)
(* `cadastre backup` and `restore` beside the writers of the two databases  *)
(* (core/storage.py:1317-1412).                                             *)
(*                                                                         *)
(* A database is the set of transactions committed to it; its revision is   *)
(* their number.  A backup copies one database, then the other, and reads   *)
(* each revision after its copy; the lock it takes is one no writer takes.  *)
(* A restore takes none and renames its copies over the databases, whoever  *)
(* has them open: a connection goes on in the file it opened, and the -wal   *)
(* of that file, which SQLite finds by its name, is read with the new one.  *)
(***************************************************************************)
EXTENDS Integers, FiniteSets

CONSTANTS
  Dirs,     \* backup directories
  MaxTx     \* bound on the transactions

ASSUME BackupAssumption == MaxTx \in Nat

Dbs     == {"catalog", "observed"}
Tx      == 1..MaxTx
Missing == {0}       \* no such file
Damaged == {-1}      \* the file is not what was written
Unknown == {-2}      \* pages of two files: some of their transactions, or no database
Content == (SUBSET Tx) \union {Missing, Damaged, Unknown}
Nothing == [db \in Dbs |-> Missing]

NoManifest == [digests |-> Nothing, revisions |-> [db \in Dbs |-> -1]]
Manifest   == [digests : [Dbs -> Content], revisions : [Dbs -> 0..MaxTx]]

VARIABLES
  live,      \* catalog.sqlite3 and observed.sqlite3, as a new connection reads them
  use,       \* who has them open
  since,     \* transactions acknowledged since the file was put in place, if
             \* it is known what is in it
  imports,   \* transactions of `cadastre import`, which write both
  last,      \* the transactions so far
  half,      \* the import that is in the catalog and not yet in the other; or 0
  made,      \* directories `backup` has created
  files,     \* the copies in each
  manifest,  \* manifest.json of each
  operator   \* the process running `backup` or `restore`

writers == <<imports, last, half>>
data    == <<live, use, since>>
copies  == <<made, files, manifest>>
vars    == <<live, use, since, imports, last, half, made, files, manifest,
             operator>>

\* Nobody; a connection; nobody, but a -wal was left.
Use == {"closed", "open", "left"}

Operator == [pc : {"idle", "copy", "revision", "manifest", "put", "check"},
             dir : Dirs \union {"none"}, db : Dbs, revisions : [Dbs -> 0..MaxTx]]
Idle == [pc |-> "idle", dir |-> "none", db |-> "catalog",
         revisions |-> [db \in Dbs |-> 0]]

Init ==
  /\ live = [db \in Dbs |-> {}] /\ since = [db \in Dbs |-> {}]
  /\ use = [db \in Dbs |-> "closed"] /\ imports = {} /\ last = 0 /\ half = 0
  /\ made = {} /\ files = [d \in Dirs |-> Nothing]
  /\ manifest = [d \in Dirs |-> NoManifest] /\ operator = Idle

\* Of a database nobody can tell the content of it may be any.
\* Mutant: revisions count from one.
FromOne(db)   == {Cardinality(live[db]) + 1}
Revisions(db) == IF live[db] = Unknown THEN 0..MaxTx ELSE {Cardinality(live[db])}
Complete(d) == manifest[d] # NoManifest
At(pc)   == operator.pc = pc
Dir      == operator.dir
Db       == operator.db
Goto(pc) == operator' = [operator EXCEPT !.pc = pc]
\* From the catalog's part to the evidence's, or on to what follows both.
Turn(pc, after) ==
  operator' = IF Db = "catalog" THEN [operator EXCEPT !.pc = pc, !.db = "observed"]
              ELSE [operator EXCEPT !.pc = after, !.db = "catalog"]

-----------------------------------------------------------------------------
(* Connections.  The last one to close takes the -wal with it, unless it   *)
(* may not write or its process is killed.                                  *)

Busy(db) == use[db] = "open"

Open(db) ==
  /\ ~Busy(db) /\ use' = [use EXCEPT ![db] = "open"]
  /\ UNCHANGED <<live, since, writers, copies, operator>>

\* Not while an import has them.
Close(db) ==
  /\ Busy(db) /\ half = 0
  /\ \E left \in {"closed", "left"} : use' = [use EXCEPT ![db] = left]
  /\ UNCHANGED <<live, since, writers, copies, operator>>

-----------------------------------------------------------------------------
(* Writers.  A transaction of one database is one step.  SQLite commits an  *)
(* import to the main database and then to the attached one; it keeps both  *)
(* locked meanwhile, but a reader sees the first without the second, and a  *)
(* process that ends in between leaves it at that.                          *)

\* The transaction is acknowledged; a reader finds it if it is known what the
\* writer's file and the reader's are.
Land(db, t) ==
  /\ Busy(db)
  /\ IF live[db] = Unknown THEN UNCHANGED <<live, since>>
     ELSE /\ live'  = [live EXCEPT ![db] = @ \union {t}]
          /\ since' = [since EXCEPT ![db] = @ \union {t}]
  /\ UNCHANGED use

Fresh == last < MaxTx /\ half = 0 /\ last' = last + 1

Commit(db) ==
  /\ Fresh /\ Land(db, last')
  /\ UNCHANGED <<imports, half, copies, operator>>

ImportCatalog ==
  /\ Fresh /\ Busy("observed") /\ Land("catalog", last')
  /\ imports' = imports \union {last'} /\ half' = last'
  /\ UNCHANGED <<copies, operator>>

ImportObserved ==
  /\ half # 0 /\ half' = 0 /\ Land("observed", half)
  /\ UNCHANGED <<imports, last, copies, operator>>

KillImport ==
  /\ half # 0 /\ half' = 0
  /\ UNCHANGED <<data, imports, last, copies, operator>>

-----------------------------------------------------------------------------
(* backup.                                                                 *)

\* mkdir(exist_ok=False): a directory is written once.
StartBackup ==
  /\ At("idle")
  /\ \E d \in Dirs \ made :
       /\ made' = made \union {d}
       /\ operator' = [Idle EXCEPT !.pc = "copy", !.dir = d]
  /\ UNCHANGED <<data, writers, files, manifest>>

\* source.backup(target), of one snapshot.
\* Mutant: a database nothing was written to is not copied.
CopyWritten ==
  /\ At("copy")
  /\ files' = [files EXCEPT ![Dir][Db] = IF live[Db] = {} THEN @ ELSE live[Db]]
  /\ Goto("revision")
  /\ UNCHANGED <<data, writers, made, manifest>>
CopyFile ==
  /\ At("copy")
  /\ files' = [files EXCEPT ![Dir][Db] = live[Db]]
  /\ Goto("revision")
  /\ UNCHANGED <<data, writers, made, manifest>>

\* SELECT value FROM metadata WHERE key='revision', of the source.
\* Mutant: the revision of the other database.
ReadsOther ==
  /\ At("revision")
  /\ \E r \in Revisions("observed") : operator' = [operator EXCEPT
       !.revisions[Db] = r,
       !.pc = IF Db = "catalog" THEN "copy" ELSE "manifest", !.db = "observed"]
  /\ UNCHANGED <<data, writers, copies>>
ReadRevision ==
  /\ At("revision")
  /\ \E r \in Revisions(Db) : operator' = [operator EXCEPT
       !.revisions[Db] = r,
       !.pc = IF Db = "catalog" THEN "copy" ELSE "manifest", !.db = "observed"]
  /\ UNCHANGED <<data, writers, copies>>

\* The manifest is written under another name and renamed.
WriteManifest ==
  /\ At("manifest")
  /\ manifest' = [manifest EXCEPT ![Dir] = [digests |-> files[Dir],
                                            revisions |-> operator.revisions]]
  /\ operator' = Idle
  /\ UNCHANGED <<data, writers, made, files>>

-----------------------------------------------------------------------------
(* restore.                                                                *)

\* Mutant: the manifest is there, and so are the files.
Present(d) == manifest[d] # NoManifest
Verified(d) == manifest[d] # NoManifest /\ files[d] = manifest[d].digests

StartRestore ==
  /\ At("idle")
  /\ \E d \in Dirs : Verified(d) /\ operator' = [Idle EXCEPT !.pc = "put", !.dir = d]
  /\ UNCHANGED <<data, writers, copies>>

\* Copied beside the database and renamed over it, without a lock.  Connections
\* that are open go on in the file that is gone, and its -wal is the new one's.
PutFile ==
  /\ At("put")
  /\ live' = [live EXCEPT ![Db] = IF use[Db] = "closed" THEN files[Dir][Db] ELSE Unknown]
  /\ since' = [since EXCEPT ![Db] = {}]
  /\ Turn("put", "check")
  /\ UNCHANGED <<use, writers, copies>>

\* PRAGMA integrity_check, of both.
FinishRestore ==
  /\ At("check")
  /\ operator' = Idle
  /\ UNCHANGED <<data, writers, copies>>

-----------------------------------------------------------------------------
\* The operator's process ends.
Crash ==
  /\ ~At("idle")
  /\ operator' = Idle
  /\ UNCHANGED <<data, writers, copies>>

\* A copy of a stored backup goes bad, while nobody is reading it.
Damage ==
  /\ At("idle")
  /\ \E d \in {x \in made : Complete(x)}, db \in Dbs :
       files' = [files EXCEPT ![d][db] = Damaged]
  /\ UNCHANGED <<data, writers, made, manifest, operator>>

Next ==
  \/ \E db \in Dbs : Open(db) \/ Close(db) \/ Commit(db)
  \/ ImportCatalog \/ ImportObserved \/ KillImport
  \/ StartBackup \/ CopyFile \/ ReadRevision \/ WriteManifest
  \/ StartRestore \/ PutFile \/ FinishRestore
  \/ Crash \/ Damage

Spec == Init /\ [][Next]_vars
-----------------------------------------------------------------------------
(* Properties.                                                             *)

\* Every variable has its type.
TypeOK ==
  /\ live \in [Dbs -> Content] /\ since \in [Dbs -> SUBSET Tx]
  /\ use \in [Dbs -> Use] /\ imports \subseteq Tx /\ last \in 0..MaxTx
  /\ half \in {0} \union Tx /\ made \subseteq Dirs
  /\ files \in [Dirs -> [Dbs -> Content]]
  /\ manifest \in [Dirs -> Manifest \union {NoManifest}] /\ operator \in Operator

\* The revision a manifest names is that of its copy or a later one, never an
\* earlier one, although writers commit during the backup and a restore takes
\* the databases back between backups (core/storage.py:1343-1380), unless what
\* was copied is what a restore over a database in use has left.
RevisionNotBehind ==
  \A d \in Dirs, db \in Dbs :
    Complete(d) /\ manifest[d].digests[db] # Unknown
      => Cardinality(manifest[d].digests[db]) <= manifest[d].revisions[db]

\* A restore that ends well has put one backup's copies in place.  A database
\* that nobody had open when it was renamed over, and that had no -wal left
\* beside it, is the copy and every transaction acknowledged since, no more and
\* no less, although writers come back before the other database is replaced
\* (core/storage.py:1388-1412).
RestoreIsWhole ==
  [][At("check") /\ operator' = Idle =>
       \A db \in Dbs : live[db] # Unknown =>
         live[db] = manifest[Dir].digests[db] \union since[db]
    ]_operator

\* A backup that was interrupted can not be restored or taken for a whole one:
\* a directory has a manifest only once both of its copies were made.
OnlyWholeBackups ==
  \A d \in Dirs : Complete(d) => \A db \in Dbs : files[d][db] # Missing

\* A backup is transaction-consistent (USING-CADASTRE.md:193, DEPLOYMENT.md:269):
\* at least, it has no evidence of an import without the import's catalog,
\* which is committed first.
TransactionConsistent ==
  \A d \in Dirs :
    Complete(d) => imports \intersect manifest[d].digests["observed"]
                     \subseteq manifest[d].digests["catalog"]
=============================================================================
