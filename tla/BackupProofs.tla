----------------------------- MODULE BackupProofs -----------------------------
(***************************************************************************)
(* Machine-checked theorems about Backup, for any directories and any      *)
(* number of transactions.                                                 *)
(***************************************************************************)
EXTENDS Backup, FiniteSetTheorems, TLAPS

\* The contents of databases whose transactions are known, and of any.
Data  == SUBSET Tx
Found == Data \union {Unknown}

LEMMA DataFacts ==
  /\ Found \subseteq Content /\ Data \subseteq Found /\ Unknown \in Found
  /\ Missing \notin Found /\ Damaged \notin Found /\ Unknown \notin Data
  /\ {} \in Data /\ Missing \in Content /\ Damaged \in Content
  /\ Missing # Damaged
<1>1. 0 \notin Tx /\ -1 \notin Tx /\ -2 \notin Tx /\ 0 # -1 /\ 0 # -2 /\ -1 # -2
  BY BackupAssumption DEF Tx
<1>2. Missing # Damaged /\ Missing # Unknown /\ Damaged # Unknown
  <2>1. 0 \in Missing /\ 0 \notin Damaged /\ 0 \notin Unknown
    BY <1>1 DEF Missing, Damaged, Unknown
  <2>2. -1 \in Damaged /\ -1 \notin Unknown
    BY <1>1 DEF Damaged, Unknown
  <2> QED BY <2>1, <2>2
<1>3. Missing \notin Data /\ Damaged \notin Data /\ Unknown \notin Data /\ {} \in Data
  BY <1>1 DEF Data, Missing, Damaged, Unknown
<1>4. Found \subseteq Content /\ Missing \in Content /\ Damaged \in Content
  BY DEF Data, Found, Content
<1> QED BY <1>2, <1>3, <1>4 DEF Found

\* A revision is a number of transactions there can be.
LEMMA Counted ==
  ASSUME NEW a \in Data, NEW b \in Data, a \subseteq b
  PROVE  /\ Cardinality(b) \in 0..MaxTx
         /\ Cardinality(a) <= Cardinality(b)
<1>1. IsFiniteSet(Tx) /\ Cardinality(Tx) = MaxTx
  BY BackupAssumption, FS_Interval DEF Tx
<1>2. IsFiniteSet(b) /\ Cardinality(b) <= MaxTx
  BY <1>1, FS_Subset DEF Data
<1>3. Cardinality(b) \in Nat
  BY <1>2, FS_CardinalityType
<1>4. Cardinality(a) <= Cardinality(b)
  BY <1>2, FS_Subset
<1> QED BY <1>2, <1>3, <1>4, BackupAssumption

LEMMA NoManifestFacts ==
  ASSUME NEW m \in Manifest
  PROVE  m # NoManifest
<1>1. m.revisions["catalog"] \in 0..MaxTx
  BY DEF Manifest, Dbs
<1> QED BY <1>1, BackupAssumption DEF NoManifest, Dbs

-----------------------------------------------------------------------------
(* The invariant.                                                          *)

\* One copy is made and the revision of its database read after it.
Copied(db) ==
  /\ files[Dir][db] \in Found
  /\ files[Dir][db] # Unknown => Cardinality(files[Dir][db]) <= operator.revisions[db]

\* The copy is in place, with what was committed since.
Placed(db) ==
  live[db] # Unknown => live[db] = manifest[Dir].digests[db] \union since[db]

\* How far the operator has come.
Progress ==
  /\ At("idle") \/ Dir \in Dirs
  /\ At("copy") \/ At("revision") =>
       (Db = "observed" => Copied("catalog"))
  /\ At("revision") => /\ files[Dir][Db] \in Found
                       /\ files[Dir][Db] # Unknown =>
                            live[Db] \in Data /\ files[Dir][Db] \subseteq live[Db]
  /\ At("manifest") => \A db \in Dbs : Copied(db)
  /\ At("put") \/ At("check") => Verified(Dir)
  /\ At("put") /\ Db = "observed" => Placed("catalog")
  /\ At("check") => \A db \in Dbs : Placed(db)

\* A manifest stands for two copies that were whole when it was written.
Attested ==
  \A d \in Dirs :
    Complete(d) => /\ manifest[d].digests \in [Dbs -> Found]
                   /\ \A db \in Dbs : files[d][db] # Missing

Sound ==
  /\ TypeOK
  /\ live \in [Dbs -> Found]
  /\ Progress /\ Attested /\ RevisionNotBehind

LEMMA IdleFacts ==
  /\ Idle \in Operator /\ Idle.pc = "idle" /\ Idle.db = "catalog"
  /\ \A d \in Dirs, pc \in {"copy", "put"} :
       [Idle EXCEPT !.pc = pc, !.dir = d] \in Operator
<1>1. [db \in Dbs |-> 0] \in [Dbs -> 0..MaxTx]
  BY BackupAssumption
<1>2. Idle \in Operator
  BY <1>1 DEF Idle, Operator, Dbs
<1> QED BY <1>2 DEF Operator, Idle

LEMMA SoundInit == Init => Sound
<1> SUFFICES ASSUME Init PROVE Sound
  OBVIOUS
<1>1. live \in [Dbs -> Found] /\ files \in [Dirs -> [Dbs -> Content]]
  BY DataFacts DEF Init, Nothing
<1>2. operator \in Operator /\ operator.pc = "idle"
  BY IdleFacts DEF Init
<1>3. TypeOK
  BY <1>1, <1>2, DataFacts, BackupAssumption DEF TypeOK, Init, Use
<1>4. \A d \in Dirs : ~Complete(d)
  BY DEF Complete, Init
<1>5. Progress
  BY <1>2 DEF Progress, At
<1> QED BY <1>1, <1>3, <1>4, <1>5 DEF Sound, Attested, RevisionNotBehind

-----------------------------------------------------------------------------
(* Connections come and go, and writers only add to the databases in use.  *)

\* A transaction reaches a database and what is known of it together.
Adds(db, t) ==
  \/ live'[db] = live[db] /\ since'[db] = since[db]
  \/ /\ live[db] \in Data
     /\ live'[db] = live[db] \union {t} /\ since'[db] = since[db] \union {t}

LEMMA WriterSound ==
  ASSUME Sound, UNCHANGED <<copies, operator>>,
         last' \in 0..MaxTx, half' \in {0} \union Tx, imports' \subseteq Tx,
         use' \in [Dbs -> Use], since' \in [Dbs -> SUBSET Tx], live' \in [Dbs -> Found],
         NEW t, \A db \in Dbs : Adds(db, t)
  PROVE  Sound'
<1>1. TypeOK'
  BY DataFacts DEF Sound, TypeOK, copies
<1>2. Attested' /\ RevisionNotBehind'
  BY DEF Sound, Attested, RevisionNotBehind, Complete, copies
<1>3. Db \in Dbs /\ "catalog" \in Dbs
  BY DEF Sound, TypeOK, Operator, Dbs, Db
<1>4. ASSUME NEW db \in Dbs, Placed(db) PROVE Placed(db)'
  <2>1. CASE live'[db] = live[db] /\ since'[db] = since[db]
    BY <1>4, <2>1 DEF Placed, Dir, copies
  <2>2. CASE live[db] \in Data /\ live'[db] = live[db] \union {t}
             /\ since'[db] = since[db] \union {t}
    BY <1>4, <2>2, DataFacts DEF Placed, Dir, copies
  <2> QED BY <2>1, <2>2 DEF Adds
<1>5. ASSUME NEW db \in Dbs, live[db] \in Data
      PROVE  live'[db] \in Data /\ live[db] \subseteq live'[db]
  <2>1. live'[db] \in Found
    OBVIOUS
  <2>2. CASE live'[db] = live[db] \union {t}
    <3>1. \A x : x \in Unknown => x = -2
      BY DEF Unknown
    <3>2. t \in Tx
      <4>1. since'[db] \subseteq Tx
        OBVIOUS
      <4>2. since'[db] = since[db] \union {t} \/ live'[db] = live[db]
        BY DEF Adds
      <4>3. CASE live'[db] = live[db]
        BY <1>5, <2>2, <4>3 DEF Data
      <4> QED BY <4>1, <4>2, <4>3
    <3> QED BY <1>5, <2>2, <3>2 DEF Data
  <2> QED BY <1>5, <2>2 DEF Adds
<1>6. Progress'
  BY <1>3, <1>4, <1>5 DEF Sound, Progress, At, Copied, Verified, Dir, Db, copies
<1> QED BY <1>1, <1>2, <1>6 DEF Sound

\* What a transaction that lands does to the databases.
LEMMA Landing ==
  ASSUME Sound, NEW db \in Dbs, NEW t \in Tx, Land(db, t)
  PROVE  /\ since' \in [Dbs -> SUBSET Tx] /\ live' \in [Dbs -> Found] /\ use' = use
         /\ \A x \in Dbs : Adds(x, t)
<1>1. since \in [Dbs -> SUBSET Tx] /\ live \in [Dbs -> Found]
  BY DEF Sound, TypeOK
<1>2. CASE live[db] = Unknown
  BY <1>1, <1>2 DEF Land, Adds
<1>3. CASE live[db] # Unknown
  <2>1. live[db] \in Data
    BY <1>1, <1>3 DEF Found
  <2>2. live' = [live EXCEPT ![db] = @ \union {t}] /\ use' = use
        /\ since' = [since EXCEPT ![db] = @ \union {t}]
    BY <1>3 DEF Land
  <2>3. live[db] \union {t} \in Found /\ since[db] \union {t} \in SUBSET Tx
    BY <1>1, <2>1, DataFacts DEF Data
  <2>4. live' \in [Dbs -> Found] /\ since' \in [Dbs -> SUBSET Tx]
    BY <1>1, <2>2, <2>3
  <2> QED BY <1>1, <2>1, <2>2, <2>4 DEF Adds
<1> QED BY <1>2, <1>3

LEMMA WritersStep ==
  ASSUME Sound,
         \/ \E db \in Dbs : Open(db) \/ Close(db) \/ Commit(db)
         \/ ImportCatalog \/ ImportObserved \/ KillImport
  PROVE  Sound'
<1>1. /\ last \in 0..MaxTx /\ half \in {0} \union Tx /\ imports \subseteq Tx
      /\ live \in [Dbs -> Found] /\ since \in [Dbs -> SUBSET Tx] /\ MaxTx \in Nat
      /\ use \in [Dbs -> Use] /\ "catalog" \in Dbs /\ "observed" \in Dbs
  BY BackupAssumption DEF Sound, TypeOK, Dbs
<1>2. ASSUME Fresh PROVE last' \in 0..MaxTx /\ last' \in Tx
  BY <1>1, <1>2 DEF Fresh, Tx
<1>3. \A db \in Dbs : live' = live /\ since' = since => Adds(db, 0)
  BY DEF Adds
<1>4. ASSUME NEW db \in Dbs, Open(db) \/ Close(db) PROVE Sound'
  <2>1. use' \in [Dbs -> Use]
    BY <1>1, <1>4 DEF Open, Close, Use
  <2>2. UNCHANGED <<live, since, writers, copies, operator>>
    BY <1>4 DEF Open, Close
  <2> QED BY <1>1, <1>3, <2>1, <2>2, WriterSound DEF writers
<1>5. ASSUME NEW db \in Dbs, Commit(db) PROVE Sound'
  <2>1. last' \in Tx /\ last' \in 0..MaxTx /\ Land(db, last')
        /\ UNCHANGED <<imports, half, copies, operator>>
    BY <1>2, <1>5 DEF Commit
  <2> QED BY <1>1, <2>1, Landing, WriterSound
<1>6. ASSUME ImportCatalog PROVE Sound'
  <2>1. last' \in Tx /\ last' \in 0..MaxTx /\ Land("catalog", last')
        /\ UNCHANGED <<copies, operator>>
    BY <1>2, <1>6 DEF ImportCatalog
  <2>2. half' \in Tx /\ imports' \subseteq Tx
    BY <1>1, <1>2, <1>6 DEF ImportCatalog
  <2> QED BY <1>1, <2>1, <2>2, Landing, WriterSound
<1>7. ASSUME ImportObserved PROVE Sound'
  <2>1. half \in Tx /\ half' = 0 /\ Land("observed", half)
        /\ UNCHANGED <<imports, last, copies, operator>>
    BY <1>1, <1>7 DEF ImportObserved
  <2> QED BY <1>1, <2>1, Landing, WriterSound
<1>8. ASSUME KillImport PROVE Sound'
  <2>1. half' = 0 /\ UNCHANGED <<data, imports, last, copies, operator>>
    BY <1>8 DEF KillImport
  <2> QED BY <1>1, <1>3, <2>1, WriterSound DEF data
<1> QED BY <1>4, <1>5, <1>6, <1>7, <1>8

-----------------------------------------------------------------------------
(* backup.                                                                 *)

LEMMA StartBackupStep ==
  ASSUME Sound, StartBackup
  PROVE  Sound'
<1>1. PICK d \in Dirs \ made :
        made' = made \union {d} /\ operator' = [Idle EXCEPT !.pc = "copy", !.dir = d]
  BY DEF StartBackup
<1>2. operator' \in Operator /\ operator'.pc = "copy" /\ operator'.dir = d
      /\ operator'.db = "catalog"
  <2>1. operator' \in Operator
    BY <1>1, IdleFacts
  <2> QED BY <1>1, <2>1 DEF Idle
<1>3. TypeOK'
  BY <1>1, <1>2 DEF Sound, TypeOK, StartBackup, writers, data
<1>4. Attested' /\ RevisionNotBehind' /\ live' = live
  BY DEF Sound, Attested, RevisionNotBehind, Complete, StartBackup, data
<1>5. Progress'
  BY <1>2 DEF Progress, At, Dir, Db
<1> QED BY <1>3, <1>4, <1>5 DEF Sound

LEMMA CopyFileStep ==
  ASSUME Sound, CopyFile
  PROVE  Sound'
<1>1. /\ operator \in Operator /\ operator.pc = "copy" /\ Dir \in Dirs /\ Db \in Dbs
      /\ live \in [Dbs -> Found] /\ files \in [Dirs -> [Dbs -> Content]]
  BY DEF Sound, TypeOK, Progress, CopyFile, At, Operator, Db
<1>2. operator' = [operator EXCEPT !.pc = "revision"]
  BY DEF CopyFile, Goto
<1>3. operator' \in Operator /\ operator'.pc = "revision" /\ Dir' = Dir /\ Db' = Db
      /\ operator'.revisions = operator.revisions
  BY <1>1, <1>2 DEF Operator, Dir, Db
<1>4. files' = [files EXCEPT ![Dir] = [files[Dir] EXCEPT ![Db] = live[Db]]]
  BY <1>1 DEF CopyFile
<1>5. /\ files' \in [Dirs -> [Dbs -> Content]]
      /\ files'[Dir][Db] = live[Db]
      /\ \A d \in Dirs, db \in Dbs :
           d # Dir \/ db # Db => files'[d][db] = files[d][db]
  BY <1>1, <1>4, DataFacts
<1>6. TypeOK' /\ live' = live
  BY <1>3, <1>5 DEF Sound, TypeOK, CopyFile, writers, data
<1>7. Attested'
  <2> SUFFICES ASSUME NEW d \in Dirs, Complete(d)'
               PROVE  /\ manifest'[d].digests \in [Dbs -> Found]
                      /\ \A db \in Dbs : files'[d][db] # Missing
    BY DEF Attested
  <2>1. Complete(d) /\ manifest' = manifest
    BY DEF Complete, CopyFile
  <2>2. ASSUME NEW db \in Dbs PROVE files'[d][db] # Missing
    <3>1. files[d][db] # Missing
      BY <2>1 DEF Sound, Attested
    <3>2. CASE d = Dir /\ db = Db
      BY <1>1, <1>5, <3>2, DataFacts
    <3> QED BY <1>5, <3>1, <3>2
  <2> QED BY <2>1, <2>2 DEF Sound, Attested
<1>8. RevisionNotBehind'
  BY DEF Sound, RevisionNotBehind, Complete, CopyFile
<1>9. Progress'
  <2>1. /\ files'[Dir][Db] \in Found
        /\ files'[Dir][Db] # Unknown => live'[Db] \in Data /\ files'[Dir][Db] \subseteq live'[Db]
    BY <1>1, <1>5, <1>6 DEF Found
  <2>2. Db = "observed" => Copied("catalog")'
    BY <1>1, <1>3, <1>5 DEF Sound, Progress, Copied, At, Dbs
  <2> QED BY <1>1, <1>3, <2>1, <2>2 DEF Progress, At
<1> QED BY <1>1, <1>6, <1>7, <1>8, <1>9 DEF Sound

LEMMA ReadRevisionStep ==
  ASSUME Sound, ReadRevision
  PROVE  Sound'
<1>1. /\ operator \in Operator /\ operator.pc = "revision" /\ Dir \in Dirs /\ Db \in Dbs
      /\ files[Dir][Db] \in Found /\ live[Db] \in Found
      /\ files[Dir][Db] # Unknown => live[Db] \in Data /\ files[Dir][Db] \subseteq live[Db]
  BY DEF Sound, TypeOK, Progress, ReadRevision, At, Operator, Db
<1> DEFINE next == IF Db = "catalog" THEN "copy" ELSE "manifest"
<1>0. PICK n \in Revisions(Db) :
        operator' = [operator EXCEPT !.revisions[Db] = n, !.pc = next, !.db = "observed"]
  BY DEF ReadRevision
<1>2. n \in 0..MaxTx /\ (files[Dir][Db] # Unknown => Cardinality(files[Dir][Db]) <= n)
  <2>1. CASE live[Db] = Unknown
    BY <1>0, <1>1, <2>1, DataFacts DEF Revisions
  <2>2. CASE live[Db] # Unknown
    <3>1. live[Db] \in Data /\ n = Cardinality(live[Db])
      BY <1>0, <1>1, <2>2 DEF Revisions, Found
    <3>2. Cardinality(live[Db]) \in 0..MaxTx
      BY <3>1, Counted
    <3>3. ASSUME files[Dir][Db] # Unknown
          PROVE  Cardinality(files[Dir][Db]) <= Cardinality(live[Db])
      <4>1. files[Dir][Db] \in Data /\ files[Dir][Db] \subseteq live[Db]
        BY <1>1, <3>3 DEF Found
      <4> QED BY <3>1, <4>1, Counted
    <3> QED BY <3>1, <3>2, <3>3
  <2> QED BY <2>1, <2>2
<1>3. operator' = [operator EXCEPT !.revisions = [operator.revisions EXCEPT ![Db] = n],
                                   !.pc = next, !.db = "observed"]
  BY <1>0, <1>1 DEF Operator
<1>4. /\ operator' \in Operator /\ Dir' = Dir /\ Db' = "observed"
      /\ operator'.pc = next
      /\ operator'.revisions = [operator.revisions EXCEPT ![Db] = n]
  BY <1>1, <1>2, <1>3 DEF Operator, Dbs, Dir, Db
<1>5. UNCHANGED <<data, writers, copies>>
  BY DEF ReadRevision
<1>6. TypeOK' /\ Attested' /\ RevisionNotBehind'
  BY <1>4, <1>5 DEF Sound, TypeOK, Attested, RevisionNotBehind, Complete, writers, copies, data
<1>7. operator.revisions \in [Dbs -> 0..MaxTx]
  BY <1>1 DEF Operator
<1>9. Progress'
  <2>1. CASE Db = "catalog"
    <3>1. Copied("catalog")'
      BY <1>4, <1>5, <1>1, <1>2, <1>7, <2>1 DEF Copied, copies
    <3> QED BY <1>1, <1>4, <2>1, <3>1 DEF Progress, At
  <2>2. CASE Db = "observed"
    <3>1. Copied("catalog")
      BY <1>1, <2>2 DEF Sound, Progress, At
    <3>2. \A db \in Dbs : Copied(db)'
      BY <1>1, <1>2, <1>4, <1>5, <1>7, <2>2, <3>1 DEF Copied, copies, Dbs
    <3> QED BY <1>1, <1>4, <2>2, <3>2 DEF Progress, At
  <2> QED BY <1>1, <2>1, <2>2 DEF Dbs
<1> QED BY <1>5, <1>6, <1>9 DEF Sound, data

LEMMA WriteManifestStep ==
  ASSUME Sound, WriteManifest
  PROVE  Sound'
<1>1. /\ operator \in Operator /\ Dir \in Dirs /\ operator.revisions \in [Dbs -> 0..MaxTx]
      /\ \A db \in Dbs : Copied(db)
  BY DEF Sound, TypeOK, Progress, WriteManifest, At, Operator
<1> DEFINE m == [digests |-> files[Dir], revisions |-> operator.revisions]
<1>2. files[Dir] \in [Dbs -> Found] /\ m \in Manifest
  BY <1>1, DataFacts DEF Copied, Manifest, Sound, TypeOK
<1>3. /\ manifest' \in [Dirs -> Manifest \union {NoManifest}] /\ manifest'[Dir] = m
      /\ \A d \in Dirs : d # Dir => manifest'[d] = manifest[d]
  BY <1>1, <1>2 DEF WriteManifest, Sound, TypeOK
<1>4. UNCHANGED <<data, writers, made, files>> /\ operator' = Idle
  BY DEF WriteManifest
<1>5. TypeOK'
  BY <1>3, <1>4, IdleFacts DEF Sound, TypeOK, writers, data
<1>6. Attested'
  <2> SUFFICES ASSUME NEW d \in Dirs, Complete(d)'
               PROVE  /\ manifest'[d].digests \in [Dbs -> Found]
                      /\ \A db \in Dbs : files'[d][db] # Missing
    BY DEF Attested
  <2>1. CASE d = Dir
    BY <1>2, <1>3, <1>4, <2>1, DataFacts
  <2>2. CASE d # Dir
    BY <1>3, <1>4, <2>2 DEF Sound, Attested, Complete
  <2> QED BY <2>1, <2>2
<1>7. RevisionNotBehind'
  <2> SUFFICES ASSUME NEW d \in Dirs, NEW db \in Dbs, Complete(d)',
                      manifest'[d].digests[db] # Unknown
               PROVE  Cardinality(manifest'[d].digests[db]) <= manifest'[d].revisions[db]
    BY DEF RevisionNotBehind
  <2>1. CASE d = Dir
    BY <1>1, <1>3, <2>1 DEF Copied
  <2>2. CASE d # Dir
    BY <1>3, <2>2 DEF Sound, RevisionNotBehind, Complete
  <2> QED BY <2>1, <2>2
<1>8. Progress'
  BY <1>4, IdleFacts DEF Progress, At
<1> QED BY <1>4, <1>5, <1>6, <1>7, <1>8 DEF Sound, data

-----------------------------------------------------------------------------
(* restore, and what may happen to either.                                 *)

LEMMA StartRestoreStep ==
  ASSUME Sound, StartRestore
  PROVE  Sound'
<1>1. PICK d \in Dirs : Verified(d) /\ operator' = [Idle EXCEPT !.pc = "put", !.dir = d]
  BY DEF StartRestore
<1>2. operator' \in Operator /\ operator'.pc = "put" /\ operator'.dir = d
      /\ operator'.db = "catalog"
  <2>1. operator' \in Operator
    BY <1>1, IdleFacts
  <2> QED BY <1>1, <2>1 DEF Idle
<1>3. UNCHANGED <<data, writers, copies>>
  BY DEF StartRestore
<1>4. TypeOK' /\ Attested' /\ RevisionNotBehind'
  BY <1>2, <1>3 DEF Sound, TypeOK, Attested, RevisionNotBehind, Complete, writers, copies, data
<1>5. Verified(d)'
  BY <1>1, <1>3 DEF Verified, copies
<1>6. Progress'
  BY <1>2, <1>5 DEF Progress, At, Dir, Db, Verified
<1> QED BY <1>3, <1>4, <1>6 DEF Sound, data

LEMMA PutFileStep ==
  ASSUME Sound, PutFile
  PROVE  Sound'
<1>1. /\ operator \in Operator /\ operator.pc = "put" /\ Dir \in Dirs /\ Db \in Dbs
      /\ Verified(Dir) /\ live \in [Dbs -> Found] /\ since \in [Dbs -> SUBSET Tx]
  BY DEF Sound, TypeOK, Progress, PutFile, At, Operator, Db
<1>2. files[Dir] = manifest[Dir].digests /\ files[Dir] \in [Dbs -> Found]
  BY <1>1 DEF Sound, Attested, Complete, Verified
<1>3. /\ live' \in [Dbs -> Found] /\ since' \in [Dbs -> SUBSET Tx]
      /\ live'[Db] \in {files[Dir][Db], Unknown} /\ since'[Db] = {}
      /\ \A db \in Dbs : db # Db => live'[db] = live[db] /\ since'[db] = since[db]
  BY <1>1, <1>2, DataFacts DEF PutFile
<1>4. UNCHANGED <<use, writers, copies>>
  BY DEF PutFile
<1>5. /\ operator' \in Operator /\ Dir' = Dir
      /\ Db = "catalog" => operator'.pc = "put" /\ Db' = "observed"
      /\ Db = "observed" => operator'.pc = "check"
  BY <1>1 DEF PutFile, Turn, Operator, Dbs, Dir, Db
<1>6. TypeOK'
  BY <1>3, <1>4, <1>5, DataFacts DEF Sound, TypeOK, writers, copies
<1>7. Attested' /\ RevisionNotBehind'
  BY <1>4 DEF Sound, Attested, RevisionNotBehind, Complete, copies
<1>8. Verified(Dir)'
  BY <1>1, <1>4, <1>5 DEF Verified, copies
<1>9. Progress'
  <2>2. CASE Db = "catalog"
    <3>1. Placed("catalog")'
      BY <1>1, <1>2, <1>3, <1>4, <1>5, <2>2 DEF Placed, copies, Dbs
    <3> QED BY <1>1, <1>5, <1>8, <2>2, <3>1 DEF Progress, At
  <2>3. CASE Db = "observed"
    <3>1. Placed("catalog")
      BY <1>1, <2>3 DEF Sound, Progress, At
    <3>2. ASSUME NEW db \in Dbs PROVE Placed(db)'
      BY <1>1, <1>2, <1>3, <1>4, <1>5, <2>3, <3>1 DEF Placed, Dbs, copies
    <3> QED BY <1>1, <1>5, <1>8, <2>3, <3>2 DEF Progress, At
  <2> QED BY <1>1, <2>2, <2>3 DEF Dbs
<1> QED BY <1>3, <1>6, <1>7, <1>9 DEF Sound

\* The operator's process ends, well or not.
LEMMA EndStep ==
  ASSUME Sound, FinishRestore \/ Crash
  PROVE  Sound'
<1>1. operator' = Idle /\ UNCHANGED <<data, writers, copies>>
  BY DEF FinishRestore, Crash
<1>2. TypeOK' /\ Attested' /\ RevisionNotBehind'
  BY <1>1, IdleFacts
     DEF Sound, TypeOK, Attested, RevisionNotBehind, Complete, writers, copies, data
<1>3. Progress'
  BY <1>1, IdleFacts DEF Progress, At
<1> QED BY <1>1, <1>2, <1>3 DEF Sound, data

LEMMA DamageStep ==
  ASSUME Sound, Damage
  PROVE  Sound'
<1>1. PICK d \in made, db \in Dbs : files' = [files EXCEPT ![d][db] = Damaged]
  BY DEF Damage
<1>2. d \in Dirs /\ files \in [Dirs -> [Dbs -> Content]]
  BY DEF Sound, TypeOK
<1>3. /\ files' \in [Dirs -> [Dbs -> Content]]
      /\ \A x \in Dirs, y \in Dbs :
           files'[x][y] = files[x][y] \/ files'[x][y] = Damaged
  BY <1>1, <1>2, DataFacts
<1>4. UNCHANGED <<data, writers, made, manifest, operator>> /\ At("idle")
  BY DEF Damage
<1>5. TypeOK' /\ RevisionNotBehind'
  BY <1>3, <1>4 DEF Sound, TypeOK, RevisionNotBehind, Complete, writers, data
<1>6. Attested'
  BY <1>3, <1>4, DataFacts DEF Sound, Attested, Complete
<1>7. Progress'
  BY <1>4 DEF Progress, At
<1> QED BY <1>4, <1>5, <1>6, <1>7 DEF Sound, data

LEMMA SoundStep ==
  ASSUME Sound, [Next]_vars
  PROVE  Sound'
<1>1. ASSUME UNCHANGED vars PROVE Sound'
  BY <1>1 DEF vars, writers, copies, Sound, TypeOK, Attested, RevisionNotBehind,
     Complete, Progress, At, Copied, Placed, Verified, Dir, Db
<1> QED BY <1>1, WritersStep, StartBackupStep, CopyFileStep, ReadRevisionStep,
       WriteManifestStep, StartRestoreStep, PutFileStep, EndStep, DamageStep DEF Next

-----------------------------------------------------------------------------
(* The theorems.                                                           *)

LEMMA AlwaysSound == Spec => []Sound
<1>1. Sound /\ [Next]_vars => Sound'
  BY SoundStep
<1> QED BY SoundInit, <1>1, PTL DEF Spec

\* Every variable keeps its type.
THEOREM TypeCorrect == Spec => []TypeOK
<1>1. Sound => TypeOK
  BY DEF Sound
<1> QED BY <1>1, AlwaysSound, PTL

\* The revision a manifest names is that of its copy or a later one.
THEOREM RevisionsFollowCopies == Spec => []RevisionNotBehind
<1>1. Sound => RevisionNotBehind
  BY DEF Sound
<1> QED BY <1>1, AlwaysSound, PTL

\* A directory has a manifest only once both of its copies were made.
THEOREM ManifestsMeanWhole == Spec => []OnlyWholeBackups
<1>1. Sound => OnlyWholeBackups
  BY DEF Sound, Attested, OnlyWholeBackups
<1> QED BY <1>1, AlwaysSound, PTL

\* After a restore a database nobody had in use is the backup's copy and every
\* transaction acknowledged since.
THEOREM RestoresAreWhole == Spec => RestoreIsWhole
<1> DEFINE Whole == At("check") /\ operator' = Idle =>
              \A db \in Dbs : live[db] # Unknown =>
                 live[db] = manifest[Dir].digests[db] \union since[db]
<1>1. Sound => Whole
  BY DEF Sound, Progress, Placed
<1>2. Sound /\ [Next]_vars => [Whole]_operator
  BY <1>1
<1>3. Spec => [][Whole]_operator
  BY <1>2, AlwaysSound, PTL DEF Spec
<1> QED BY <1>3 DEF RestoreIsWhole
===============================================================================
