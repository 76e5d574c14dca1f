-------------------------- MODULE CatalogStoreProofs --------------------------
(***************************************************************************)
(* Machine-checked theorems about CatalogStore, for any number of clients, *)
(* identities, files and calls.                                            *)
(***************************************************************************)
EXTENDS CatalogStore, TLAPS

-----------------------------------------------------------------------------
(* The operators of CatalogModel return catalogs.                          *)

LEMMA EmptyType == Empty \in Catalog
BY IdsAssumption DEF Empty, Catalog, EntityTable, NoteTable, Note, Policy

LEMMA OverlayType ==
  ASSUME NEW ent \in EntityTable, NEW ann \in NoteTable
  PROVE  Overlay(ent, ann) \in EntityTable
BY DEF Overlay, EntityTable, NoteTable, Entity, Note, Rows, Annotated

\* An overlay adds and removes no row, and no row changes its body.
LEMMA OverlayKeepsBodies ==
  ASSUME NEW ent \in EntityTable, NEW ann \in NoteTable
  PROVE  /\ Rows(Overlay(ent, ann)) = Rows(ent)
         /\ \A k \in Rows(ent) : Overlay(ent, ann)[k].body = ent[k].body
BY IdsAssumption DEF Overlay, EntityTable, NoteTable, Entity, Note, Rows, Annotated

LEMMA EditTypes ==
  ASSUME NEW cat \in Catalog, NEW k \in Ids, NEW b \in Bodies, NEW n \in Note
  PROVE  /\ AddTo(cat, k, b, n) \in Catalog
         /\ DeleteFrom(cat, k) \in Catalog
         /\ k \in Rows(cat.ent) => /\ UpdateIn(cat, k, b) \in Catalog
                                   /\ RenoteIn(cat, k, n) \in Catalog
                                   /\ AnnotateIn(cat, k, n) \in Catalog
<1>1. AddTo(cat, k, b, n) \in Catalog
  BY DEF AddTo, Catalog, EntityTable, Entity
<1>2. DeleteFrom(cat, k) \in Catalog
  BY DEF DeleteFrom, Catalog, EntityTable, NoteTable, Note
<1>3. ASSUME k \in Rows(cat.ent) PROVE UpdateIn(cat, k, b) \in Catalog
  BY <1>3 DEF UpdateIn, Catalog, EntityTable, Entity, Rows
<1>4. ASSUME k \in Rows(cat.ent) PROVE RenoteIn(cat, k, n) \in Catalog
  BY <1>4 DEF RenoteIn, Catalog, EntityTable, Entity, Rows
<1>5. ASSUME k \in Rows(cat.ent) PROVE AnnotateIn(cat, k, n) \in Catalog
  BY <1>5 DEF AnnotateIn, Catalog, EntityTable, NoteTable, Entity, Rows
<1> QED BY <1>1, <1>2, <1>3, <1>4, <1>5

LEMMA FileTypes ==
  ASSUME NEW f \in Files, NEW reg \in BOOLEAN
  PROVE  /\ Bundle(f) \in Catalog
         /\ Loaded(f, reg) \in Catalog
         /\ f.marks \in MarkTable
<1>1. f \in File
  BY RequestAssumption
<1>2. Bundle(f) \in Catalog /\ f.marks \in MarkTable
  BY <1>1 DEF Bundle, Catalog, File, StoredPolicy, Policy
<1>3. Restricted(f.ent, reg) \in EntityTable
  BY <1>1 DEF Restricted, File, EntityTable
<1>4. Loaded(f, reg) \in Catalog
  BY <1>1, <1>3, OverlayType DEF Loaded, Catalog, File
<1> QED BY <1>2, <1>4

LEMMA MixTypes ==
  ASSUME NEW cat \in Catalog, NEW other \in Catalog
  PROVE  Reloaded(cat, other) \in Catalog /\ Merged(cat, other) \in Catalog
<1>1. Reloaded(cat, other) \in Catalog
  BY DEF Reloaded, Catalog, NoteTable
<1>2. Merged(cat, other) \in Catalog
  BY DEF Merged, Catalog, EntityTable
<1> QED BY <1>1, <1>2

\* What a call carries, by its operation.
LEMMA RequestFields ==
  ASSUME NEW c \in Calls
  PROVE  /\ c.op \in EditOps \union FileOps \union Collections
         /\ c.op \in EditOps => c.key \in Ids
         /\ c.op \in {"add", "update"} => c.body \in Bodies
         /\ c.op = "add" => c.note \in Note
         /\ c.op \in {"renote", "annotate"} => c.note \in Notes
         /\ c.op \in Collections => c.mark \in Marks
         /\ c.op \in FileOps => c.file \in Files
<1>1. c \in Request
  BY RequestAssumption
<1> QED BY <1>1 DEF Request, EditOps, FileOps, Collections

-----------------------------------------------------------------------------
(* Type correctness.                                                       *)

LEMMA IdleType == Idle \in Session
BY EmptyType DEF Idle, Session, NoMarks, MarkTable

LEMMA ClientType ==
  ASSUME client \in [Clients -> Session], NEW p \in Clients, NEW s \in Session
  PROVE  [client EXCEPT ![p] = s] \in [Clients -> Session]
OBVIOUS

LEMMA StopType ==
  ASSUME client \in [Clients -> Session], NEW p \in Clients, Stop(p)
  PROVE  client' \in [Clients -> Session]
BY IdleType, ClientType DEF Stop

\* A client that is under way has a call.
Engaged == \A p \in Clients : client[p].pc # "idle" => client[p].call \in Calls

LEMMA OpType ==
  ASSUME Engaged, NEW p \in Clients, client[p].pc # "idle"
  PROVE  /\ client[p].call \in Calls
         /\ Op(p) \in EditOps \union FileOps \union Collections
         /\ Op(p) \in FileOps => client[p].call.file \in Files
         /\ Op(p) \in Collections => client[p].call.mark \in Marks
BY RequestFields DEF Engaged, Op

LEMMA SnapshotType ==
  ASSUME TypeOK, NEW p \in Clients
  PROVE  Snapshot(p) \in Catalog
BY DEF TypeOK, Snapshot, Session, Catalog

LEMMA ProposeType ==
  ASSUME TypeOK, NEW p \in Clients, NEW may, NEW cat, NEW changed \in SUBSET Ids,
         may => cat \in Catalog, Propose(p, may, cat, changed)
  PROVE  client' \in [Clients -> Session]
<1>1. CASE may /\ CheckPasses(cat)
  <2>1. client' = [client EXCEPT ![p] = [client[p] EXCEPT
                     !.pc = "begin", !.cat = cat, !.changed = changed]]
    BY <1>1 DEF Propose, TypeOK
  <2>2. [client[p] EXCEPT !.pc = "begin", !.cat = cat, !.changed = changed]
          \in Session
    BY <1>1 DEF TypeOK, Session
  <2> QED BY <2>1, <2>2, ClientType DEF TypeOK
<1>2. CASE ~(may /\ CheckPasses(cat))
  BY <1>2, StopType DEF Propose, TypeOK
<1> QED BY <1>1, <1>2

LEMMA RecordType ==
  ASSUME TypeOK, Engaged, NEW p \in Clients, client[p].pc # "idle", Record(p)
  PROVE  revision' \in Nat /\ audit' \in Seq(AuditRow)
BY OpType DEF TypeOK, Session, Record, NextRevision, AuditRow

\* Only commits change a table, and they keep the types.
LEMMA CommitType ==
  ASSUME TypeOK, Engaged, NEW p \in Clients, CommitCatalog(p)
  PROVE  TypeOK'
<1>1. client[p].cat \in Catalog
  BY DEF TypeOK, Session
<1>2. entities' \in EntityTable /\ annotations' \in NoteTable
  BY <1>1 DEF CommitCatalog, Catalog
<1>3. policy' \in Policy
  BY <1>1 DEF CommitCatalog, Catalog, StoredPolicy, Policy
<1>4. marks' \in MarkTable
  <2>1. Op(p) \in {"merge", "replace"} => client[p].call.file \in Files
    BY OpType DEF CommitCatalog, At, FileOps
  <2> QED BY <2>1, FileTypes DEF CommitCatalog, TypeOK
<1>5. revision' \in Nat /\ audit' \in Seq(AuditRow)
  BY RecordType DEF CommitCatalog, At
<1>6. client' \in [Clients -> Session]
  BY StopType DEF CommitCatalog, TypeOK
<1> QED BY <1>2, <1>3, <1>4, <1>5, <1>6 DEF CommitCatalog, Marked, TypeOK

LEMMA CommitMarkType ==
  ASSUME TypeOK, Engaged, NEW p \in Clients, CommitMark(p)
  PROVE  TypeOK'
<1>1. marks' \in MarkTable
  BY DEF CommitMark, TypeOK, Session, MarkTable
<1>2. revision' \in Nat /\ audit' \in Seq(AuditRow)
  BY RecordType DEF CommitMark, At
<1>3. client' \in [Clients -> Session]
  BY StopType DEF CommitMark, TypeOK
<1> QED BY <1>1, <1>2, <1>3 DEF CommitMark, TypeOK

\* Every other step of a client leaves the tables alone.
LEMMA SessionType ==
  ASSUME TypeOK, Engaged, NEW p \in Clients,
         Start(p) \/ Open(p) \/ Refused(p) \/ ReadEntities(p)
           \/ ReadAnnotations(p) \/ ReadList(p) \/ Begin(p) \/ Busy(p)
           \/ Rollback(p) \/ Crash(p)
  PROVE  client' \in [Clients -> Session]
<1> USE DEF TypeOK
<1>1. CASE Start(p)
  <2>1. PICK c \in Calls :
          client' = [client EXCEPT ![p] =
                       [Idle EXCEPT !.pc = "open", !.call = c, !.reg = enabled]]
    BY <1>1 DEF Start
  <2>2. [Idle EXCEPT !.pc = "open", !.call = c, !.reg = enabled] \in Session
    BY IdleType DEF Session
  <2> QED BY <2>1, <2>2, ClientType
<1>2. CASE Open(p)
  <2> DEFINE c == client[p].call
             s == [client[p] EXCEPT
                     !.pc      = AfterOpen(c.op),
                     !.seen    = revision,
                     !.cat     = IF c.op = "replace" THEN Bundle(c.file) ELSE @,
                     !.changed = IF c.op = "replace" THEN Rows(c.file.ent) ELSE @]
  <2>1. c.op = "replace" => Bundle(c.file) \in Catalog
    BY <1>2, OpType, FileTypes DEF Open, At, Op, FileOps
  <2>2. Rows(c.file.ent) \in SUBSET Ids
    BY DEF Rows
  <2>3. s \in Session
    BY <2>1, <2>2 DEF TypeOK, Session, AfterOpen
  <2>4. client' = [client EXCEPT ![p] = s]
    BY <1>2 DEF Open
  <2> QED BY <2>3, <2>4, ClientType
<1>3. CASE ReadEntities(p)
  <2> DEFINE s == [client[p] EXCEPT !.pc = "annotations", !.cat.ent = entities]
  <2>1. s \in Session
    BY DEF Session, Catalog
  <2>2. client' = [client EXCEPT ![p] = s] \/ Stop(p)
    BY <1>3 DEF ReadEntities
  <2> QED BY <2>1, <2>2, ClientType, StopType
<1>4. CASE ReadAnnotations(p)
  <2> DEFINE s == [client[p] EXCEPT !.pc = "policy", !.cat.ann = annotations,
                                    !.cat.ent = Overlay(@, annotations)]
  <2>1. Overlay(client[p].cat.ent, annotations) \in EntityTable
    BY OverlayType DEF Session, Catalog
  <2>2. s \in Session
    BY <2>1 DEF Session, Catalog
  <2>3. client' = [client EXCEPT ![p] = s] \/ Stop(p)
    BY <1>4 DEF ReadAnnotations
  <2> QED BY <2>2, <2>3, ClientType, StopType
<1>5. CASE ReadList(p)
  <2> DEFINE m == [marks EXCEPT ![Op(p)] = @ \union {client[p].call.mark}]
             s == [client[p] EXCEPT !.pc = "begin", !.marks = m]
  <2>1. Op(p) \in Collections => client[p].call.mark \in Marks
    BY <1>5, OpType DEF ReadList, At
  <2>2. m \in MarkTable
    BY <2>1 DEF MarkTable
  <2>3. s \in Session
    BY <2>2 DEF Session
  <2>4. client' = [client EXCEPT ![p] = s]
    BY <1>5 DEF ReadList
  <2> QED BY <2>3, <2>4, ClientType
<1>6. CASE Begin(p)
  BY <1>6 DEF Begin, Goto, Session
<1>7. CASE Refused(p) \/ Busy(p) \/ Rollback(p) \/ Crash(p)
  BY <1>7, StopType DEF Refused, Busy, Rollback, Crash
<1> QED BY <1>1, <1>2, <1>3, <1>4, <1>5, <1>6, <1>7

\* The step at which a client decides.
Decide(p) == Add(p) \/ Update(p) \/ Renote(p) \/ Annotate(p) \/ Delete(p)
             \/ Reload(p) \/ Merge(p)

LEMMA EditStepType ==
  ASSUME TypeOK, Engaged, NEW p \in Clients,
         Add(p) \/ Update(p) \/ Renote(p) \/ Annotate(p) \/ Delete(p)
  PROVE  client' \in [Clients -> Session]
<1> DEFINE c == client[p].call
           cat == Snapshot(p)
<1>1. cat \in Catalog
  BY SnapshotType
<1>2. c \in Calls
  BY OpType DEF Add, Update, Renote, Annotate, Delete, Propose, At
<1>3. /\ c.op \in EditOps => c.key \in Ids
      /\ c.op \in {"add", "update"} => c.body \in Bodies
      /\ c.op = "add" => c.note \in Note
      /\ c.op \in {"renote", "annotate"} => c.note \in Note
  BY <1>2, RequestFields DEF Note
<1>4. c.op \in EditOps => {c.key} \in SUBSET Ids
  BY <1>3
<1>5. CASE Add(p)
  <2>1. AddTo(cat, c.key, c.body, c.note) \in Catalog
    BY <1>1, <1>3, <1>5, EditTypes DEF Add, Op, EditOps
  <2> QED BY <1>4, <1>5, <2>1, ProposeType DEF Add, Op, EditOps
<1>6. CASE Update(p)
  <2>1. MayUpdate(cat, c.key, c.body) => UpdateIn(cat, c.key, c.body) \in Catalog
    BY <1>1, <1>3, <1>6, EditTypes DEF Update, Op, EditOps, MayUpdate, Note
  <2> QED BY <1>4, <1>6, <2>1, ProposeType DEF Update, Op, EditOps
<1>7. CASE Renote(p)
  <2>1. MayRenote(cat, c.key) => RenoteIn(cat, c.key, c.note) \in Catalog
    BY <1>1, <1>3, <1>7 DEF Renote, Op, EditOps, MayRenote, RenoteIn,
                            Catalog, EntityTable, Entity, Rows
  <2> QED BY <1>4, <1>7, <2>1, ProposeType DEF Renote, Op, EditOps
<1>8. CASE Annotate(p)
  <2>1. MayRenote(cat, c.key) => AnnotateIn(cat, c.key, c.note) \in Catalog
    BY <1>1, <1>3, <1>8 DEF Annotate, Op, EditOps, MayRenote, AnnotateIn,
                            Catalog, EntityTable, NoteTable, Entity, Rows
  <2> QED BY <1>4, <1>8, <2>1, ProposeType DEF Annotate, Op, EditOps
<1>9. CASE Delete(p)
  <2>1. DeleteFrom(cat, c.key) \in Catalog
    BY <1>1, <1>3, <1>9 DEF Delete, Op, EditOps, DeleteFrom,
                            Catalog, EntityTable, NoteTable, Note
  <2> QED BY <1>4, <1>9, <2>1, ProposeType DEF Delete, Op, EditOps
<1> QED BY <1>5, <1>6, <1>7, <1>8, <1>9

LEMMA ExchangeStepType ==
  ASSUME TypeOK, Engaged, NEW p \in Clients, Reload(p) \/ Merge(p)
  PROVE  client' \in [Clients -> Session]
<1> DEFINE f == client[p].call.file
           cat == Snapshot(p)
<1>1. cat \in Catalog
  BY SnapshotType
<1>2. client[p].reg \in BOOLEAN
  BY DEF TypeOK, Session
<1>3. f \in Files
  BY OpType DEF Reload, Merge, Propose, At, FileOps
<1>4. CASE Reload(p)
  <2> DEFINE tree == Loaded(f, client[p].reg)
  <2>1. tree \in Catalog
    BY <1>2, <1>3, FileTypes
  <2>2. Reloaded(cat, tree) \in Catalog
    BY <1>1, <2>1, MixTypes
  <2>3. Differing(cat, tree) \in SUBSET Ids
    BY DEF Differing
  <2> QED BY <1>4, <2>2, <2>3, ProposeType DEF Reload
<1>5. CASE Merge(p)
  <2> DEFINE merged == Merged(cat, Bundle(f))
  <2>1. merged \in Catalog
    BY <1>1, <1>2, <1>3, FileTypes, MixTypes
  <2>2. Rows(merged.ent) \in SUBSET Ids
    BY DEF Rows
  <2> QED BY <1>5, <2>1, <2>2, ProposeType DEF Merge
<1> QED BY <1>4, <1>5

LEMMA TypeInit == Init => TypeOK /\ Engaged
<1> SUFFICES ASSUME Init PROVE TypeOK /\ Engaged
  OBVIOUS
<1>1. TypeOK
  <2>1. entities \in EntityTable /\ annotations \in NoteTable /\ policy \in Policy
    BY EmptyType DEF Init, Catalog
  <2>2. marks \in MarkTable
    BY DEF Init, NoMarks, MarkTable
  <2>3. client \in [Clients -> Session]
    BY IdleType DEF Init
  <2>4. audit \in Seq(AuditRow)
    BY DEF Init
  <2> QED BY <2>1, <2>2, <2>3, <2>4 DEF Init, TypeOK
<1>2. Engaged
  BY DEF Init, Engaged, Idle
<1> QED BY <1>1, <1>2

LEMMA TypeNext == TypeOK /\ Engaged /\ [Next]_vars => TypeOK'
<1> SUFFICES ASSUME TypeOK, Engaged, [Next]_vars PROVE TypeOK'
  OBVIOUS
<1>1. CASE UNCHANGED vars
  BY <1>1 DEF TypeOK, vars
<1>2. CASE ToggleModule
  BY <1>2 DEF ToggleModule, TypeOK, tables
<1>3. ASSUME NEW p \in Clients, CommitCatalog(p) \/ CommitMark(p)
      PROVE  TypeOK'
  BY <1>3, CommitType, CommitMarkType
<1>4. ASSUME NEW p \in Clients, Decide(p)
      PROVE  TypeOK'
  <2>1. client' \in [Clients -> Session]
    BY <1>4, EditStepType, ExchangeStepType DEF Decide
  <2>2. UNCHANGED <<tables, lock, enabled>>
    BY <1>4 DEF Decide, Add, Update, Renote, Annotate, Delete, Reload, Merge, Propose
  <2> QED BY <2>1, <2>2 DEF TypeOK, tables
<1>5. ASSUME NEW p \in Clients,
             Start(p) \/ Open(p) \/ Refused(p) \/ ReadEntities(p)
               \/ ReadAnnotations(p) \/ ReadList(p) \/ Begin(p) \/ Busy(p)
               \/ Rollback(p) \/ Crash(p)
      PROVE  TypeOK'
  <2>1. client' \in [Clients -> Session]
    BY <1>5, SessionType
  <2>2. UNCHANGED tables /\ enabled' = enabled /\ lock' \in {lock, p, NoClient}
    BY <1>5 DEF Start, Open, Refused, ReadEntities, ReadAnnotations, ReadList,
                Begin, Busy, Rollback, Crash
  <2> QED BY <2>1, <2>2 DEF TypeOK, tables
<1> QED BY <1>1, <1>2, <1>3, <1>4, <1>5 DEF Next, Step, Decide

LEMMA EngagedNext == TypeOK /\ Engaged /\ [Next]_vars => Engaged'
<1> SUFFICES ASSUME TypeOK, Engaged, [Next]_vars,
                    NEW q \in Clients, client'[q].pc # "idle"
             PROVE  client'[q].call \in Calls
  BY DEF Engaged
<1> DEFINE Kept(p) == \/ Stop(p)
                      \/ /\ client[p].pc # "idle"
                         /\ \E s \in Session : /\ client' = [client EXCEPT ![p] = s]
                                               /\ s.call = client[p].call
<1>1. ASSUME NEW p \in Clients, Kept(p) PROVE client'[q].call \in Calls
  BY <1>1 DEF Stop, Idle, TypeOK, Engaged
<1>2. CASE UNCHANGED client
  BY <1>2 DEF Engaged
<1>3. ASSUME NEW p \in Clients, Start(p) PROVE client'[q].call \in Calls
  BY <1>3 DEF Start, Idle, TypeOK, Engaged
<1>4. ASSUME NEW p \in Clients, Step(p) \/ Crash(p) PROVE client'[q].call \in Calls
  <2>1. CASE Refused(p) \/ Busy(p) \/ CommitCatalog(p) \/ CommitMark(p)
             \/ Rollback(p) \/ Crash(p)
    BY <1>1, <2>1 DEF Refused, Busy, CommitCatalog, CommitMark, Rollback, Crash
  <2>2. CASE ~Stop(p) /\ client[p].pc # "idle" /\ client'[p].call = client[p].call
             /\ \A r \in Clients \ {p} : client'[r] = client[r]
    BY <2>2 DEF Engaged
  <2>3. CASE Open(p) \/ ReadEntities(p) \/ ReadAnnotations(p) \/ ReadList(p) \/ Begin(p)
    BY <1>1, <2>2, <2>3
       DEF Open, ReadEntities, ReadAnnotations, ReadList, Begin, Goto, At, TypeOK, Session
  <2>4. CASE Decide(p)
    BY <1>1, <2>2, <2>4
       DEF Decide, Add, Update, Renote, Annotate, Delete, Reload, Merge, Propose,
           At, TypeOK, Session
  <2> QED BY <1>4, <2>1, <2>3, <2>4 DEF Step, Decide
<1> QED BY <1>2, <1>3, <1>4 DEF Next, ToggleModule, vars

\* Every variable keeps its type, whatever the clients do.
THEOREM TypeCorrect == Spec => []TypeOK
<1>1. TypeOK /\ Engaged /\ [Next]_vars => (TypeOK /\ Engaged)'
  BY TypeNext, EngagedNext
<1> QED BY TypeInit, <1>1, PTL DEF Spec

-----------------------------------------------------------------------------
(* The tables.  Only a commit touches them, so each fact below comes down  *)
(* to what one commit writes.                                              *)

LEMMA OnlyCommitsWrite ==
  ASSUME [Next]_vars
  PROVE  \/ UNCHANGED tables
         \/ \E p \in Clients : CommitCatalog(p) \/ CommitMark(p)
<1>1. CASE UNCHANGED vars
  BY <1>1 DEF vars, tables
<1>2. CASE ToggleModule
  BY <1>2 DEF ToggleModule
<1>3. ASSUME NEW p \in Clients, Decide(p)
      PROVE  UNCHANGED tables
  BY <1>3 DEF Decide, Add, Update, Renote, Annotate, Delete, Reload, Merge, Propose
<1>4. ASSUME NEW p \in Clients,
             Start(p) \/ Open(p) \/ Refused(p) \/ ReadEntities(p)
               \/ ReadAnnotations(p) \/ ReadList(p) \/ Begin(p) \/ Busy(p)
               \/ Rollback(p) \/ Crash(p)
      PROVE  UNCHANGED tables
  BY <1>4 DEF Start, Open, Refused, ReadEntities, ReadAnnotations, ReadList,
              Begin, Busy, Rollback, Crash
<1> QED BY <1>1, <1>2, <1>3, <1>4 DEF Next, Step, Decide

\* Either kind of commit appends the one audit row of the next revision.
LEMMA CommitRecords ==
  ASSUME TypeOK, Engaged, NEW p \in Clients, CommitCatalog(p) \/ CommitMark(p)
  PROVE  /\ revision' = revision + 1
         /\ Len(audit') = Len(audit) + 1
         /\ audit'[Len(audit')].revision = revision + 1
         /\ \A i \in 1..Len(audit) : audit'[i] = audit[i]
         /\ SubSeq(audit', 1, Len(audit)) = audit
<1> DEFINE row == [revision |-> NextRevision, op |-> Op(p),
                   changed |-> client[p].changed]
<1>1. revision' = revision + 1 /\ audit' = Append(audit, row)
  BY DEF CommitCatalog, CommitMark, Record, NextRevision
<1>2. row \in AuditRow /\ audit \in Seq(AuditRow)
  BY OpType DEF TypeOK, Session, AuditRow, NextRevision, CommitCatalog, CommitMark, At
<1>3. SubSeq(audit', 1, Len(audit)) = audit
  BY <1>1, <1>2
<1> QED BY <1>1, <1>2, <1>3 DEF NextRevision

\* What the tables satisfy at every step.
TablesOK == AuditNumbersRevisions /\ NoOrphanAnnotation /\ MarkerCoversRows
StoreInv == TypeOK /\ Engaged /\ TablesOK

LEMMA TablesInit == Init => TablesOK
BY DEF Init, TablesOK, AuditNumbersRevisions, NoOrphanAnnotation, MarkerCoversRows,
       Empty, Annotated, Rows

LEMMA TablesNext == StoreInv /\ [Next]_vars => TablesOK'
<1> SUFFICES ASSUME StoreInv, [Next]_vars PROVE TablesOK'
  OBVIOUS
<1>1. CASE UNCHANGED tables
  BY <1>1 DEF tables, StoreInv, TablesOK, AuditNumbersRevisions, NoOrphanAnnotation,
              MarkerCoversRows
<1>2. ASSUME NEW p \in Clients, CommitCatalog(p) \/ CommitMark(p)
      PROVE  TablesOK'
  <2>1. AuditNumbersRevisions'
    <3>1. /\ revision' = revision + 1
          /\ Len(audit') = Len(audit) + 1
          /\ audit'[Len(audit')].revision = revision + 1
          /\ \A i \in 1..Len(audit) : audit'[i] = audit[i]
      BY <1>2, CommitRecords DEF StoreInv
    <3>2. Len(audit) = revision /\ revision \in Nat
      BY DEF StoreInv, TablesOK, AuditNumbersRevisions, TypeOK
    <3> QED BY <3>1, <3>2 DEF StoreInv, TablesOK, AuditNumbersRevisions
  <2>2. NoOrphanAnnotation'
    BY <1>2 DEF CommitCatalog, CommitMark, KeysHold, StoreInv, TablesOK, NoOrphanAnnotation
  <2>3. MarkerCoversRows'
    BY <1>2 DEF CommitCatalog, Marked, CommitMark, StoreInv, TablesOK, MarkerCoversRows
  <2> QED BY <2>1, <2>2, <2>3 DEF TablesOK
<1> QED BY <1>1, <1>2, OnlyCommitsWrite

LEMMA StoreInvariant == Spec => []StoreInv
<1>1. Init => StoreInv
  BY TypeInit, TablesInit DEF StoreInv
<1>2. StoreInv /\ [Next]_vars => StoreInv'
  BY TypeNext, EngagedNext, TablesNext DEF StoreInv
<1> QED BY <1>1, <1>2, PTL DEF Spec

\* Row i of the audit table carries revision i, and the last row is the store's
\* revision.
THEOREM AuditIsNumbered == Spec => []AuditNumbersRevisions
<1>1. StoreInv => AuditNumbersRevisions
  BY DEF StoreInv, TablesOK
<1> QED BY <1>1, StoreInvariant, PTL

\* No annotation is left without its entity.
THEOREM AnnotationsHaveEntities == Spec => []NoOrphanAnnotation
<1>1. StoreInv => NoOrphanAnnotation
  BY DEF StoreInv, TablesOK
<1> QED BY <1>1, StoreInvariant, PTL

\* A store with a Manifest row is marked as needing the module.
THEOREM MarkerIsSet == Spec => []MarkerCoversRows
<1>1. StoreInv => MarkerCoversRows
  BY DEF StoreInv, TablesOK
<1> QED BY <1>1, StoreInvariant, PTL

\* No step changes a table without its audit row or rewrites a row.
THEOREM EveryChangeIsAudited == Spec => ChangeIsAudited
<1>1. StoreInv /\ [Next]_vars
        => [/\ Len(audit') = Len(audit) + 1
            /\ SubSeq(audit', 1, Len(audit)) = audit
            /\ revision' = revision + 1]_tables
  BY OnlyCommitsWrite, CommitRecords DEF StoreInv
<1> QED BY <1>1, StoreInvariant, PTL DEF Spec, ChangeIsAudited

\* Nothing clears the marker.
THEOREM MarkerStays == Spec => MarkerNeverCleared
<1>1. [Next]_vars => [required => required']_required
  BY OnlyCommitsWrite DEF tables, CommitCatalog, Marked, CommitMark
<1> QED BY <1>1, PTL DEF Spec, MarkerNeverCleared

-----------------------------------------------------------------------------
(* The gate.  A proposed catalog has passed the checks, and an overlay does *)
(* not undo that, so what is stored passes too; the execution policy that   *)
(* no row keeps is the exception, and NoFileOptsIn rules it out.            *)

NoFileOptsIn == \A f \in Files : ~f.pol.allow

\* A client that is about to write a catalog holds one the checks accept.
Proposed ==
  \A p \in Clients :
    /\ client[p].pc = "open" /\ Op(p) = "replace"
         => CheckPasses(Bundle(client[p].call.file))
    /\ client[p].pc = "list" => Op(p) \in Collections
    /\ client[p].pc \in {"begin", "commit"} /\ Op(p) \notin Collections
         => CheckPasses(client[p].cat) /\ ~client[p].cat.pol.allow
GateInv == StoreInv /\ ~policy.allow /\ StoredPassesCheck /\ Proposed

LEMMA CheckIgnoresOverlay ==
  ASSUME NEW cat \in Catalog, CheckPasses(cat), ~cat.pol.allow,
         NEW pol \in Policy
  PROVE  CheckPasses([ent |-> Overlay(cat.ent, cat.ann), ann |-> cat.ann, pol |-> pol])
<1> DEFINE ent == Overlay(cat.ent, cat.ann)
           shown == [ent |-> ent, ann |-> cat.ann, pol |-> pol]
<1>1. /\ Rows(ent) = Rows(cat.ent)
      /\ \A k \in Rows(cat.ent) : ent[k].body = cat.ent[k].body
  BY OverlayKeepsBodies DEF Catalog
<1>2. \A k, b : Says(ent, k, b) <=> Says(cat.ent, k, b)
  BY <1>1 DEF Says
<1>3. Resolved(ent, CheckRefs)
  BY <1>1, <1>2 DEF CheckPasses, Resolved
<1>4. \A o \in OptIn : ~Says(ent, o[1], o[2])
  BY <1>2 DEF CheckPasses
<1>5. shown.ent = ent /\ shown.pol = pol
  OBVIOUS
<1> QED BY <1>3, <1>4, <1>5 DEF CheckPasses

LEMMA GateInit == Init => ~policy.allow /\ StoredPassesCheck /\ Proposed
<1> SUFFICES ASSUME Init PROVE ~policy.allow /\ StoredPassesCheck /\ Proposed
  OBVIOUS
<1>1. ~policy.allow
  BY DEF Init, Empty
<1>2. Rows(Readable.ent) = {}
  BY OverlayKeepsBodies, EmptyType DEF Init, Empty, Readable, Rows, Catalog
<1>3. StoredPassesCheck
  BY <1>2 DEF StoredPassesCheck, CheckPasses, Resolved, Says
<1>4. Proposed
  BY DEF Init, Proposed, Idle
<1> QED BY <1>1, <1>3, <1>4

LEMMA GateCommit ==
  ASSUME GateInv, NEW p \in Clients, CommitCatalog(p)
  PROVE  ~policy'.allow /\ StoredPassesCheck'
<1> DEFINE cat == client[p].cat
<1>1. cat \in Catalog /\ CheckPasses(cat) /\ ~cat.pol.allow
  BY DEF GateInv, StoreInv, TypeOK, Session, Proposed, CommitCatalog, At
<1>2. /\ entities' = cat.ent /\ annotations' = cat.ann
      /\ policy' = StoredPolicy(cat.pol)
  BY DEF CommitCatalog
<1>3. policy' \in Policy /\ ~policy'.allow
  BY <1>1, <1>2 DEF StoredPolicy, Policy, Catalog
<1>4. Readable' = [ent |-> Overlay(cat.ent, cat.ann), ann |-> cat.ann, pol |-> policy']
  BY <1>2 DEF Readable
<1>5. CheckPasses(Readable')
  BY <1>1, <1>3, <1>4, CheckIgnoresOverlay
<1> QED BY <1>3, <1>5 DEF StoredPassesCheck

\* Whatever a client decides comes with the policy it read or a file's.
Ready(p, cat) ==
  /\ CheckPasses(cat) /\ ~cat.pol.allow
  /\ \E changed : client' = [client EXCEPT ![p].pc = "begin", ![p].cat = cat,
                                           ![p].changed = changed]

LEMMA DecideReady ==
  ASSUME NoFileOptsIn, GateInv, NEW p \in Clients, Decide(p)
  PROVE  Stop(p) \/ \E cat : Ready(p, cat)
<1> DEFINE c   == client[p].call
           cat == Snapshot(p)
<1>1. cat \in Catalog /\ ~cat.pol.allow
  BY SnapshotType DEF GateInv, StoreInv, Snapshot, TypeOK, Session, Catalog
<1>2. ASSUME NEW may, NEW new, NEW changed, ~new.pol.allow,
             Propose(p, may, new, changed)
      PROVE  Stop(p) \/ \E x : Ready(p, x)
  BY <1>2 DEF Propose, Ready
<1>3. CASE Add(p)
  <2>1. ~AddTo(cat, c.key, c.body, c.note).pol.allow
    BY <1>1 DEF AddTo, Catalog
  <2> QED BY <1>2, <1>3, <2>1 DEF Add
<1>4. CASE Update(p)
  <2>1. ~UpdateIn(cat, c.key, c.body).pol.allow
    BY <1>1 DEF UpdateIn, Catalog
  <2> QED BY <1>2, <1>4, <2>1 DEF Update
<1>5. CASE Renote(p)
  <2>1. ~RenoteIn(cat, c.key, c.note).pol.allow
    BY <1>1 DEF RenoteIn, Catalog
  <2> QED BY <1>2, <1>5, <2>1 DEF Renote
<1>6. CASE Annotate(p)
  <2>1. ~AnnotateIn(cat, c.key, c.note).pol.allow
    BY <1>1 DEF AnnotateIn, Catalog
  <2> QED BY <1>2, <1>6, <2>1 DEF Annotate
<1>7. CASE Delete(p)
  <2>1. ~DeleteFrom(cat, c.key).pol.allow
    BY <1>1 DEF DeleteFrom, Catalog
  <2> QED BY <1>2, <1>7, <2>1 DEF Delete
<1>8. ASSUME Reload(p) \/ Merge(p)
      PROVE  c.file \in Files /\ client[p].reg \in BOOLEAN
  BY <1>8, OpType DEF Reload, Merge, Propose, At, FileOps, GateInv, StoreInv,
                      TypeOK, Session
<1>9. CASE Reload(p)
  <2> DEFINE tree == Loaded(c.file, client[p].reg)
  <2>1. tree \in Catalog /\ ~tree.pol.allow
    BY <1>8, <1>9, FileTypes DEF NoFileOptsIn, Loaded
  <2>2. ~Reloaded(cat, tree).pol.allow
    BY <2>1 DEF Reloaded, Catalog
  <2> QED BY <1>2, <1>9, <2>2 DEF Reload
<1>10. CASE Merge(p)
  <2>1. Bundle(c.file) \in Catalog /\ c.file \in File
    BY <1>8, <1>10, FileTypes, RequestAssumption
  <2>2. ~Bundle(c.file).pol.allow
    BY <2>1 DEF Bundle, StoredPolicy, File, Policy
  <2>3. ~Merged(cat, Bundle(c.file)).pol.allow
    BY <2>1, <2>2 DEF Merged, Catalog
  <2> QED BY <1>2, <1>10, <2>3 DEF Merge
<1> QED BY <1>3, <1>4, <1>5, <1>6, <1>7, <1>9, <1>10 DEF Decide

ProposedBy(s) ==
  /\ s.pc = "open" /\ s.call.op = "replace" => CheckPasses(Bundle(s.call.file))
  /\ s.pc = "list" => s.call.op \in Collections
  /\ s.pc \in {"begin", "commit"} /\ s.call.op \notin Collections
       => CheckPasses(s.cat) /\ ~s.cat.pol.allow

\* A step of one client changes its own session only.
LEMMA ProposedAfter ==
  ASSUME TypeOK, Proposed, NEW p \in Clients, NEW s, ProposedBy(s),
         client' = [client EXCEPT ![p] = s]
  PROVE  Proposed'
<1> SUFFICES ASSUME NEW q \in Clients PROVE ProposedBy(client'[q])
  BY DEF Proposed, ProposedBy, Op
<1>1. CASE q = p
  BY <1>1 DEF TypeOK
<1>2. CASE q # p
  <2>1. client'[q] = client[q]
    BY <1>2 DEF TypeOK
  <2> QED BY <2>1 DEF Proposed, ProposedBy, Op
<1> QED BY <1>1, <1>2

LEMMA ProposedStop ==
  ASSUME TypeOK, Proposed, NEW p \in Clients, Stop(p)
  PROVE  Proposed'
<1>1. ProposedBy(Idle)
  BY DEF ProposedBy, Idle
<1> QED BY <1>1, ProposedAfter DEF Stop

LEMMA ProposedSession ==
  ASSUME NoFileOptsIn, GateInv, NEW p \in Clients,
         Start(p) \/ Open(p) \/ Refused(p) \/ ReadEntities(p)
           \/ ReadAnnotations(p) \/ ReadList(p) \/ Begin(p) \/ Busy(p)
           \/ Rollback(p) \/ Crash(p)
  PROVE  Proposed'
<1> USE DEF GateInv, StoreInv
<1>0. client[p] \in Session
  BY DEF TypeOK
<1>1. CASE Start(p)
  <2>1. PICK c \in Calls :
          /\ Valid(c, enabled)
          /\ client' = [client EXCEPT ![p] =
               [Idle EXCEPT !.pc = "open", !.call = c, !.reg = enabled]]
    BY <1>1 DEF Start
  <2>2. ProposedBy([Idle EXCEPT !.pc = "open", !.call = c, !.reg = enabled])
    BY <2>1 DEF ProposedBy, Idle, Valid, BundleAccepts
  <2> QED BY <2>1, <2>2, ProposedAfter
<1>2. CASE Open(p)
  <2> DEFINE c == client[p].call
             s == [client[p] EXCEPT
                     !.pc      = AfterOpen(c.op),
                     !.seen    = revision,
                     !.cat     = IF c.op = "replace" THEN Bundle(c.file) ELSE @,
                     !.changed = IF c.op = "replace" THEN Rows(c.file.ent) ELSE @]
  <2>1. /\ s.pc = AfterOpen(c.op) /\ s.call = c
        /\ c.op = "replace" => s.cat = Bundle(c.file)
    BY <1>0 DEF Session
  <2>2. c.op = "replace" => CheckPasses(Bundle(c.file)) /\ ~Bundle(c.file).pol.allow
    <3>1. c.op = "replace" => c.file \in File
      BY <1>2, OpType, RequestAssumption DEF Open, At, Op, FileOps
    <3> QED BY <1>2, <3>1 DEF Open, At, Op, Proposed, Bundle, StoredPolicy, File, Policy
  <2>3. ProposedBy(s)
    BY <2>1, <2>2 DEF ProposedBy, AfterOpen
  <2>4. client' = [client EXCEPT ![p] = s]
    BY <1>2 DEF Open, TypeOK
  <2> QED BY <2>3, <2>4, ProposedAfter
<1>3. CASE ReadEntities(p)
  <2> DEFINE s == [client[p] EXCEPT !.pc = "annotations", !.cat.ent = entities]
  <2>1. ProposedBy(s)
    BY <1>0 DEF ProposedBy, Session
  <2>2. client' = [client EXCEPT ![p] = s] \/ Stop(p)
    BY <1>3 DEF ReadEntities
  <2> QED BY <2>1, <2>2, ProposedAfter, ProposedStop
<1>4. CASE ReadAnnotations(p)
  <2> DEFINE s == [client[p] EXCEPT !.pc = "policy", !.cat.ann = annotations,
                                    !.cat.ent = Overlay(@, annotations)]
  <2>1. ProposedBy(s)
    BY <1>0 DEF ProposedBy, Session
  <2>2. client' = [client EXCEPT ![p] = s] \/ Stop(p)
    BY <1>4 DEF ReadAnnotations
  <2> QED BY <2>1, <2>2, ProposedAfter, ProposedStop
<1>5. CASE ReadList(p)
  <2> DEFINE s == [client[p] EXCEPT !.pc = "begin",
                     !.marks = [marks EXCEPT ![Op(p)] = @ \union {client[p].call.mark}]]
  <2>1. s.call.op \in Collections /\ s.pc = "begin"
    BY <1>0, <1>5 DEF ReadList, Proposed, Op, At, Session
  <2>2. ProposedBy(s)
    BY <2>1 DEF ProposedBy
  <2>3. client' = [client EXCEPT ![p] = s]
    BY <1>5 DEF ReadList
  <2> QED BY <2>2, <2>3, ProposedAfter
<1>6. CASE Begin(p)
  <2> DEFINE s == [client[p] EXCEPT !.pc = "commit"]
  <2>1. ProposedBy(s)
    BY <1>0, <1>6 DEF Begin, At, Proposed, ProposedBy, Op, Session
  <2>2. client' = [client EXCEPT ![p] = s]
    BY <1>6 DEF Begin, Goto
  <2> QED BY <2>1, <2>2, ProposedAfter
<1>7. CASE Refused(p) \/ Busy(p) \/ Rollback(p) \/ Crash(p)
  BY <1>7, ProposedStop DEF Refused, Busy, Rollback, Crash
<1> QED BY <1>1, <1>2, <1>3, <1>4, <1>5, <1>6, <1>7

LEMMA ProposedDecide ==
  ASSUME NoFileOptsIn, GateInv, NEW p \in Clients, Decide(p)
  PROVE  Proposed'
<1>1. CASE Stop(p)
  BY <1>1, ProposedStop DEF GateInv, StoreInv
<1>2. ASSUME NEW cat, Ready(p, cat) PROVE Proposed'
  <2>1. PICK changed : client' = [client EXCEPT ![p].pc = "begin", ![p].cat = cat,
                                                ![p].changed = changed]
    BY <1>2 DEF Ready
  <2> DEFINE s == [client[p] EXCEPT !.pc = "begin", !.cat = cat, !.changed = changed]
  <2>2. s.pc = "begin" /\ s.cat = cat
    BY DEF GateInv, StoreInv, TypeOK, Session
  <2>3. ProposedBy(s)
    BY <1>2, <2>2 DEF ProposedBy, Ready
  <2>4. client' = [client EXCEPT ![p] = s]
    BY <2>1
  <2> QED BY <2>3, <2>4, ProposedAfter DEF GateInv, StoreInv
<1> QED BY <1>1, <1>2, DecideReady

LEMMA GateNext ==
  ASSUME NoFileOptsIn, GateInv, [Next]_vars
  PROVE  ~policy'.allow /\ StoredPassesCheck' /\ Proposed'
<1>1. ~policy'.allow /\ StoredPassesCheck'
  <2>1. CASE UNCHANGED tables
    BY <2>1 DEF tables, GateInv, StoredPassesCheck, Readable
  <2>2. ASSUME NEW p \in Clients, CommitCatalog(p)
        PROVE  ~policy'.allow /\ StoredPassesCheck'
    BY <2>2, GateCommit
  <2>3. ASSUME NEW p \in Clients, CommitMark(p)
        PROVE  ~policy'.allow /\ StoredPassesCheck'
    BY <2>3 DEF CommitMark, GateInv, StoredPassesCheck, Readable
  <2> QED BY <2>1, <2>2, <2>3, OnlyCommitsWrite
<1>2. Proposed'
  <2>1. CASE UNCHANGED client
    BY <2>1 DEF GateInv, Proposed, Op
  <2>2. ASSUME NEW p \in Clients, CommitCatalog(p) \/ CommitMark(p) PROVE Proposed'
    BY <2>2, ProposedStop DEF CommitCatalog, CommitMark, GateInv, StoreInv
  <2> QED BY <2>1, <2>2, ProposedSession, ProposedDecide
          DEF Next, Step, ToggleModule, vars, Decide
<1> QED BY <1>1, <1>2

\* If no file opts in to public pools, what a reader assembles from the tables
\* always passes the checks of the gate, however the writers overlap.
THEOREM GateHolds == NoFileOptsIn /\ Spec => []StoredPassesCheck
<1> SUFFICES ASSUME NoFileOptsIn PROVE Spec => []StoredPassesCheck
  OBVIOUS
<1>1. Init => GateInv
  BY TypeInit, TablesInit, GateInit DEF GateInv, StoreInv
<1>2. GateInv /\ [Next]_vars => GateInv'
  BY TypeNext, EngagedNext, TablesNext, GateNext DEF GateInv, StoreInv
<1>3. GateInv => StoredPassesCheck
  BY DEF GateInv
<1> QED BY <1>1, <1>2, <1>3, PTL DEF Spec

-----------------------------------------------------------------------------
(* A session nobody overtook computes what one serial call would compute:  *)
(* its snapshot is the catalog the database still holds, or the database   *)
(* has moved to a revision higher than the one the session saw.  This      *)
(* holds whoever passes expected_revision; when every client does,         *)
(* Conflict stops the overtaken ones and CatalogStore implements           *)
(* SerialCatalog.                                                          *)

\* What the call makes of the catalog `now`, in a process with `reg`.
Outcome(c, reg, now, cat, changed) ==
  \/ /\ c.op = "add" /\ MayAdd(now, c.key, c.body)
     /\ cat = AddTo(now, c.key, c.body, c.note) /\ changed = {c.key}
  \/ /\ c.op = "update" /\ MayUpdate(now, c.key, c.body)
     /\ cat = UpdateIn(now, c.key, c.body) /\ changed = {c.key}
  \/ /\ c.op = "renote" /\ MayRenote(now, c.key)
     /\ cat = RenoteIn(now, c.key, c.note) /\ changed = {c.key}
  \/ /\ c.op = "annotate" /\ MayRenote(now, c.key)
     /\ cat = AnnotateIn(now, c.key, c.note) /\ changed = {c.key}
  \/ /\ c.op = "delete" /\ MayDelete(now, c.key)
     /\ cat = DeleteFrom(now, c.key) /\ changed = {c.key}
  \/ /\ c.op = "load"
     /\ cat = Reloaded(now, Loaded(c.file, reg))
     /\ changed = Differing(now, Loaded(c.file, reg))
  \/ /\ c.op = "merge"
     /\ cat = Merged(now, Bundle(c.file)) /\ changed = Rows(cat.ent)
  \/ /\ c.op = "replace"
     /\ cat = Bundle(c.file) /\ changed = Rows(c.file.ent)

\* Whether a process may go on with its call on these tables.
MayGoOn(s, ent, req) ==
  s.reg \/ IF s.call.op = "load"
             THEN s.pc \in {"annotations", "policy", "begin", "commit"}
                    => Rows(ent) \subseteq Kinds(s.reg)
             ELSE ~req

\* The session s agrees with the tables.
Current(s, ent, ann, pol, req) ==
  /\ MayGoOn(s, ent, req)
  /\ s.pc = "annotations" => s.cat.ent = ent
  /\ s.pc = "policy" => s.cat.ent = Overlay(ent, ann) /\ s.cat.ann = ann
  /\ s.pc \in {"begin", "commit"}
       => Outcome(s.call, s.reg, [ent |-> Overlay(ent, ann), ann |-> ann, pol |-> pol],
                  s.cat, s.changed)

Started == {"entities", "annotations", "policy", "list", "begin", "commit"}

\* What holds of a session under way, current or not.
Fits(s, ent, ann, pol, req, rev) ==
  /\ s.pc # "idle" => Valid(s.call, s.reg)
  /\ s.pc = "list" => s.call.op \in Collections
  /\ s.pc = "open" \/ s.call.op \in Collections => s.changed = {}
  /\ s.pc \in Started => s.seen \in Nat /\ s.seen <= rev
  /\ s.pc \in {"begin", "commit"} /\ s.call.op \notin Collections
       => CheckPasses(s.cat)
  /\ s.pc \in Started /\ s.call.op \notin Collections /\ s.seen = rev
       => Current(s, ent, ann, pol, req)

AllFit == \A p \in Clients : Fits(client[p], entities, annotations, policy,
                                  required, revision)
RefineInv == StoreInv /\ AllFit /\ ~policy.allow

-----------------------------------------------------------------------------
(* The sessions.                                                           *)

LEMMA IdleFits ==
  ASSUME NEW ent, NEW ann, NEW pol, NEW req, NEW rev
  PROVE  Fits(Idle, ent, ann, pol, req, rev)
BY DEF Fits, Idle, Started, NoCall, Collections

\* A step of one client that leaves the tables alone disturbs no other client.
LEMMA FitAfter ==
  ASSUME TypeOK, AllFit, NEW p \in Clients, NEW s,
         Fits(s, entities, annotations, policy, required, revision),
         client' = [client EXCEPT ![p] = s], UNCHANGED tables
  PROVE  AllFit'
<1> SUFFICES ASSUME NEW q \in Clients
             PROVE  Fits(client'[q], entities, annotations, policy, required, revision)
  BY DEF AllFit, tables
<1>1. CASE q = p
  BY <1>1 DEF TypeOK
<1>2. CASE q # p
  <2>1. client'[q] = client[q]
    BY <1>2 DEF TypeOK
  <2> QED BY <2>1 DEF AllFit
<1> QED BY <1>1, <1>2

LEMMA FitStop ==
  ASSUME TypeOK, AllFit, NEW p \in Clients, Stop(p), UNCHANGED tables
  PROVE  AllFit'
BY IdleFits, FitAfter DEF Stop

LEMMA FitStart ==
  ASSUME RefineInv, NEW p \in Clients, Start(p)
  PROVE  AllFit'
<1>1. PICK c \in Calls :
        /\ Valid(c, enabled)
        /\ client' = [client EXCEPT ![p] =
             [Idle EXCEPT !.pc = "open", !.call = c, !.reg = enabled]]
  BY DEF Start
<1>2. Fits([Idle EXCEPT !.pc = "open", !.call = c, !.reg = enabled],
           entities, annotations, policy, required, revision)
  BY <1>1 DEF Fits, Idle, Started
<1> QED BY <1>1, <1>2, FitAfter DEF RefineInv, StoreInv, Start

LEMMA FitOpen ==
  ASSUME RefineInv, NEW p \in Clients, Open(p)
  PROVE  AllFit'
<1> USE DEF RefineInv, StoreInv
<1> DEFINE c == client[p].call
           s == [client[p] EXCEPT
                   !.pc      = AfterOpen(c.op),
                   !.seen    = revision,
                   !.cat     = IF c.op = "replace" THEN Bundle(c.file) ELSE @,
                   !.changed = IF c.op = "replace" THEN Rows(c.file.ent) ELSE @]
<1>1. client[p] \in Session /\ client[p].pc = "open"
  BY DEF TypeOK, Open, At
<1>2. /\ s.pc = AfterOpen(c.op) /\ s.call = c /\ s.reg = client[p].reg
      /\ s.seen = revision
      /\ c.op = "replace" => s.cat = Bundle(c.file) /\ s.changed = Rows(c.file.ent)
      /\ c.op # "replace" => s.changed = client[p].changed
  BY <1>1 DEF Session
<1>3. Valid(c, s.reg) /\ client[p].changed = {}
  BY <1>1, <1>2 DEF AllFit, Fits
<1>4. c.op = "replace" => CheckPasses(s.cat)
  BY <1>2, <1>3 DEF Valid, BundleAccepts
<1>5. s.reg \/ ~required \/ c.op = "load"
  BY <1>2 DEF Open, ModuleRefuses, Op
<1>6. s.reg \in BOOLEAN /\ revision \in Nat
  BY <1>1, <1>2 DEF Session, TypeOK
<1>7. AfterOpen(c.op) \in {"list", "begin", "entities"}
      /\ (AfterOpen(c.op) = "begin" => c.op = "replace")
      /\ (AfterOpen(c.op) = "list" => c.op \in Collections)
      /\ (c.op = "replace" => AfterOpen(c.op) = "begin" /\ c.op \notin Collections)
  BY DEF AfterOpen, Collections
<1> HIDE DEF s
<1>8. c.op \notin Collections => Current(s, entities, annotations, policy, required)
  BY <1>2, <1>3, <1>5, <1>6, <1>7 DEF Current, MayGoOn, Outcome
<1>9. Fits(s, entities, annotations, policy, required, revision)
  BY <1>2, <1>3, <1>4, <1>6, <1>7, <1>8 DEF Fits
<1>10. client' = [client EXCEPT ![p] = s] /\ UNCHANGED tables
  BY DEF Open, s
<1> QED BY <1>9, <1>10, FitAfter

LEMMA FitReads ==
  ASSUME RefineInv, NEW p \in Clients, ReadEntities(p) \/ ReadAnnotations(p)
  PROVE  AllFit'
<1> USE DEF RefineInv, StoreInv
<1>0. /\ client[p] \in Session
      /\ Fits(client[p], entities, annotations, policy, required, revision)
  BY DEF TypeOK, AllFit
<1>1. CASE ReadEntities(p)
  <2> DEFINE s == [client[p] EXCEPT !.pc = "annotations", !.cat.ent = entities]
  <2>1. /\ s.pc = "annotations" /\ s.call = client[p].call /\ s.reg = client[p].reg
        /\ s.seen = client[p].seen /\ s.changed = client[p].changed
        /\ s.cat.ent = entities
    BY <1>0 DEF Session, Catalog
  <2>2. client[p].pc = "entities" /\ UNCHANGED tables
    BY <1>1 DEF ReadEntities, At
  <2>3. \/ client' = [client EXCEPT ![p] = s] /\ Rows(entities) \subseteq Kinds(s.reg)
        \/ Stop(p)
    BY <1>1, <2>1 DEF ReadEntities
  <2> HIDE DEF s
  <2>4. Rows(entities) \subseteq Kinds(s.reg)
        => Fits(s, entities, annotations, policy, required, revision)
    BY <1>0, <2>1, <2>2 DEF Fits, Current, MayGoOn, Started
  <2> QED BY <2>2, <2>3, <2>4, FitAfter, FitStop
<1>2. CASE ReadAnnotations(p)
  <2> DEFINE s == [client[p] EXCEPT !.pc = "policy", !.cat.ann = annotations,
                                    !.cat.ent = Overlay(@, annotations)]
  <2>1. /\ s.pc = "policy" /\ s.call = client[p].call /\ s.reg = client[p].reg
        /\ s.seen = client[p].seen /\ s.changed = client[p].changed
        /\ s.cat.ent = Overlay(client[p].cat.ent, annotations)
        /\ s.cat.ann = annotations
    BY <1>0 DEF Session, Catalog
  <2>2. client[p].pc = "annotations" /\ UNCHANGED tables
    BY <1>2 DEF ReadAnnotations, At
  <2>3. client' = [client EXCEPT ![p] = s] \/ Stop(p)
    BY <1>2 DEF ReadAnnotations
  <2> HIDE DEF s
  <2>4. Fits(s, entities, annotations, policy, required, revision)
    BY <1>0, <2>1, <2>2 DEF Fits, Current, MayGoOn, Started
  <2> QED BY <2>2, <2>3, <2>4, FitAfter, FitStop
<1> QED BY <1>1, <1>2

LEMMA FitListBegin ==
  ASSUME RefineInv, NEW p \in Clients, ReadList(p) \/ Begin(p)
  PROVE  AllFit'
<1> USE DEF RefineInv, StoreInv
<1>0. /\ client[p] \in Session
      /\ Fits(client[p], entities, annotations, policy, required, revision)
  BY DEF TypeOK, AllFit
<1>1. CASE ReadList(p)
  <2> DEFINE s == [client[p] EXCEPT !.pc = "begin",
                     !.marks = [marks EXCEPT ![Op(p)] = @ \union {client[p].call.mark}]]
  <2>1. /\ s.pc = "begin" /\ s.call = client[p].call /\ s.reg = client[p].reg
        /\ s.seen = client[p].seen /\ s.changed = client[p].changed
    BY <1>0 DEF Session
  <2>2. /\ client[p].pc = "list" /\ UNCHANGED tables
        /\ client' = [client EXCEPT ![p] = s]
    BY <1>1 DEF ReadList, At
  <2> HIDE DEF s
  <2>3. Fits(s, entities, annotations, policy, required, revision)
    BY <1>0, <2>1, <2>2 DEF Fits, Started
  <2> QED BY <2>2, <2>3, FitAfter
<1>2. CASE Begin(p)
  <2> DEFINE s == [client[p] EXCEPT !.pc = "commit"]
  <2>1. /\ s.pc = "commit" /\ s.call = client[p].call /\ s.reg = client[p].reg
        /\ s.seen = client[p].seen /\ s.changed = client[p].changed
        /\ s.cat = client[p].cat
    BY <1>0 DEF Session
  <2>2. /\ client[p].pc = "begin" /\ UNCHANGED tables
        /\ client' = [client EXCEPT ![p] = s]
    BY <1>2 DEF Begin, Goto, At
  <2> HIDE DEF s
  <2>3. Fits(s, entities, annotations, policy, required, revision)
    BY <1>0, <2>1, <2>2 DEF Fits, Current, MayGoOn, Started
  <2> QED BY <2>2, <2>3, FitAfter
<1> QED BY <1>1, <1>2

\* A decision applies the call to the snapshot; if nothing was committed since
\* the snapshot was begun, that is the catalog of the tables.
LEMMA FitDecide ==
  ASSUME RefineInv, NEW p \in Clients, Decide(p)
  PROVE  AllFit'
<1> USE DEF RefineInv, StoreInv
<1> DEFINE c   == client[p].call
           now == Snapshot(p)
<1>0. /\ client[p] \in Session
      /\ Fits(client[p], entities, annotations, policy, required, revision)
  BY DEF TypeOK, AllFit
<1>1. client[p].pc = "policy" /\ UNCHANGED tables
  BY DEF Decide, Add, Update, Renote, Annotate, Delete, Reload, Merge, Propose, At
<1>2. client[p].seen = revision /\ c.op \notin Collections
        => now = Readable
  <2>1. now = [ent |-> client[p].cat.ent, ann |-> client[p].cat.ann, pol |-> policy]
    BY <1>0 DEF Snapshot, Session, Catalog
  <2> QED BY <1>0, <1>1, <2>1 DEF Fits, Current, Started, Readable
<1>3. ASSUME NEW may, NEW cat, NEW changed, c.op \notin Collections,
             may => Outcome(c, client[p].reg, now, cat, changed),
             Propose(p, may, cat, changed)
      PROVE  AllFit'
  <2> DEFINE s == [client[p] EXCEPT !.pc = "begin", !.cat = cat, !.changed = changed]
  <2>1. /\ s.pc = "begin" /\ s.call = c /\ s.reg = client[p].reg
        /\ s.seen = client[p].seen /\ s.changed = changed /\ s.cat = cat
    BY <1>0 DEF Session
  <2>2. \/ may /\ CheckPasses(cat) /\ client' = [client EXCEPT ![p] = s]
        \/ Stop(p)
    BY <1>3 DEF Propose
  <2> HIDE DEF s
  <2>3. may /\ CheckPasses(cat)
          => Fits(s, entities, annotations, policy, required, revision)
    BY <1>0, <1>1, <1>2, <1>3, <2>1 DEF Fits, Current, MayGoOn, Started, Readable
  <2> QED BY <1>1, <2>2, <2>3, FitAfter, FitStop
<1>4. CASE Add(p)
  BY <1>3, <1>4 DEF Add, Op, Outcome, Collections
<1>5. CASE Update(p)
  BY <1>3, <1>5 DEF Update, Op, Outcome, Collections
<1>6. CASE Renote(p)
  BY <1>3, <1>6 DEF Renote, Op, Outcome, Collections
<1>7. CASE Annotate(p)
  BY <1>3, <1>7 DEF Annotate, Op, Outcome, Collections
<1>8. CASE Delete(p)
  BY <1>3, <1>8 DEF Delete, Op, Outcome, Collections
<1>9. CASE Reload(p)
  BY <1>3, <1>9 DEF Reload, Op, Outcome, Collections
<1>10. CASE Merge(p)
  BY <1>3, <1>10 DEF Merge, Op, Outcome, Collections
<1> QED BY <1>4, <1>5, <1>6, <1>7, <1>8, <1>9, <1>10 DEF Decide

\* A commit raises the revision, so no session is current any more; the others
\* lose nothing else.
LEMMA FitCommit ==
  ASSUME RefineInv, NEW p \in Clients, CommitCatalog(p) \/ CommitMark(p)
  PROVE  AllFit'
<1> USE DEF RefineInv, StoreInv
<1>1. Stop(p) /\ revision' = revision + 1 /\ revision \in Nat
  BY CommitRecords DEF CommitCatalog, CommitMark, TypeOK
<1> SUFFICES ASSUME NEW q \in Clients
             PROVE  Fits(client'[q], entities', annotations', policy', required', revision')
  BY DEF AllFit
<1>2. CASE q = p
  <2>1. client'[q] = Idle
    BY <1>1, <1>2 DEF Stop, TypeOK
  <2> QED BY <2>1, IdleFits
<1>3. CASE q # p
  <2>1. client'[q] = client[q]
    BY <1>1, <1>3 DEF Stop, TypeOK
  <2>2. Fits(client[q], entities, annotations, policy, required, revision)
    BY DEF AllFit
  <2>3. client[q].pc \in Started => client[q].seen # revision' /\ client[q].seen <= revision'
    BY <1>1, <2>2 DEF Fits
  <2> QED BY <2>1, <2>2, <2>3 DEF Fits
<1> QED BY <1>2, <1>3

LEMMA RefineNext == RefineInv /\ [Next]_vars => RefineInv'
<1> SUFFICES ASSUME RefineInv, [Next]_vars PROVE RefineInv'
  OBVIOUS
<1>1. StoreInv'
  BY TypeNext, EngagedNext, TablesNext DEF RefineInv, StoreInv
<1>2. ~policy'.allow
  <2>1. ASSUME NEW p \in Clients, CommitCatalog(p) PROVE ~policy'.allow
    BY <2>1 DEF CommitCatalog, StoredPolicy, RefineInv, StoreInv, TypeOK, Session,
                Catalog, Policy
  <2> QED BY <2>1, OnlyCommitsWrite DEF RefineInv, tables, CommitMark
<1>3. AllFit'
  <2>1. CASE UNCHANGED <<tables, client>>
    BY <2>1 DEF RefineInv, AllFit, tables
  <2>2. ASSUME NEW p \in Clients, Refused(p) \/ Busy(p) \/ Rollback(p) \/ Crash(p)
        PROVE  AllFit'
    BY <2>2, FitStop DEF Refused, Busy, Rollback, Crash, RefineInv, StoreInv
  <2>3. ASSUME NEW p \in Clients, Start(p) \/ Step(p) \/ Crash(p)
        PROVE  AllFit'
    BY <2>2, <2>3, FitStart, FitOpen, FitReads, FitListBegin, FitDecide, FitCommit
    DEF Step, Decide
  <2>4. CASE ToggleModule
    BY <2>1, <2>4 DEF ToggleModule
  <2> QED BY <2>1, <2>3, <2>4 DEF Next, vars, tables
<1> QED BY <1>1, <1>2, <1>3 DEF RefineInv

LEMMA RefineInit == Init => RefineInv
<1>1. Init => ~policy.allow
  BY DEF Init, Empty
<1>2. Init => AllFit
  BY IdleFits DEF Init, AllFit
<1> QED BY <1>1, <1>2, TypeInit, TablesInit DEF RefineInv, StoreInv
-----------------------------------------------------------------------------
(* The operators of the abstract specification are those of CatalogModel.  *)

LEMMA SerialSets ==
  ASSUME NEW ent, NEW ann, NEW reg
  PROVE  /\ Serial!Rows(ent) = Rows(ent)
         /\ Serial!Annotated(ann) = Annotated(ann)
         /\ Serial!Kinds(reg) = Kinds(reg)
         /\ Serial!Overlay(ent, ann) = Overlay(ent, ann)
BY DEF Serial!Rows, Rows, Serial!Annotated, Annotated, Serial!Kinds, Kinds,
       Serial!Overlay, Overlay

LEMMA SerialChecks ==
  ASSUME NEW cat, NEW ent, NEW refs
  PROVE  /\ Serial!Resolved(ent, refs) = Resolved(ent, refs)
         /\ Serial!CheckPasses(cat) = CheckPasses(cat)
         /\ Serial!KeysHold(cat) = KeysHold(cat)
<1>1. \A e, k, b : Serial!Says(e, k, b) = Says(e, k, b)
  BY SerialSets DEF Serial!Says, Says
<1>2. \A e, r : Serial!Resolved(e, r) = Resolved(e, r)
  BY <1>1, SerialSets DEF Serial!Resolved, Resolved
<1>3. Serial!CheckPasses(cat) = CheckPasses(cat)
  BY <1>1, <1>2 DEF Serial!CheckPasses, CheckPasses
<1>4. Serial!KeysHold(cat) = KeysHold(cat)
  BY SerialSets DEF Serial!KeysHold, KeysHold
<1> QED BY <1>2, <1>3, <1>4

LEMMA SerialFiles ==
  ASSUME NEW cat, NEW other, NEW f, NEW reg
  PROVE  /\ Serial!Loaded(f, reg) = Loaded(f, reg)
         /\ Serial!Bundle(f) = Bundle(f)
         /\ Serial!Reloaded(cat, other) = Reloaded(cat, other)
         /\ Serial!Merged(cat, other) = Merged(cat, other)
         /\ Serial!Differing(cat, other) = Differing(cat, other)
         /\ Serial!LoaderAccepts(f, reg) = LoaderAccepts(f, reg)
         /\ Serial!BundleAccepts(f, reg) = BundleAccepts(f, reg)
<1>1. Serial!Restricted(f.ent, reg) = Restricted(f.ent, reg)
  BY SerialSets DEF Serial!Restricted, Restricted
<1>2. Serial!Loaded(f, reg) = Loaded(f, reg)
  BY <1>1, SerialSets DEF Serial!Loaded, Loaded
<1>3. Serial!Bundle(f) = Bundle(f)
  BY DEF Serial!Bundle, Bundle, Serial!StoredPolicy, StoredPolicy
<1>4. Serial!Reloaded(cat, other) = Reloaded(cat, other)
  BY SerialSets DEF Serial!Reloaded, Reloaded
<1>5. Serial!Merged(cat, other) = Merged(cat, other)
  BY SerialSets DEF Serial!Merged, Merged
<1>6. Serial!Differing(cat, other) = Differing(cat, other)
  BY DEF Serial!Differing, Differing
<1>7. Serial!LoaderAccepts(f, reg) = LoaderAccepts(f, reg)
  BY <1>1, SerialSets, SerialChecks DEF Serial!LoaderAccepts, LoaderAccepts
<1>8. Serial!BundleAccepts(f, reg) = BundleAccepts(f, reg)
  BY <1>3, SerialSets, SerialChecks DEF Serial!BundleAccepts, BundleAccepts
<1> QED BY <1>2, <1>3, <1>4, <1>5, <1>6, <1>7, <1>8

LEMMA SerialEdits ==
  ASSUME NEW cat, NEW k, NEW b, NEW n
  PROVE  /\ Serial!MayAdd(cat, k, b) = MayAdd(cat, k, b)
         /\ Serial!MayUpdate(cat, k, b) = MayUpdate(cat, k, b)
         /\ Serial!MayRenote(cat, k) = MayRenote(cat, k)
         /\ Serial!MayDelete(cat, k) = MayDelete(cat, k)
         /\ Serial!AddTo(cat, k, b, n) = AddTo(cat, k, b, n)
         /\ Serial!UpdateIn(cat, k, b) = UpdateIn(cat, k, b)
         /\ Serial!RenoteIn(cat, k, n) = RenoteIn(cat, k, n)
         /\ Serial!AnnotateIn(cat, k, n) = AnnotateIn(cat, k, n)
         /\ Serial!DeleteFrom(cat, k) = DeleteFrom(cat, k)
<1>0. \A ent, h : Serial!IsProvider(ent, h) = IsProvider(ent, h)
  BY SerialSets DEF Serial!IsProvider, IsProvider
<1>1. \A x, y : Serial!Authored(cat, x, y) = Authored(cat, x, y)
  <2>1. \A x, y : Serial!OnExternalHost(cat.ent, x, y) = OnExternalHost(cat.ent, x, y)
    BY <1>0, SerialSets DEF Serial!OnExternalHost, OnExternalHost
  <2> QED BY <2>1 DEF Serial!Authored, Authored
<1>2. Serial!MayAdd(cat, k, b) = MayAdd(cat, k, b)
  BY <1>1, SerialSets DEF Serial!MayAdd, MayAdd
<1>3. Serial!MayUpdate(cat, k, b) = MayUpdate(cat, k, b)
  BY <1>1, SerialSets DEF Serial!MayUpdate, MayUpdate
<1>4. Serial!MayRenote(cat, k) = MayRenote(cat, k)
  BY SerialSets DEF Serial!MayRenote, MayRenote
<1>5. Serial!MayDelete(cat, k) = MayDelete(cat, k)
  BY <1>1, SerialSets DEF Serial!MayDelete, MayDelete
<1>6. /\ Serial!AddTo(cat, k, b, n) = AddTo(cat, k, b, n)
      /\ Serial!UpdateIn(cat, k, b) = UpdateIn(cat, k, b)
      /\ Serial!RenoteIn(cat, k, n) = RenoteIn(cat, k, n)
      /\ Serial!AnnotateIn(cat, k, n) = AnnotateIn(cat, k, n)
      /\ Serial!DeleteFrom(cat, k) = DeleteFrom(cat, k)
  BY DEF Serial!AddTo, AddTo, Serial!UpdateIn, UpdateIn, Serial!RenoteIn, RenoteIn,
         Serial!AnnotateIn, AnnotateIn, Serial!DeleteFrom, DeleteFrom
<1> QED BY <1>2, <1>3, <1>4, <1>5, <1>6

LEMMA SerialValid ==
  ASSUME NEW c, NEW reg
  PROVE  Serial!Valid(c, reg) = Valid(c, reg)
<1>1. \A f : /\ Serial!LoaderAccepts(f, reg) = LoaderAccepts(f, reg)
             /\ Serial!BundleAccepts(f, reg) = BundleAccepts(f, reg)
  BY SerialFiles
<1> QED BY <1>1, SerialSets DEF Serial!Valid, Valid, Serial!EditOps, EditOps

LEMMA SerialStored == Serial!Stored = Readable
BY SerialSets DEF Serial!Stored, Readable

-----------------------------------------------------------------------------
(* Every step is a step of the abstract specification, or a stutter.       *)

\* A commit at the revision its session saw finds the session current.
LEMMA CommitIsCurrent ==
  ASSUME RefineInv, NEW p \in Clients, CommitCatalog(p), client[p].seen = revision
  PROVE  LET s == client[p] IN
         /\ s.call \in Calls /\ s.reg \in BOOLEAN /\ Valid(s.call, s.reg)
         /\ s.call.op \notin Collections
         /\ s.reg \/ IF s.call.op = "load" THEN Rows(entities) \subseteq Kinds(s.reg)
                                           ELSE ~required
         /\ CheckPasses(s.cat) /\ KeysHold(s.cat)
         /\ Outcome(s.call, s.reg, Readable, s.cat, s.changed)
<1> USE DEF RefineInv, StoreInv
<1> DEFINE s == client[p]
<1>1. s.pc = "commit" /\ s.call.op \notin Collections /\ KeysHold(s.cat)
  BY DEF CommitCatalog, At, Op
<1>2. s.call \in Calls /\ s.reg \in BOOLEAN
  BY <1>1, OpType DEF TypeOK, Session
<1>3. Fits(s, entities, annotations, policy, required, revision)
  BY DEF AllFit
<1>5. Current(s, entities, annotations, policy, required)
  BY <1>1, <1>3 DEF Fits, Started
<1>6. MayGoOn(s, entities, required)
  BY <1>5 DEF Current
<1> QED BY <1>1, <1>2, <1>3, <1>5, <1>6 DEF Fits, Current, MayGoOn, Readable

LEMMA CommitIsSerial ==
  ASSUME RefineInv, NEW p \in Clients, CommitCatalog(p), client[p].seen = revision
  PROVE  Serial!Next
<1> DEFINE s == client[p]
           c == s.call
<1>1. /\ c \in Calls /\ s.reg \in BOOLEAN /\ Valid(c, s.reg)
      /\ s.reg \/ IF c.op = "load" THEN Rows(entities) \subseteq Kinds(s.reg)
                                   ELSE ~required
      /\ CheckPasses(s.cat) /\ KeysHold(s.cat)
      /\ Outcome(c, s.reg, Readable, s.cat, s.changed)
  BY CommitIsCurrent
<1>2. Serial!Install(c.op, s.cat, s.changed)
  <2>1. /\ entities' = s.cat.ent /\ annotations' = s.cat.ann
        /\ policy' = StoredPolicy(s.cat.pol)
        /\ required' = (required \/ Rows(s.cat.ent) \intersect ManifestIds # {})
        /\ audit' = Append(audit, [revision |-> revision + 1, op |-> c.op,
                                   changed |-> s.changed])
    BY DEF CommitCatalog, Marked, Record, Op, NextRevision
  <2>2. Serial!StoredPolicy(s.cat.pol) = StoredPolicy(s.cat.pol)
    BY DEF Serial!StoredPolicy, StoredPolicy
  <2> QED BY <1>1, <2>1, <2>2, SerialSets, SerialChecks
          DEF Serial!Install, Serial!Log, Serial!NextRevision
<1>3. Serial!Edit(c) \/ Serial!Exchange(c, s.reg)
  BY <1>1, <1>2, SerialEdits, SerialFiles, SerialSets, SerialStored
  DEF Outcome, Serial!Edit, Serial!Exchange
<1>4. Serial!Change(c, s.reg)
  BY <1>1, <1>3, SerialValid, SerialSets DEF Serial!Change
<1>5. revision' = Serial!NextRevision
  BY DEF CommitCatalog, Record, NextRevision, Serial!NextRevision
<1> QED BY <1>1, <1>4, <1>5 DEF Serial!Next

LEMMA MarkIsSerial ==
  ASSUME RefineInv, NEW p \in Clients, CommitMark(p)
  PROVE  Serial!Next
<1> DEFINE c == client[p].call
<1>1. c \in Calls /\ c.op \in Collections /\ client[p].changed = {}
  BY OpType DEF CommitMark, At, Op, RefineInv, StoreInv, AllFit, Fits
<1>2. Serial!Mark(c)
  BY <1>1 DEF CommitMark, Record, Op, NextRevision, Serial!Mark, Serial!Log,
              Serial!NextRevision, Serial!Collections, Collections
<1>3. revision' = Serial!NextRevision
  BY DEF CommitMark, Record, NextRevision, Serial!NextRevision
<1> QED BY <1>1, <1>2, <1>3 DEF Serial!Next

EveryoneChecks == Checked = Clients

\* Conflict stops a commit that was overtaken.
LEMMA CheckedIsUndisturbed ==
  ASSUME EveryoneChecks, NEW p \in Clients, CommitCatalog(p)
  PROVE  client[p].seen = revision
BY DEF EveryoneChecks, CommitCatalog, Conflict

\* Clients that all pass the revision they read commit as if one call ran at a
\* time: CatalogStore implements SerialCatalog.
THEOREM CommitsAreSerial == EveryoneChecks /\ Spec => AppliesSerially
<1> SUFFICES ASSUME EveryoneChecks PROVE Spec => AppliesSerially
  OBVIOUS
<1>1. Init => Serial!Init
  BY DEF Init, Serial!Init, Empty, Serial!Empty
<1>2. RefineInv /\ [Next]_vars => [Serial!Next]_Serial!vars
  <2>1. RefineInv /\ [Next]_vars => Serial!Next \/ UNCHANGED tables
    BY CommitIsSerial, CheckedIsUndisturbed, MarkIsSerial, OnlyCommitsWrite
  <2> QED BY <2>1 DEF tables, Serial!vars
<1>3. RefineInv /\ [Next]_vars => RefineInv'
  BY RefineNext
<1> QED BY <1>1, <1>2, <1>3, RefineInit, PTL DEF Spec, AppliesSerially, Serial!Spec
-----------------------------------------------------------------------------
(* What the refinement buys: a commit compares with the database it        *)
(* replaces, not with the one its client read some time before.            *)

LEMMA ReadableType == TypeOK => Readable \in Catalog
BY OverlayType DEF TypeOK, Readable, Catalog

LEMMA LastRow ==
  ASSUME RefineInv, NEW p \in Clients, CommitCatalog(p) \/ CommitMark(p)
  PROVE  /\ audit'[Len(audit')].op = Op(p)
         /\ audit'[Len(audit')].changed = client[p].changed
<1>1. audit' = Append(audit, [revision |-> NextRevision, op |-> Op(p),
                              changed |-> client[p].changed])
  BY DEF CommitCatalog, CommitMark, Record
<1>2. audit \in Seq(AuditRow)
  BY DEF RefineInv, StoreInv, TypeOK
<1> QED BY <1>1, <1>2

\* An edit at `key` leaves the policy and every other entity and annotation.
LocalTo(cat, now, key) ==
  /\ cat.pol = now.pol
  /\ \A k \in Ids \ {key} : cat.ent[k] = now.ent[k] /\ cat.ann[k] = now.ann[k]

LEMMA EditsAreLocal ==
  ASSUME NEW now \in Catalog, NEW key \in Ids, NEW b, NEW n
  PROVE  /\ LocalTo(AddTo(now, key, b, n), now, key)
         /\ LocalTo(UpdateIn(now, key, b), now, key)
         /\ LocalTo(RenoteIn(now, key, n), now, key)
         /\ LocalTo(AnnotateIn(now, key, n), now, key)
         /\ LocalTo(DeleteFrom(now, key), now, key)
<1> USE DEF Catalog, EntityTable, NoteTable, LocalTo
<1>1. LocalTo(AddTo(now, key, b, n), now, key)
  BY DEF AddTo
<1>2. LocalTo(UpdateIn(now, key, b), now, key)
  BY DEF UpdateIn
<1>3. LocalTo(RenoteIn(now, key, n), now, key)
  BY DEF RenoteIn
<1>4. LocalTo(AnnotateIn(now, key, n), now, key)
  BY DEF AnnotateIn
<1>5. LocalTo(DeleteFrom(now, key), now, key)
  BY DEF DeleteFrom
<1> QED BY <1>1, <1>2, <1>3, <1>4, <1>5

\* A commit of an edit starts from the tables and differs from them at its key.
LEMMA EditIsLocal ==
  ASSUME RefineInv, NEW p \in Clients, CommitCatalog(p), client[p].seen = revision,
         Op(p) \in EditOps
  PROVE  LET key == client[p].call.key IN
         /\ key \in Ids /\ client[p].changed = {key}
         /\ policy' = policy
         /\ \A k \in Ids \ {key} : /\ entities'[k] = Readable.ent[k]
                                   /\ annotations'[k] = annotations[k]
<1> DEFINE s == client[p]
           c == s.call
<1>1. c \in Calls /\ c.op \in EditOps /\ Outcome(c, s.reg, Readable, s.cat, s.changed)
  BY CommitIsCurrent DEF Op
<1>2. c.key \in Ids
  BY <1>1, RequestFields
<1>3. Readable \in Catalog /\ Readable.ann = annotations /\ Readable.pol = policy
  BY ReadableType DEF RefineInv, StoreInv, Readable
<1>4. /\ s.changed = {c.key} /\ s.cat.pol = policy
      /\ \A k \in Ids \ {c.key} : /\ s.cat.ent[k] = Readable.ent[k]
                                  /\ s.cat.ann[k] = annotations[k]
  <2>1. /\ LocalTo(AddTo(Readable, c.key, c.body, c.note), Readable, c.key)
        /\ LocalTo(UpdateIn(Readable, c.key, c.body), Readable, c.key)
        /\ LocalTo(RenoteIn(Readable, c.key, c.note), Readable, c.key)
        /\ LocalTo(AnnotateIn(Readable, c.key, c.note), Readable, c.key)
        /\ LocalTo(DeleteFrom(Readable, c.key), Readable, c.key)
    BY <1>2, <1>3, EditsAreLocal
  <2>2. s.changed = {c.key} /\ LocalTo(s.cat, Readable, c.key)
    BY <1>1, <2>1 DEF Outcome, EditOps
  <2> QED BY <1>3, <2>2 DEF LocalTo
<1>5. /\ entities' = s.cat.ent /\ annotations' = s.cat.ann
      /\ policy' = StoredPolicy(s.cat.pol)
  BY DEF CommitCatalog
<1>6. StoredPolicy(policy) = policy
  BY DEF StoredPolicy, RefineInv, StoreInv, TypeOK, Policy
<1> QED BY <1>2, <1>4, <1>5, <1>6

LEMMA AlwaysRefines == Spec => []RefineInv
<1>1. RefineInv /\ [Next]_vars => RefineInv'
  BY RefineNext
<1> QED BY <1>1, RefineInit, PTL DEF Spec

\* No edit overwrites what was committed while it was being computed.
THEOREM UpdatesSurvive == EveryoneChecks /\ Spec => NoLostUpdate
<1> SUFFICES ASSUME EveryoneChecks PROVE Spec => NoLostUpdate
  OBVIOUS
<1> DEFINE Kept == Len(audit') > Len(audit) /\ EditRow(audit'[Len(audit')])
                     => OnlyNamed(audit'[Len(audit')])
<1>1. RefineInv /\ [Next]_vars => [Kept]_audit
  <2> SUFFICES ASSUME RefineInv, NEW p \in Clients, CommitCatalog(p) \/ CommitMark(p),
                      EditRow(audit'[Len(audit')])
               PROVE  OnlyNamed(audit'[Len(audit')])
    BY OnlyCommitsWrite DEF tables
  <2>1. Op(p) \in EditOps /\ CommitCatalog(p)
    BY LastRow DEF EditRow, CommitMark, Collections, EditOps
  <2> QED BY <2>1, LastRow, EditIsLocal, CheckedIsUndisturbed DEF OnlyNamed
<1>2. Spec => []RefineInv
  BY AlwaysRefines
<1>3. Spec => [][Kept]_audit
  BY <1>1, <1>2, PTL DEF Spec
<1> QED BY <1>3 DEF NoLostUpdate
-----------------------------------------------------------------------------
(* What a commit that nobody overtook keeps, in the shipped code.          *)

\* A client that is about to commit holds the write lock.
Locked == \A p \in Clients : At(p, "commit") => lock = p

LEMMA LockedNext == TypeOK /\ Locked /\ [Next]_vars => Locked'
<1> SUFFICES ASSUME TypeOK, Locked, [Next]_vars, NEW q \in Clients,
                    client'[q].pc = "commit"
             PROVE  lock' = q
  BY DEF Locked, At
<1> USE DEF TypeOK
<1>1. CASE UNCHANGED <<lock, client>>
  BY <1>1 DEF Locked, At
<1>2. ASSUME NEW p \in Clients, Begin(p) PROVE lock' = q
  <2>1. q # p => client'[q] = client[q]
    BY <1>2 DEF Begin, Goto
  <2> QED BY <1>2, <2>1, StoreAssumption DEF Begin, Locked, At
<1>3. ASSUME NEW p \in Clients, Stop(p), lock' \in {lock, NoClient},
             lock' # lock => lock = p
      PROVE  lock' = q
  <2>1. q # p /\ client'[q] = client[q]
    BY <1>3 DEF Stop, Idle
  <2> QED BY <1>3, <2>1 DEF Locked, At
<1>4. ASSUME NEW p \in Clients, lock' = lock, client'[p].pc # "commit",
             \A r \in Clients \ {p} : client'[r] = client[r]
      PROVE  lock' = q
  <2>1. q # p /\ client'[q] = client[q]
    BY <1>4
  <2> QED BY <1>4, <2>1 DEF Locked, At
<1>5. ASSUME NEW p \in Clients, Start(p) PROVE lock' = q
  <2>1. \E c \in Calls : client'[p] = [Idle EXCEPT !.pc = "open", !.call = c, !.reg = enabled]
    BY <1>5 DEF Start
  <2>2. client'[p].pc = "open"
    BY <2>1 DEF Idle
  <2>3. lock' = lock /\ \A r \in Clients \ {p} : client'[r] = client[r]
    BY <1>5 DEF Start
  <2> QED BY <1>4, <2>2, <2>3
<1>6. ASSUME NEW p \in Clients,
             Open(p) \/ ReadEntities(p) \/ ReadAnnotations(p) \/ ReadList(p) \/ Decide(p)
      PROVE  lock' = q
  <2>1. lock' = lock /\ \A r \in Clients \ {p} : client'[r] = client[r]
    BY <1>6 DEF Open, ReadEntities, ReadAnnotations, ReadList, Decide, Add, Update,
                Renote, Annotate, Delete, Reload, Merge, Propose, Stop
  <2>2. client'[p].pc # "commit"
    BY <1>6 DEF Open, ReadEntities, ReadAnnotations, ReadList, Decide, Add, Update,
                Renote, Annotate, Delete, Reload, Merge, Propose, Stop, Idle,
                AfterOpen, Session
  <2> QED BY <1>4, <2>1, <2>2
<1>7. ASSUME NEW p \in Clients,
             Refused(p) \/ Busy(p) \/ CommitCatalog(p) \/ CommitMark(p)
               \/ Rollback(p) \/ Crash(p)
      PROVE  lock' = q
  <2>1. At(p, "commit") => lock = p
    BY DEF Locked
  <2> QED BY <1>3, <1>7, <2>1
          DEF Refused, Busy, CommitCatalog, CommitMark, Rollback, Crash
<1> QED BY <1>1, <1>2, <1>5, <1>6, <1>7
        DEF Next, Step, ToggleModule, vars, Decide

LEMMA AlwaysLocked == Spec => [](RefineInv /\ Locked)
<1>1. Init => Locked
  BY DEF Init, Locked, At, Idle
<1>2. RefineInv /\ Locked /\ [Next]_vars => Locked'
  BY LockedNext DEF RefineInv, StoreInv
<1> QED BY <1>1, <1>2, AlwaysRefines, PTL DEF Spec

\* The one step an undisturbed commit of `p` can be.
LEMMA UndisturbedStep ==
  ASSUME RefineInv, Locked, [Next]_vars, NEW p \in Clients, Undisturbed(p)
  PROVE  (CommitCatalog(p) \/ CommitMark(p)) /\ client[p].seen = revision
<1>1. PICK q \in Clients : CommitCatalog(q) \/ CommitMark(q)
  BY OnlyCommitsWrite DEF Undisturbed, tables
<1>2. q = p
  BY <1>1 DEF Locked, CommitCatalog, CommitMark, Undisturbed
<1> QED BY <1>1, <1>2 DEF Undisturbed

\* A reload of the tree that nobody overtook loses no annotation.
THEOREM ReloadKeepsAnnotations == Spec => AnnotationsCarried
<1> DEFINE Kept == \A p \in Clients :
                     Undisturbed(p) /\ Op(p) = "load"
                       => Annotated(annotations) \subseteq Annotated(annotations')
<1>1. RefineInv /\ Locked /\ [Next]_vars => [Kept]_tables
  <2> SUFFICES ASSUME RefineInv, Locked, [Next]_vars, NEW p \in Clients,
                      Undisturbed(p), Op(p) = "load"
               PROVE  Annotated(annotations) \subseteq Annotated(annotations')
    OBVIOUS
  <2> DEFINE s == client[p]
             tree == Loaded(s.call.file, s.reg)
  <2>1. s.call.op = "load" /\ CommitCatalog(p) /\ s.seen = revision
    BY UndisturbedStep DEF CommitMark, Collections, Op
  <2>2. s.cat = Reloaded(Readable, tree)
    BY <2>1, CommitIsCurrent DEF Outcome
  <2>3. s.call.file \in Files /\ s.reg \in BOOLEAN
    BY <2>1, CommitIsCurrent, RequestFields DEF FileOps
  <2>4. tree \in Catalog /\ Readable.ann = annotations
    BY <2>3, FileTypes DEF Readable
  <2>5. annotations' = [k \in Ids |-> IF k \in Annotated(tree.ann)
                                        THEN tree.ann[k] ELSE annotations[k]]
    BY <2>1, <2>2, <2>4 DEF CommitCatalog, Reloaded, Catalog
  <2> QED BY <2>5 DEF Annotated
<1>2. Spec => [][Kept]_tables
  BY <1>1, AlwaysLocked, PTL DEF Spec
<1> QED BY <1>2 DEF AnnotationsCarried

\* What a source owns is not the gate's to change.
OwnedAlike(k) ==
  \/ k \in Rows(entities) /\ k \in Rows(entities')
       /\ entities'[k].body = entities[k].body
  \/ k \notin Rows(entities) /\ k \notin Rows(entities')
  \/ Provided(entities, k) /\ Provided(entities', k)

\* Whether k stands on a provider's host is up to the other records.
AlikeBut(e, f, k) == \A t \in Rows(e) \ {k} : t \in Rows(f) /\ e[t].body = f[t].body

LEMMA OthersDecide ==
  ASSUME NEW e, NEW f, NEW k \in Ids, NEW b, AlikeBut(e, f, k), OnExternalHost(e, k, b)
  PROVE  OnExternalHost(f, k, b)
<1>1. CASE <<k, b>> \in Providers
  BY <1>1 DEF OnExternalHost
<1>2. ASSUME NEW t \in Rows(e), <<k, b, t>> \in RunsOn,
             IsProvider(e, t) \/ \E h \in Ids : /\ <<t, e[t].body, h>> \in RunsOn
                                               /\ IsProvider(e, h)
      PROVE  OnExternalHost(f, k, b)
  <2>1. t \in Ids \ {k} /\ t \in Rows(f) /\ f[t].body = e[t].body
    <3>1. <<k, b, t>>[1] # <<k, b, t>>[3]
      BY <1>2, RunsOnAssumption
    <3> QED BY <1>2, <3>1 DEF AlikeBut, Rows
  <2>2. CASE IsProvider(e, t)
    BY <1>2, <2>1, <2>2 DEF IsProvider, OnExternalHost
  <2>3. ASSUME NEW h \in Ids, <<t, e[t].body, h>> \in RunsOn, IsProvider(e, h)
        PROVE  OnExternalHost(f, k, b)
    <3>1. <<t, e[t].body, h>>[3] # <<k, b, t>>[1]
      BY <1>2, <2>3, RunsOnAssumption
    <3>2. IsProvider(f, h)
      BY <2>3, <3>1 DEF IsProvider, AlikeBut
    <3> QED BY <1>2, <2>1, <2>3, <3>2 DEF OnExternalHost
  <2> QED BY <1>2, <2>2, <2>3
<1> QED BY <1>1, <1>2 DEF OnExternalHost

LEMMA EditLeavesOwned ==
  ASSUME RefineInv, NEW p \in Clients, CommitCatalog(p), client[p].seen = revision,
         Op(p) \in EditOps, NEW k \in Owned
  PROVE  OwnedAlike(k)
<1> DEFINE s == client[p]
           c == s.call
           now == Readable
<1>1. c \in Calls /\ c.op \in EditOps /\ Outcome(c, s.reg, now, s.cat, s.changed)
  BY CommitIsCurrent DEF Op
<1>2. c.key \in Ids /\ k \in Ids
  BY <1>1, RequestFields, IdsAssumption
<1>3. now \in Catalog /\ entities \in EntityTable /\ entities' = s.cat.ent
  BY ReadableType DEF RefineInv, StoreInv, TypeOK, CommitCatalog
<1>4. /\ Rows(now.ent) = Rows(entities)
      /\ \A x \in Rows(entities) : now.ent[x].body = entities[x].body
  BY OverlayKeepsBodies DEF Readable, RefineInv, StoreInv, TypeOK
<1>5. CASE c.key # k
  <2>1. entities'[k] = now.ent[k]
    BY <1>2, <1>5, EditIsLocal
  <2>2. k \in Rows(entities') <=> k \in Rows(entities)
    BY <1>2, <1>4, <2>1 DEF Rows
  <2> QED BY <1>4, <2>1, <2>2 DEF OwnedAlike
<1>6. CASE c.key = k
  <2>0. \A b : OnExternalHost(now.ent, k, b)
                => OnExternalHost(entities, k, b) /\ OnExternalHost(entities', k, b)
    <3>1. AlikeBut(now.ent, entities, k)
      BY <1>4 DEF AlikeBut
    <3>2. AlikeBut(now.ent, entities', k)
      BY <1>6, EditIsLocal DEF AlikeBut, Rows
    <3> QED BY <1>2, <3>1, <3>2, OthersDecide
  <2>1. CASE c.op = "add"
    <3>1. k \notin Rows(entities) /\ OnExternalHost(now.ent, k, c.body)
      BY <1>1, <1>4, <1>6, <2>1 DEF Outcome, MayAdd, Authored
    <3>2. entities'[k] = [body |-> c.body, note |-> c.note]
      BY <1>1, <1>2, <1>3, <1>6, <2>1 DEF Outcome, AddTo, Catalog, EntityTable
    <3> QED BY <2>0, <3>1, <3>2 DEF OwnedAlike, Provided
  <2>2. CASE c.op = "update"
    <3>1. k \in Rows(entities) /\ OnExternalHost(now.ent, k, now.ent[k].body)
          /\ OnExternalHost(now.ent, k, c.body)
      BY <1>1, <1>4, <1>6, <2>2 DEF Outcome, MayUpdate, Authored
    <3>2. entities'[k].body = c.body
      BY <1>1, <1>2, <1>3, <1>4, <1>6, <2>2, <3>1
      DEF Outcome, UpdateIn, Catalog, EntityTable, Entity, Rows
    <3> QED BY <1>4, <2>0, <3>1, <3>2 DEF OwnedAlike, Provided
  <2>3. CASE c.op \in {"renote", "annotate"}
    <3>1. k \in Rows(entities)
      BY <1>1, <1>4, <1>6, <2>3 DEF Outcome, MayRenote
    <3>2. now.ent[k] \in Entity /\ now.ent \in EntityTable
      BY <1>2, <1>3, <1>4, <3>1 DEF Rows, Catalog, EntityTable
    <3>3. entities'[k] = [now.ent[k] EXCEPT !.note = c.note]
      BY <1>1, <1>2, <1>3, <1>6, <2>3, <3>2
      DEF Outcome, RenoteIn, AnnotateIn, Catalog, EntityTable
    <3>4. entities'[k].body = now.ent[k].body
      BY <3>2, <3>3 DEF Entity
    <3>5. c.note \in Note
      BY <1>1, <2>3, RequestFields DEF Note
    <3>6. entities'[k] \in Entity
      BY <3>2, <3>3, <3>5 DEF Entity
    <3>7. entities'[k] # Absent
      BY <3>6, IdsAssumption DEF Entity, Note
    <3>8. k \in Rows(entities')
      BY <1>2, <3>7 DEF Rows
    <3> QED BY <1>4, <3>1, <3>4, <3>8 DEF OwnedAlike
  <2>4. CASE c.op = "delete"
    <3>1. k \in Rows(entities) /\ OnExternalHost(now.ent, k, now.ent[k].body)
      BY <1>1, <1>4, <1>6, <2>4 DEF Outcome, MayDelete, Authored
    <3>2. k \notin Rows(entities')
      BY <1>1, <1>2, <1>3, <1>6, <2>4 DEF Outcome, DeleteFrom, Catalog, EntityTable, Rows
    <3> QED BY <1>4, <2>0, <3>1, <3>2 DEF OwnedAlike, Provided
  <2> QED BY <1>1, <2>1, <2>2, <2>3, <2>4 DEF EditOps
<1> QED BY <1>5, <1>6

\* An edit that nobody overtook leaves alone what a source owns.
THEOREM SourcesKeepTheirs == Spec => SourceOwnedKept
<1> DEFINE Kept == \A p \in Clients : Undisturbed(p) /\ Op(p) \in EditOps
                                      => \A k \in Owned : OwnedAlike(k)
<1>1. RefineInv /\ Locked /\ [Next]_vars => [Kept]_tables
  <2> SUFFICES ASSUME RefineInv, Locked, [Next]_vars, NEW p \in Clients,
                      Undisturbed(p), Op(p) \in EditOps
               PROVE  \A k \in Owned : OwnedAlike(k)
    OBVIOUS
  <2>1. CommitCatalog(p) /\ client[p].seen = revision
    BY UndisturbedStep DEF CommitMark, Collections, EditOps
  <2> QED BY <2>1, EditLeavesOwned
<1>2. Spec => [][Kept]_tables
  BY <1>1, AlwaysLocked, PTL DEF Spec
<1> QED BY <1>2 DEF SourceOwnedKept, OwnedAlike

\* A commit of a process without the module: no Manifest row before or after.
LEMMA DormantCommit ==
  ASSUME RefineInv, NEW p \in Clients, CommitCatalog(p), client[p].seen = revision,
         ~client[p].reg,
         NEW k \in ManifestIds
  PROVE  entities'[k] = entities[k]
<1> DEFINE s == client[p]
           c == s.call
<1>1. /\ c \in Calls /\ s.reg = FALSE /\ Valid(c, FALSE) /\ k \in Ids
      /\ IF c.op = "load" THEN Rows(entities) \subseteq Kinds(FALSE) ELSE ~required
      /\ Outcome(c, FALSE, Readable, s.cat, s.changed)
  BY CommitIsCurrent, IdsAssumption
<1>2. entities \in EntityTable /\ entities' = s.cat.ent /\ Readable \in Catalog
  BY ReadableType DEF RefineInv, StoreInv, TypeOK, CommitCatalog
<1>3. k \notin Rows(entities) /\ k \notin Kinds(FALSE)
  BY <1>1 DEF Kinds, RefineInv, StoreInv, TablesOK, MarkerCoversRows
<1>4. entities[k] = Absent /\ Readable.ent[k] = Absent
  <2>1. Rows(Readable.ent) = Rows(entities)
    BY OverlayKeepsBodies DEF Readable, RefineInv, StoreInv, TypeOK
  <2> QED BY <1>1, <1>3, <2>1 DEF Rows
<1>5. CASE c.op = "load"
  <2>1. c.file \in File
    BY <1>1, <1>5, RequestFields, RequestAssumption DEF FileOps
  <2>2. entities' = Loaded(c.file, FALSE).ent
    <3>1. Loaded(c.file, FALSE) \in Catalog
      BY <1>1, <1>5, RequestFields, FileTypes DEF FileOps
    <3>2. Reloaded(Readable, Loaded(c.file, FALSE)).ent = Loaded(c.file, FALSE).ent
      BY <3>1 DEF Reloaded, Catalog
    <3> QED BY <1>1, <1>2, <1>5, <3>2 DEF Outcome
  <2>3. entities'[k] = Absent
    BY <1>1, <1>3, <2>2 DEF Loaded, Overlay, Restricted, Rows
  <2> QED BY <1>4, <2>3
<1>6. CASE c.op \in {"merge", "replace"}
  <2>1. c.file \in File
    BY <1>1, <1>6, RequestFields, RequestAssumption DEF FileOps
  <2>2. k \notin Rows(c.file.ent)
    BY <1>1, <1>3, <1>6 DEF Valid, BundleAccepts
  <2>3. c.op = "replace" => entities' = c.file.ent
    BY <1>1, <1>2 DEF Outcome, Bundle
  <2>4. c.op = "merge" => entities'[k] = Readable.ent[k]
    <3>1. Bundle(c.file).ent = c.file.ent
      BY DEF Bundle
    <3>2. c.op = "merge" => entities' = Merged(Readable, Bundle(c.file)).ent
      BY <1>1, <1>2 DEF Outcome
    <3>3. Bundle(c.file) \in Catalog
      BY <1>1, <1>6, RequestFields, FileTypes DEF FileOps
    <3>4. Merged(Readable, Bundle(c.file)).ent[k] = Readable.ent[k]
      BY <1>1, <2>2, <3>1, <3>3 DEF Merged, Catalog
    <3> QED BY <3>2, <3>4
  <2> QED BY <1>1, <1>4, <1>6, <2>2, <2>3, <2>4 DEF Rows
<1>7. CASE c.op \in EditOps
  <2>1. c.key \in Kinds(FALSE)
    BY <1>1, <1>7 DEF Valid
  <2>2. entities'[k] = Readable.ent[k]
    BY <1>1, <1>3, <1>7, <2>1, EditIsLocal DEF Op
  <2> QED BY <1>4, <2>2
<1> QED BY <1>1, <1>5, <1>6, <1>7 DEF Outcome, EditOps

\* A process that has the module disabled and was not overtaken changes none
\* of the module's rows.
THEOREM DormantRowsStay == Spec => DormantRowsUntouched
<1> DEFINE Kept == \A p \in Clients :
                     Undisturbed(p) /\ ~client[p].reg
                       => \A k \in ManifestIds : entities'[k] = entities[k]
<1>1. RefineInv /\ Locked /\ [Next]_vars => [Kept]_tables
  BY UndisturbedStep, DormantCommit DEF CommitMark
<1>2. Spec => [][Kept]_tables
  BY <1>1, AlwaysLocked, PTL DEF Spec
<1> QED BY <1>2 DEF DormantRowsUntouched
=============================================================================
