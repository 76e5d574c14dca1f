---------------------------- MODULE EvidenceProofs ----------------------------
(***************************************************************************)
(* Machine-checked theorems about Evidence, for any sources, methods,      *)
(* entities and values, and any number of runs, changes and decisions.     *)
(***************************************************************************)
EXTENDS Evidence, TLAPS

-----------------------------------------------------------------------------
(* What the operators return.                                              *)

LEMMA TimeFacts == Time \subseteq Nat /\ 0 \in Time /\ MaxClock \in Nat
BY EvidenceAssumption DEF Time

LEMMA NoSnapshotType == NoSnapshot \in Snapshot
BY TimeFacts DEF NoSnapshot, Snapshot, Empty, Estate

LEMMA RestingType == Resting \in Process
BY TimeFacts, NoSnapshotType
   DEF Resting, Process, Empty, Estate, Clear, Ledger

LEMMA RowsType ==
  ASSUME NEW s \in Sources, NEW snap \in Snapshot
  PROVE  Rows(s, snap) \subseteq Sources \X Time \X Entities \X Values
BY DEF Rows, Snapshot, Estate

\* A source's methods, and what they see.
LEMMA MethodsType ==
  ASSUME NEW s \in Sources
  PROVE  MethodsOf(s) \subseteq Methods
BY DEF MethodsOf

LEMMA FreshType ==
  ASSUME TypeOK, NEW r \in Runs, NEW s \in Sources,
         NEW answered \in SUBSET MethodsOf(s)
  PROVE  Fresh(r, s, answered) \in Snapshot
<1>1. run[r].now \in Time /\ estate \in Estate
  BY DEF TypeOK, Process
<1> QED BY <1>1, MethodsType DEF Fresh, Snapshot, Estate

LEMMA KeptType ==
  ASSUME TypeOK, NEW r \in Runs, NEW s \in Sources,
         NEW answered \in SUBSET MethodsOf(s)
  PROVE  Kept(r, s, answered) \in Snapshot
<1>1. run[r].now \in Time /\ run[r].sources[s] \in Snapshot
  BY DEF TypeOK, Process
<1> QED BY <1>1, MethodsType, NoSnapshotType DEF Kept, Snapshot, NoSnapshot

\* The record of a contest the source takes part in.
LEMMA ContestedType ==
  ASSUME NEW rec \in Record \union {NoRecord}, NEW cat \in Estate,
         NEW snap \in Snapshot, NEW c \in Contest, NEW now \in Time
  PROVE  Contested(rec, cat, snap, c, now) \in Record
<1>1. c[1][1] \in Entities
  BY DEF Contest, Subject
<1>2. DeclaredIn(cat, c) \in Said /\ ObservedIn(snap, c) \in Said
  BY <1>1 DEF DeclaredIn, ObservedIn, Said, Estate, Snapshot
<1>3. CASE rec = NoRecord
  BY <1>2, <1>3 DEF Contested, Record
<1>4. CASE rec # NoRecord
  <2>1. rec \in Record
    BY <1>4
  <2>2. (rec.flapping \/ rec.declared # DeclaredIn(cat, c)
           \/ rec.observed # ObservedIn(snap, c)) \in BOOLEAN
    OBVIOUS
  <2> QED BY <1>2, <1>4, <2>1, <2>2 DEF Contested, Record
<1> QED BY <1>3, <1>4

LEMMA UpdatedType ==
  ASSUME NEW ledger \in Ledger, NEW cat \in Estate, NEW snap \in Snapshot,
         NEW s \in Sources, NEW now \in Time
  PROVE  Updated(ledger, cat, snap, s, now) \in Ledger
<1>1. \A c \in Contest : Contested(ledger[c], cat, snap, c, now) \in Record
  BY ContestedType DEF Ledger
<1> QED BY <1>1 DEF Updated, Ledger

-----------------------------------------------------------------------------
(* Type correctness.                                                       *)

\* A run that is under way is at one of the configured sources.
Engaged == \A r \in Runs : run[r].pc # "idle" => run[r].i \in DOMAIN Order

LEMMA SourceType ==
  ASSUME Engaged, NEW r \in Runs, run[r].pc # "idle"
  PROVE  /\ Source(r) \in Sources
         /\ run[r].i \in 1..Len(Order)
         /\ Len(Order) \in Nat
BY EvidenceAssumption DEF Engaged, Source

\* A step of one run that gives it a state of its type, at a source.
LEMMA RunType ==
  ASSUME TypeOK, Engaged, NEW r \in Runs, NEW p \in Process,
         p.pc # "idle" => p.i \in DOMAIN Order,
         run' = [run EXCEPT ![r] = p]
  PROVE  run' \in [Runs -> Process] /\ Engaged'
<1>1. run' \in [Runs -> Process]
  BY DEF TypeOK
<1>2. ASSUME NEW q \in Runs, run'[q].pc # "idle"
      PROVE  run'[q].i \in DOMAIN Order
  BY <1>2 DEF TypeOK, Engaged
<1> QED BY <1>1, <1>2 DEF Engaged

LEMMA StartType ==
  ASSUME TypeOK, Engaged, NEW r \in Runs, Start(r)
  PROVE  TypeOK' /\ Engaged'
<1> DEFINE p == [Resting EXCEPT !.pc = "fetch", !.i = 1, !.now = clock,
                                !.declared = declared, !.sources = sources]
<1>1. p \in Process
  BY RestingType DEF Process, TypeOK
<1>2. p.pc = "fetch" /\ p.i = 1
  BY RestingType DEF Process
<1>3. 1 \in DOMAIN Order
  BY EvidenceAssumption DEF Start
<1>4. run' = [run EXCEPT ![r] = p]
  BY DEF Start
<1>5. run' \in [Runs -> Process] /\ Engaged'
  <2> HIDE DEF p
  <2> QED BY <1>1, <1>2, <1>3, <1>4, RunType
<1> QED BY <1>5 DEF Start, people, TypeOK

LEMMA FetchType ==
  ASSUME TypeOK, Engaged, NEW r \in Runs, Fetch(r)
  PROVE  TypeOK' /\ Engaged'
<1>1. run[r].pc = "fetch" /\ run[r] \in Process
  BY DEF Fetch, TypeOK
<1>2. PICK answered \in SUBSET MethodsOf(Source(r)) :
        LET fresh == Fresh(r, Source(r), answered)
            odd   == answered = {} \/ (fresh.ent = Empty /\ Source(r) \in EmptyIsOdd)
        IN run' = [run EXCEPT ![r].pc = "record",
                     ![r].answered = IF odd THEN {} ELSE answered,
                     ![r].got = IF odd THEN Kept(r, Source(r), answered) ELSE fresh]
  BY DEF Fetch
<1> DEFINE fresh == Fresh(r, Source(r), answered)
           odd   == answered = {} \/ (fresh.ent = Empty /\ Source(r) \in EmptyIsOdd)
           ms    == IF odd THEN {} ELSE answered
           got   == IF odd THEN Kept(r, Source(r), answered) ELSE fresh
           p     == [run[r] EXCEPT !.pc = "record", !.answered = ms, !.got = got]
<1>3. got \in Snapshot /\ ms \subseteq Methods
  BY <1>1, SourceType, KeptType, FreshType, MethodsType
<1>4. p \in Process /\ p.i = run[r].i
  <2> HIDE DEF ms, got
  <2> QED BY <1>1, <1>3 DEF Process
<1>5. run[r].i \in DOMAIN Order
  BY <1>1 DEF Engaged
<1>6. run' = [run EXCEPT ![r] = p]
  <2>1. run' = [run EXCEPT ![r].pc = "record", ![r].answered = ms, ![r].got = got]
    BY <1>2
  <2> HIDE DEF ms, got
  <2> QED BY <2>1 DEF TypeOK
<1>7. run' \in [Runs -> Process] /\ Engaged'
  <2> HIDE DEF p
  <2> QED BY <1>4, <1>5, <1>6, RunType
<1> QED BY <1>7 DEF Fetch, people, TypeOK

LEMMA RecordSourceType ==
  ASSUME TypeOK, Engaged, NEW r \in Runs, RecordSource(r)
  PROVE  TypeOK' /\ Engaged'
<1>1. run[r].pc = "record" /\ run[r] \in Process /\ run[r].got \in Snapshot
  BY DEF RecordSource, TypeOK, Process
<1>2. Source(r) \in Sources /\ run[r].i \in DOMAIN Order
  BY <1>1, SourceType DEF Engaged
<1> DEFINE p == [run[r] EXCEPT !.pc = "load"]
<1>3. p \in Process /\ p.i = run[r].i
  BY <1>1 DEF Process
<1>4. run' = [run EXCEPT ![r] = p]
  BY DEF RecordSource, TypeOK
<1>5. run' \in [Runs -> Process] /\ Engaged'
  <2> HIDE DEF p
  <2> QED BY <1>2, <1>3, <1>4, RunType
<1>6. sources' \in [Sources -> Snapshot]
  BY <1>1, <1>2 DEF RecordSource, TypeOK
<1>7. history' \subseteq Sources \X Time \X Entities \X Values
  BY <1>1, <1>2, RowsType DEF RecordSource, TypeOK
<1> QED BY <1>5, <1>6, <1>7 DEF RecordSource, people, TypeOK

LEMMA LoadLedgerType ==
  ASSUME TypeOK, Engaged, NEW r \in Runs, LoadLedger(r)
  PROVE  TypeOK' /\ Engaged'
<1>1. run[r].pc = "load" /\ run[r] \in Process
  BY DEF LoadLedger, TypeOK
<1> DEFINE new == Updated(trust, run[r].declared, run[r].got, Source(r), run[r].now)
           p == [run[r] EXCEPT !.pc = "save", !.trust = new]
<1>2. new \in Ledger
  BY <1>1, SourceType, UpdatedType DEF TypeOK, Process
<1>3. p \in Process /\ p.i = run[r].i
  <2> HIDE DEF new
  <2> QED BY <1>1, <1>2 DEF Process
<1>4. run' = [run EXCEPT ![r] = p]
  BY DEF LoadLedger, TypeOK
<1>5. run[r].i \in DOMAIN Order
  BY <1>1 DEF Engaged
<1>6. run' \in [Runs -> Process] /\ Engaged'
  <2> HIDE DEF p
  <2> QED BY <1>3, <1>4, <1>5, RunType
<1> QED BY <1>6 DEF LoadLedger, people, TypeOK

LEMMA ContinuedType ==
  ASSUME TypeOK, Engaged, NEW r \in Runs, run[r].pc # "idle"
  PROVE  /\ Continued(r) \in Process
         /\ Continued(r).pc # "idle" => Continued(r).i \in DOMAIN Order
<1>1. run[r] \in Process
  BY DEF TypeOK
<1>2. CASE run[r].i < Len(Order)
  <2>1. Continued(r) \in Process
    <3>1. Clear \in Ledger /\ run[r].i + 1 \in Nat
      BY SourceType DEF Clear, Ledger
    <3> QED BY <1>1, <1>2, <3>1, NoSnapshotType DEF Continued, Process
  <2>2. Continued(r).i = run[r].i + 1
    BY <1>1, <1>2 DEF Continued, Process
  <2>3. run[r].i + 1 \in DOMAIN Order
    BY <1>2, SourceType, EvidenceAssumption
  <2> QED BY <2>1, <2>2, <2>3
<1>3. CASE ~(run[r].i < Len(Order))
  BY <1>3, RestingType DEF Continued, Resting
<1> QED BY <1>2, <1>3

LEMMA SaveLedgerType ==
  ASSUME TypeOK, Engaged, NEW r \in Runs, SaveLedger(r)
  PROVE  TypeOK' /\ Engaged'
<1>1. run[r].pc = "save" /\ run[r] \in Process
  BY DEF SaveLedger, TypeOK
<1>2. run' = [run EXCEPT ![r] = Continued(r)]
  BY DEF SaveLedger
<1>3. run' \in [Runs -> Process] /\ Engaged'
  BY <1>1, <1>2, ContinuedType, RunType
<1>4. trust' \in Ledger
  BY <1>1 DEF SaveLedger, TypeOK, Process
<1> QED BY <1>3, <1>4 DEF SaveLedger, people, TypeOK

LEMMA CrashType ==
  ASSUME TypeOK, Engaged, NEW r \in Runs, Crash(r)
  PROVE  TypeOK' /\ Engaged'
<1>1. run' \in [Runs -> Process] /\ Engaged'
  BY RestingType, RunType DEF Crash, Resting
<1> QED BY <1>1 DEF Crash, people, TypeOK

LEMMA ChangedType ==
  ASSUME changes \in 0..MaxChanges, NEW table \in Estate, NEW table2,
         Changed(table, table2)
  PROVE  table2 \in Estate /\ changes' \in 0..MaxChanges
<1>1. PICK e \in Entities, v \in Values \union {Absent} :
        table2 = [table EXCEPT ![e] = v]
  BY DEF Changed
<1>2. changes' \in 0..MaxChanges
  BY EvidenceAssumption DEF Changed
<1> QED BY <1>1, <1>2 DEF Estate

\* What everybody else does leaves the runs and the databases' evidence alone.
LEMMA OthersType ==
  ASSUME TypeOK, Engaged
  PROVE  EstateChanges \/ CatalogEdit \/ Resolve \/ Acknowledge \/ Tick
           => TypeOK' /\ Engaged'
<1>1. EstateChanges \/ CatalogEdit \/ Resolve \/ Acknowledge \/ Tick => Engaged'
  BY DEF Engaged, EstateChanges, CatalogEdit, Resolve, Acknowledge, Tick
<1>2. ASSUME EstateChanges PROVE TypeOK'
  <2>1. estate' \in Estate /\ changes' \in 0..MaxChanges
    BY <1>2, EvidenceAssumption, ChangedType DEF EstateChanges, TypeOK
  <2> QED BY <1>2, <2>1 DEF EstateChanges, people, TypeOK
<1>3. ASSUME CatalogEdit PROVE TypeOK'
  <2>1. declared' \in Estate /\ changes' \in 0..MaxChanges
    BY <1>3, EvidenceAssumption, ChangedType DEF CatalogEdit, TypeOK
  <2> QED BY <1>3, <2>1 DEF CatalogEdit, people, TypeOK
<1>4. ASSUME Resolve PROVE TypeOK'
  <2>1. resolved' \in [Contest -> Resolutions \union {"none"}]
    BY <1>4 DEF Resolve, Listed, TypeOK
  <2> QED BY <1>4, <2>1 DEF Resolve, TypeOK
<1>5. ASSUME Acknowledge PROVE TypeOK'
  <2>1. deferred' \in [Entities \X Sources -> Time]
    BY <1>5 DEF Acknowledge, TypeOK
  <2> QED BY <1>5, <2>1 DEF Acknowledge, TypeOK
<1>6. ASSUME Tick PROVE TypeOK'
  <2>1. clock' \in Time
    BY <1>6, EvidenceAssumption DEF Tick, TypeOK, Time
  <2> QED BY <1>6, <2>1 DEF Tick, people, TypeOK
<1> QED BY <1>1, <1>2, <1>3, <1>4, <1>5, <1>6

LEMMA NextType ==
  ASSUME TypeOK, Engaged, [Next]_vars
  PROVE  TypeOK' /\ Engaged'
<1>1. ASSUME NEW r \in Runs, Start(r) \/ RunStep(r) \/ Crash(r)
      PROVE  TypeOK' /\ Engaged'
  BY <1>1, StartType, FetchType, RecordSourceType, LoadLedgerType,
     SaveLedgerType, CrashType DEF RunStep
<1>2. CASE UNCHANGED vars
  BY <1>2 DEF vars, people, TypeOK, Engaged
<1> QED BY <1>1, <1>2, OthersType DEF Next

LEMMA InitType == Init => TypeOK /\ Engaged
BY TimeFacts, EvidenceAssumption, NoSnapshotType, RestingType
   DEF Init, TypeOK, Engaged, Resting, Clear, Ledger

\* Every variable keeps its type.
THEOREM TypeCorrect == Spec => [](TypeOK /\ Engaged)
<1>1. Init => TypeOK /\ Engaged
  BY InitType
<1>2. TypeOK /\ Engaged /\ [Next]_vars => (TypeOK /\ Engaged)'
  BY NextType
<1> QED BY <1>1, <1>2, PTL DEF Spec

-----------------------------------------------------------------------------
(* The observation history.                                                *)

LEMMA HistoryStep ==
  ASSUME TypeOK, Engaged, CurrentIsInHistory, [Next]_vars
  PROVE  CurrentIsInHistory'
<1>1. ASSUME NEW r \in Runs, RecordSource(r)
      PROVE  CurrentIsInHistory'
  <2>1. Source(r) \in Sources
    BY <1>1, SourceType DEF RecordSource
  <2>2. SUFFICES ASSUME NEW s \in Sources
                 PROVE  Rows(s, sources'[s]) \subseteq history'
    BY DEF CurrentIsInHistory, Rows
  <2>3. CASE s = Source(r)
    BY <1>1, <2>1, <2>3 DEF RecordSource, TypeOK
  <2>4. CASE s # Source(r)
    BY <1>1, <2>1, <2>4 DEF RecordSource, TypeOK, CurrentIsInHistory
  <2> QED BY <2>3, <2>4
<1>2. ASSUME sources' = sources, history' = history
      PROVE  CurrentIsInHistory'
  BY <1>2 DEF CurrentIsInHistory, Rows
<1>3. ASSUME NEW r \in Runs, Start(r) \/ RunStep(r) \/ Crash(r)
      PROVE  CurrentIsInHistory'
  BY <1>1, <1>2, <1>3 DEF RunStep, Start, Fetch, LoadLedger, SaveLedger, Crash
<1>4. EstateChanges \/ CatalogEdit \/ Resolve \/ Acknowledge \/ Tick
        => CurrentIsInHistory'
  BY <1>2 DEF EstateChanges, CatalogEdit, Resolve, Acknowledge, Tick
<1>5. UNCHANGED vars => CurrentIsInHistory'
  BY <1>2 DEF vars
<1> QED BY <1>3, <1>4, <1>5 DEF Next

\* What the current evidence says is in the observation history, whatever
\* fails, crashes and overlaps.
THEOREM HistoryIsComplete == Spec => []CurrentIsInHistory
<1>1. Init => CurrentIsInHistory
  BY DEF Init, CurrentIsInHistory, Rows, NoSnapshot, Empty
<1>2. TypeOK /\ Engaged /\ CurrentIsInHistory /\ [Next]_vars => CurrentIsInHistory'
  BY HistoryStep
<1> QED BY <1>1, <1>2, TypeCorrect, PTL DEF Spec

-----------------------------------------------------------------------------
(* One run at a time.  Its copy of the evidence is out of date only for     *)
(* the sources it has recorded, and what it is about to save is the ledger  *)
(* in the database with changes the evidence in the database accounts for.  *)

Alone == \A r, q \in Runs : run[r].pc # "idle" /\ run[q].pc # "idle" => r = q

\* The evidence of source s says what the record of c says.
Says(snap, s, rec, c) ==
  /\ c[2] = s /\ snap.ok
  /\ c[1][1] \in Reach(s, snap.methods)
  /\ rec.observed = ObservedIn(snap, c)

\* `after` has every record of `before`, as old as it was, and differs from it
\* only where the evidence says so.
Follows(before, after, snap, s) ==
  \A c \in Contest :
    \/ after[c] = before[c]
    \/ /\ Says(snap, s, after[c], c)
       /\ after[c] # NoRecord
       /\ before[c] # NoRecord => after[c].first = before[c].first

Fits(r) ==
  LET s == Source(r) IN
  \* The copy holds for the sources still to be recorded.
  /\ \A j \in DOMAIN Order :
       \/ run[r].pc \in {"fetch", "record"} /\ j >= run[r].i
       \/ run[r].pc \in {"load", "save"} /\ j > run[r].i
       => run[r].sources[Order[j]] = sources[Order[j]]
  \* A source that answered nothing: its evidence of the copy, not ok.
  /\ run[r].pc = "record" /\ run[r].answered = {} /\ run[r].sources[s] # NoSnapshot
       => run[r].got = [run[r].sources[s] EXCEPT !.ok = FALSE]
  /\ run[r].pc \in {"load", "save"} => sources[s] = run[r].got
  /\ run[r].pc = "save" => Follows(trust, run[r].trust, run[r].got, s)

Steady == Alone /\ \A r \in Runs : Fits(r)

LEMMA UpdatedFollows ==
  ASSUME NEW ledger \in Ledger, NEW cat \in Estate, NEW snap \in Snapshot,
         NEW s \in Sources, NEW now \in Time
  PROVE  Follows(ledger, Updated(ledger, cat, snap, s, now), snap, s)
<1>1. SUFFICES ASSUME NEW c \in Contest,
                      Updated(ledger, cat, snap, s, now)[c] # ledger[c]
               PROVE  LET new == Updated(ledger, cat, snap, s, now)[c] IN
                      /\ Says(snap, s, new, c)
                      /\ new # NoRecord
                      /\ ledger[c] # NoRecord => new.first = ledger[c].first
  BY DEF Follows
<1>2. snap.ok /\ c \in Diverging(cat, snap, s)
  BY <1>1 DEF Updated
<1>3. Updated(ledger, cat, snap, s, now)[c] = Contested(ledger[c], cat, snap, c, now)
  BY <1>2 DEF Updated
<1>4. ledger[c] \in Record \union {NoRecord}
  BY DEF Ledger
<1>5. Contested(ledger[c], cat, snap, c, now) \in Record
  BY <1>4, ContestedType
<1>6. Contested(ledger[c], cat, snap, c, now) # NoRecord
  BY <1>5, TimeFacts DEF Record, NoRecord
<1>7. /\ Contested(ledger[c], cat, snap, c, now).observed = ObservedIn(snap, c)
      /\ ledger[c] # NoRecord
           => Contested(ledger[c], cat, snap, c, now).first = ledger[c].first
  BY <1>4 DEF Contested, Record
<1>8. c[2] = s /\ c[1][1] \in Reach(s, snap.methods)
  BY <1>2 DEF Diverging
<1> QED BY <1>2, <1>3, <1>6, <1>7, <1>8 DEF Says

LEMMA Others ==
  ASSUME Alone, NEW r \in Runs, run[r].pc # "idle"
  PROVE  \A q \in Runs : q # r => run[q].pc = "idle"
BY DEF Alone

\* While one run moves, the others rest, and an idle run has nothing to fit.
LEMMA OneMoves ==
  ASSUME TypeOK, NEW r \in Runs, NEW p, run' = [run EXCEPT ![r] = p],
         \A q \in Runs : q # r => run[q].pc = "idle",
         Fits(r)'
  PROVE  Steady'
<1>1. \A q \in Runs : q # r => run'[q].pc = "idle"
  BY DEF TypeOK
<1>2. Alone'
  BY <1>1 DEF Alone
<1>3. ASSUME NEW q \in Runs, q # r PROVE Fits(q)'
  BY <1>1, <1>3 DEF Fits
<1> QED BY <1>2, <1>3 DEF Steady

LEMMA StartFits ==
  ASSUME TypeOK, Overlap = FALSE, NEW r \in Runs, Start(r)
  PROVE  Steady'
<1> DEFINE p == [Resting EXCEPT !.pc = "fetch", !.i = 1, !.now = clock,
                                !.declared = declared, !.sources = sources]
<1>1. run' = [run EXCEPT ![r] = p] /\ \A q \in Runs : run[q].pc = "idle"
  BY DEF Start
<1>2. p.pc = "fetch" /\ p.sources = sources
  BY DEF Resting
<1>3. run'[r].pc = "fetch" /\ run'[r].sources = sources /\ sources' = sources
  BY <1>1, <1>2 DEF TypeOK, Start
<1>4. Fits(r)'
  BY <1>3 DEF Fits
<1> HIDE DEF p
<1> QED BY <1>1, <1>4, OneMoves

LEMMA FetchFits ==
  ASSUME TypeOK, Engaged, Steady, NEW r \in Runs, Fetch(r)
  PROVE  Steady'
<1>1. run[r].pc = "fetch" /\ run[r] \in Process
  BY DEF Fetch, TypeOK
<1>2. PICK answered \in SUBSET MethodsOf(Source(r)) :
        LET fresh == Fresh(r, Source(r), answered)
            odd   == answered = {} \/ (fresh.ent = Empty /\ Source(r) \in EmptyIsOdd)
        IN run' = [run EXCEPT ![r].pc = "record",
                     ![r].answered = IF odd THEN {} ELSE answered,
                     ![r].got = IF odd THEN Kept(r, Source(r), answered) ELSE fresh]
  BY DEF Fetch
<1> DEFINE fresh == Fresh(r, Source(r), answered)
           odd   == answered = {} \/ (fresh.ent = Empty /\ Source(r) \in EmptyIsOdd)
           ms    == IF odd THEN {} ELSE answered
           got   == IF odd THEN Kept(r, Source(r), answered) ELSE fresh
           p     == [run[r] EXCEPT !.pc = "record", !.answered = ms, !.got = got]
<1>3. ms = {} => got = Kept(r, Source(r), answered)
  OBVIOUS
<1>4. run' = [run EXCEPT ![r] = p]
  <2>1. run' = [run EXCEPT ![r].pc = "record", ![r].answered = ms, ![r].got = got]
    BY <1>2
  <2> HIDE DEF ms, got
  <2> QED BY <2>1 DEF TypeOK
<1>5. /\ p.pc = "record" /\ p.answered = ms /\ p.got = got
      /\ p.i = run[r].i /\ p.sources = run[r].sources
  <2> HIDE DEF ms, got
  <2> QED BY <1>1 DEF Process
<1> HIDE DEF p, ms, got
<1>6. run'[r] = p /\ sources' = sources
  BY <1>4 DEF TypeOK, Fetch
<1>7. Source(r)' = Source(r)
  BY <1>5, <1>6 DEF Source
<1>8. Fits(r)'
  <2>1. \A j \in DOMAIN Order : j >= run[r].i
          => run[r].sources[Order[j]] = sources[Order[j]]
    BY <1>1 DEF Steady, Fits
  <2>2. ms = {} /\ run[r].sources[Source(r)] # NoSnapshot
          => got = [run[r].sources[Source(r)] EXCEPT !.ok = FALSE]
    BY <1>3 DEF Kept
  <2> QED BY <1>5, <1>6, <1>7, <2>1, <2>2 DEF Fits
<1> QED BY <1>1, <1>4, <1>8, Others, OneMoves DEF Steady

LEMMA RecordSourceFits ==
  ASSUME TypeOK, Engaged, Steady, NEW r \in Runs, RecordSource(r)
  PROVE  Steady'
<1>1. run[r].pc = "record" /\ run[r] \in Process
  BY DEF RecordSource, TypeOK
<1> DEFINE p == [run[r] EXCEPT !.pc = "load"]
<1>2. run' = [run EXCEPT ![r] = p]
  BY DEF RecordSource, TypeOK
<1>3. /\ p.pc = "load" /\ p.got = run[r].got
      /\ p.i = run[r].i /\ p.sources = run[r].sources
  BY <1>1 DEF Process
<1> HIDE DEF p
<1>4. run'[r] = p
  BY <1>2 DEF TypeOK
<1>5. Source(r)' = Source(r) /\ Source(r) \in Sources /\ run[r].i \in DOMAIN Order
  BY <1>1, <1>3, <1>4, SourceType DEF Source, Engaged
<1>6. sources'[Source(r)] = run[r].got
  BY <1>5 DEF RecordSource, TypeOK
<1>7. ASSUME NEW j \in DOMAIN Order, j > run[r].i
      PROVE  run[r].sources[Order[j]] = sources'[Order[j]]
  <2>1. Order[j] # Source(r)
    BY <1>5, <1>7, EvidenceAssumption DEF Source
  <2>2. sources'[Order[j]] = sources[Order[j]]
    BY <2>1, <1>7, EvidenceAssumption DEF RecordSource, TypeOK
  <2>3. j >= run[r].i
    BY <1>5, <1>7, EvidenceAssumption
  <2> QED BY <1>1, <2>2, <2>3 DEF Steady, Fits
<1>8. Fits(r)'
  BY <1>3, <1>4, <1>5, <1>6, <1>7 DEF Fits
<1> QED BY <1>1, <1>2, <1>8, Others, OneMoves DEF Steady

LEMMA LoadLedgerFits ==
  ASSUME TypeOK, Engaged, Steady, NEW r \in Runs, LoadLedger(r)
  PROVE  Steady'
<1>1. run[r].pc = "load" /\ run[r] \in Process
  BY DEF LoadLedger, TypeOK
<1> DEFINE new == Updated(trust, run[r].declared, run[r].got, Source(r), run[r].now)
           p == [run[r] EXCEPT !.pc = "save", !.trust = new]
<1>2. Follows(trust, new, run[r].got, Source(r))
  BY <1>1, SourceType, UpdatedFollows DEF TypeOK, Process
<1> HIDE DEF new
<1>3. run' = [run EXCEPT ![r] = p]
  BY DEF LoadLedger, TypeOK, new
<1>4. /\ p.pc = "save" /\ p.got = run[r].got /\ p.trust = new
      /\ p.i = run[r].i /\ p.sources = run[r].sources
  BY <1>1 DEF Process
<1> HIDE DEF p
<1>5. run'[r] = p /\ sources' = sources /\ trust' = trust
  BY <1>3 DEF TypeOK, LoadLedger
<1>6. Source(r)' = Source(r)
  BY <1>4, <1>5 DEF Source
<1>7. Follows(trust', p.trust, p.got, Source(r)')
  BY <1>2, <1>4, <1>5, <1>6
<1>8. Fits(r)'
  <2>1. \A j \in DOMAIN Order : j > run[r].i
          => run[r].sources[Order[j]] = sources[Order[j]]
    BY <1>1 DEF Steady, Fits
  <2>2. sources[Source(r)] = run[r].got
    BY <1>1 DEF Steady, Fits
  <2> QED BY <1>4, <1>5, <1>6, <1>7, <2>1, <2>2 DEF Fits
<1> QED BY <1>1, <1>3, <1>8, Others, OneMoves DEF Steady

LEMMA SaveLedgerFits ==
  ASSUME TypeOK, Engaged, Steady, NEW r \in Runs, SaveLedger(r)
  PROVE  Steady'
<1>1. run[r].pc = "save" /\ run[r] \in Process
  BY DEF SaveLedger, TypeOK
<1>2. run' = [run EXCEPT ![r] = Continued(r)] /\ sources' = sources
  BY DEF SaveLedger
<1>3. run'[r] = Continued(r)
  BY <1>2 DEF TypeOK
<1>4. Fits(r)'
  <2>1. CASE run[r].i < Len(Order)
    <3>1. /\ Continued(r).pc = "fetch" /\ Continued(r).i = run[r].i + 1
          /\ Continued(r).sources = run[r].sources
      BY <1>1, <2>1 DEF Continued, Process
    <3>2. ASSUME NEW j \in DOMAIN Order, j >= run[r].i + 1
          PROVE  run[r].sources[Order[j]] = sources[Order[j]]
      <4>1. j > run[r].i
        BY <3>2, <1>1, SourceType, EvidenceAssumption
      <4> QED BY <1>1, <4>1 DEF Steady, Fits
    <3> QED BY <1>2, <1>3, <3>1, <3>2 DEF Fits
  <2>2. CASE ~(run[r].i < Len(Order))
    <3>1. Continued(r).pc = "idle"
      BY <2>2 DEF Continued, Resting
    <3> QED BY <1>3, <3>1 DEF Fits
  <2> QED BY <2>1, <2>2
<1> QED BY <1>1, <1>2, <1>4, Others, OneMoves DEF Steady

LEMMA CrashFits ==
  ASSUME TypeOK, Steady, NEW r \in Runs, Crash(r)
  PROVE  Steady'
<1>1. run[r].pc # "idle" /\ run' = [run EXCEPT ![r] = Resting]
  BY DEF Crash
<1>2. Fits(r)'
  BY <1>1 DEF TypeOK, Fits, Resting
<1> QED BY <1>1, <1>2, Others, OneMoves DEF Steady

LEMMA SteadyStep ==
  ASSUME TypeOK, Engaged, Overlap = FALSE, Steady, [Next]_vars
  PROVE  Steady'
<1>1. ASSUME NEW r \in Runs, Start(r) \/ RunStep(r) \/ Crash(r)
      PROVE  Steady'
  BY <1>1, StartFits, FetchFits, RecordSourceFits, LoadLedgerFits,
     SaveLedgerFits, CrashFits DEF RunStep
<1>2. ASSUME run' = run, sources' = sources, trust' = trust
      PROVE  Steady'
  <2>1. \A r \in Runs : Source(r)' = Source(r)
    BY <1>2 DEF Source
  <2>2. Alone'
    BY <1>2 DEF Steady, Alone
  <2>3. ASSUME NEW r \in Runs PROVE Fits(r)'
    <3>1. Fits(r)
      BY DEF Steady
    <3> QED BY <1>2, <2>1, <3>1 DEF Fits
  <2> QED BY <2>2, <2>3 DEF Steady
<1>3. EstateChanges \/ CatalogEdit \/ Resolve \/ Acknowledge \/ Tick => Steady'
  BY <1>2 DEF EstateChanges, CatalogEdit, Resolve, Acknowledge, Tick
<1>4. UNCHANGED vars => Steady'
  BY <1>2 DEF vars
<1> QED BY <1>1, <1>3, <1>4 DEF Next

LEMMA InitSteady == Init => Steady
BY DEF Init, Steady, Alone, Fits, Resting

\* While no two runs overlap, each is steady.
THEOREM RunsAreSteady == Overlap = FALSE /\ Spec => [](TypeOK /\ Engaged /\ Steady)
<1> SUFFICES ASSUME Overlap = FALSE PROVE Spec => [](TypeOK /\ Engaged /\ Steady)
  OBVIOUS
<1>1. TypeOK /\ Engaged /\ Steady /\ [Next]_vars => Steady'
  BY SteadyStep
<1> QED BY InitSteady, <1>1, TypeCorrect, PTL DEF Spec

-----------------------------------------------------------------------------
(* The ledger and the evidence, one run at a time.                         *)

\* Only a save changes the ledger, to one that follows it.
LEMMA LedgerFollows ==
  ASSUME TypeOK, Engaged, Steady, [Next]_vars
  PROVE  \/ trust' = trust
         \/ \E r \in Runs :
              /\ run[r].pc = "save"
              /\ trust' = run[r].trust
              /\ Follows(trust, run[r].trust, run[r].got, Source(r))
              /\ sources[Source(r)] = run[r].got
<1>1. ASSUME NEW r \in Runs, SaveLedger(r)
      PROVE  \/ trust' = trust
             \/ /\ run[r].pc = "save"
                /\ trust' = run[r].trust
                /\ Follows(trust, run[r].trust, run[r].got, Source(r))
                /\ sources[Source(r)] = run[r].got
  BY <1>1 DEF SaveLedger, Steady, Fits
<1>2. ASSUME NEW r \in Runs, Start(r) \/ Fetch(r) \/ RecordSource(r) \/ LoadLedger(r)
                               \/ Crash(r)
      PROVE  trust' = trust
  BY <1>2 DEF Start, Fetch, RecordSource, LoadLedger, Crash
<1>3. EstateChanges \/ CatalogEdit \/ Resolve \/ Acknowledge \/ Tick \/ UNCHANGED vars
        => trust' = trust
  BY DEF EstateChanges, CatalogEdit, Resolve, Acknowledge, Tick, vars
<1> QED BY <1>1, <1>2, <1>3 DEF Next, RunStep

\* No collection that runs by itself drops a record or moves its age.
THEOREM AgesSurvive == Overlap = FALSE /\ Spec => RecordsSurvive
<1> SUFFICES ASSUME Overlap = FALSE PROVE Spec => RecordsSurvive
  OBVIOUS
<1> DEFINE Survives == \A c \in Listed(trust) :
                         c \in Listed(trust)' /\ trust'[c].first = trust[c].first
<1>1. TypeOK /\ Engaged /\ Steady /\ [Next]_vars => [Survives]_trust
  <2> SUFFICES ASSUME TypeOK, Engaged, Steady, [Next]_vars, trust' # trust,
                      NEW c \in Listed(trust)
               PROVE  c \in Listed(trust)' /\ trust'[c].first = trust[c].first
    OBVIOUS
  <2>1. PICK r \in Runs : trust' = run[r].trust
                          /\ Follows(trust, run[r].trust, run[r].got, Source(r))
    BY LedgerFollows
  <2>2. c \in Contest /\ trust[c] # NoRecord
    BY DEF Listed
  <2> QED BY <2>1, <2>2 DEF Follows, Listed
<1>2. Spec => [](TypeOK /\ Engaged /\ Steady)
  BY RunsAreSteady
<1>3. Spec => [][Survives]_trust
  BY <1>1, <1>2, PTL DEF Spec
<1> QED BY <1>3 DEF RecordsSurvive

\* A record is made or changed only by evidence: by a source that is ok in the
\* database and says there what the record says.
THEOREM EvidenceForEveryChange == Overlap = FALSE /\ Spec => ContestHasEvidence
<1> SUFFICES ASSUME Overlap = FALSE PROVE Spec => ContestHasEvidence
  OBVIOUS
<1> DEFINE Accounted ==
      \A c \in Contest :
        trust'[c] # trust[c]
          => LET s == c[2] IN
             /\ sources[s].ok
             /\ c[1][1] \in Reach(s, sources[s].methods)
             /\ trust'[c].observed = ObservedIn(sources[s], c)
<1>1. TypeOK /\ Engaged /\ Steady /\ [Next]_vars => [Accounted]_trust
  <2> SUFFICES ASSUME TypeOK, Engaged, Steady, [Next]_vars, trust' # trust,
                      NEW c \in Contest, trust'[c] # trust[c]
               PROVE  /\ sources[c[2]].ok
                      /\ c[1][1] \in Reach(c[2], sources[c[2]].methods)
                      /\ trust'[c].observed = ObservedIn(sources[c[2]], c)
    OBVIOUS
  <2>1. PICK r \in Runs : /\ trust' = run[r].trust
                          /\ Follows(trust, run[r].trust, run[r].got, Source(r))
                          /\ sources[Source(r)] = run[r].got
    BY LedgerFollows
  <2>2. Says(run[r].got, Source(r), run[r].trust[c], c)
    BY <2>1 DEF Follows
  <2> QED BY <2>1, <2>2 DEF Says
<1>2. Spec => [](TypeOK /\ Engaged /\ Steady)
  BY RunsAreSteady
<1>3. Spec => [][Accounted]_trust
  BY <1>1, <1>2, PTL DEF Spec
<1> QED BY <1>3 DEF ContestHasEvidence

\* A source that answered nothing leaves the evidence in the database as it is,
\* except that it is no longer ok.
THEOREM DeadSourcesKeepEvidence ==
  Overlap = FALSE /\ Spec => DeadSourceKeepsEvidence
<1> SUFFICES ASSUME Overlap = FALSE PROVE Spec => DeadSourceKeepsEvidence
  OBVIOUS
<1> DEFINE Keeps ==
      \A r \in Runs :
        run[r].pc = "record" /\ run'[r].pc = "load" /\ run[r].answered = {}
          => LET s == Source(r) IN
             sources[s] # NoSnapshot => sources'[s] = [sources[s] EXCEPT !.ok = FALSE]
<1>1. TypeOK /\ Engaged /\ Steady /\ [Next]_vars => [Keeps]_vars
  <2> SUFFICES ASSUME TypeOK, Engaged, Steady, Next, NEW r \in Runs,
                      run[r].pc = "record", run'[r].pc = "load",
                      run[r].answered = {}, sources[Source(r)] # NoSnapshot
               PROVE  sources'[Source(r)] = [sources[Source(r)] EXCEPT !.ok = FALSE]
    OBVIOUS
  <2>1. RecordSource(r)
    <3>1. run' # run
      OBVIOUS
    <3>2. PICK q \in Runs : Start(q) \/ RunStep(q) \/ Crash(q)
      BY <3>1 DEF Next, EstateChanges, CatalogEdit, Resolve, Acknowledge, Tick
    <3>3. run[q].pc # "idle" => q = r
      BY DEF Steady, Alone
    <3>4. ~Start(q)
      BY DEF Start
    <3>5. ~Crash(q)
      BY <3>3 DEF Crash, Resting, TypeOK
    <3>6. ~Fetch(q) /\ ~LoadLedger(q) /\ ~SaveLedger(q)
      BY <3>3 DEF Fetch, LoadLedger, SaveLedger
    <3>7. RecordSource(q)
      BY <3>2, <3>4, <3>5, <3>6 DEF RunStep
    <3> QED BY <3>3, <3>7 DEF RecordSource
  <2>2. Source(r) \in Sources /\ run[r].i \in DOMAIN Order
    BY SourceType DEF Engaged
  <2>3. run[r].sources[Source(r)] = sources[Source(r)]
    <3>1. run[r].i >= run[r].i
      BY <2>2, EvidenceAssumption
    <3> QED BY <2>2, <3>1 DEF Steady, Fits, Source
  <2>4. run[r].got = [sources[Source(r)] EXCEPT !.ok = FALSE]
    BY <2>3 DEF Steady, Fits
  <2>5. sources'[Source(r)] = run[r].got
    BY <2>1, <2>2 DEF RecordSource, TypeOK
  <2> QED BY <2>4, <2>5
<1>2. Spec => [](TypeOK /\ Engaged /\ Steady)
  BY RunsAreSteady
<1>3. Spec => [][Keeps]_vars
  BY <1>1, <1>2, PTL DEF Spec
<1> QED BY <1>3 DEF DeadSourceKeepsEvidence

===============================================================================
