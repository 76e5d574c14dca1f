------------------------------ MODULE Evidence ------------------------------
(***************************************************************************)
(* `cadastre collect` and the trust ledger (cli/collect.py,                *)
(* core/observed_db.py, core/drift.py, core/trust.py, cli/trust.py).       *)
(*                                                                         *)
(* A run opens a session, which copies the catalog and the evidence, and   *)
(* then takes its sources one by one: it calls the source's methods,       *)
(* commits the evidence, reads the ledger, and writes the ledger back, the *)
(* last three in transactions of their own.  Meanwhile the estate and the  *)
(* catalog change, and people resolve and defer what the ledger shows.     *)
(***************************************************************************)
EXTENDS Integers, Sequences, FiniteSets

CONSTANTS
  Runs,        \* processes running `cadastre collect`
  Overlap,     \* a run may start while another is under way
  Sources,     \* configured sources
  Order,       \* plugins.yaml lists them in this order
  Methods,     \* methods a source may be configured with
  Entities,    \* entities that are declared or observed
  Values,      \* what a field of an entity can say
  Unset,       \* the field says nothing
  Absent,      \* no such entity
  Sees,        \* Sees[s][m]: what method m of source s would report
  EmptyIsOdd,  \* sources whose plugin declares an empty result unexpected
  MaxClock,    \* bound on the clock
  MaxChanges,  \* bound on changes of the estate and the catalog
  MaxDecisions \* bound on the contests and entities people have acted on

ASSUME EvidenceAssumption ==
  /\ Order \in Seq(Sources)
  /\ \A i, j \in DOMAIN Order : Order[i] = Order[j] => i = j  \* ids are unique
  /\ Absent \notin Values /\ Absent # Unset
  /\ Sees \in [Sources -> [Methods -> SUBSET Entities]]
  /\ EmptyIsOdd \subseteq Sources
  /\ Overlap \in BOOLEAN /\ MaxClock \in Nat
  /\ MaxChanges \in Nat /\ MaxDecisions \in Nat

Time   == 0..MaxClock
Estate == [Entities -> Values \union {Absent}]
Empty  == [e \in Entities |-> Absent]

MethodsOf(s) == {m \in Methods : Sees[s][m] # {}}
Reach(s, ms) == UNION {Sees[s][m] : m \in ms}

\* One row of `sources`; `methods` are the ones that answered, and so the
\* kinds of entity it has anything to say about.
Snapshot == [asOf : Time, ok : BOOLEAN, methods : SUBSET Methods, ent : Estate]
NoSnapshot == [asOf |-> 0, ok |-> TRUE, methods |-> {}, ent |-> Empty]

\* A divergence is about a field of an entity or about the entity itself.
Subject == Entities \X {"field", "entity"}
Contest == Subject \X Sources
Said    == Values \union {Absent}
Record  == [first : Time, last : Time, declared : Said, observed : Said,
            flapping : BOOLEAN]
NoRecord == [first |-> -1]
Resolutions == {"accept-observed", "leave-contested"}
Ledger  == [Contest -> Record \union {NoRecord}]
Clear   == [c \in Contest |-> NoRecord]
Listed(ledger) == {c \in Contest : ledger[c] # NoRecord}

VARIABLES
  estate,    \* the world the collectors look at
  declared,  \* the catalog
  sources,   \* observed.sqlite3, table sources
  history,   \* observed.sqlite3, table observations
  trust,     \* observed.sqlite3, table trust_records
  resolved,  \* catalog.sqlite3, the last resolution of each contest
  deferred,  \* catalog.sqlite3, until when an entity is acknowledged
  clock,
  changes,   \* how often the estate and the catalog have changed
  run        \* the collector processes

vars == <<estate, declared, sources, history, trust, resolved, deferred, clock,
          changes, run>>
people == <<resolved, deferred>>

Process == [pc : {"idle", "fetch", "record", "load", "save"}, i : Nat, now : Time,
            declared : Estate, sources : [Sources -> Snapshot],
            answered : SUBSET Methods, got : Snapshot, trust : Ledger]
Resting == [pc |-> "idle", i |-> 0, now |-> 0, declared |-> Empty,
            sources |-> [s \in Sources |-> NoSnapshot],
            answered |-> {}, got |-> NoSnapshot, trust |-> Clear]

Init ==
  /\ estate \in Estate /\ declared \in Estate
  /\ sources = [s \in Sources |-> NoSnapshot] /\ history = {} /\ trust = Clear
  /\ resolved = [c \in Contest |-> "none"]
  /\ deferred = [x \in Entities \X Sources |-> 0]
  /\ clock = 0 /\ changes = 0
  /\ run = [r \in Runs |-> Resting]

-----------------------------------------------------------------------------
(* drift.compare, of one source.                                           *)

Differs(d, o) == /\ d \notin {Absent, Unset} /\ o \notin {Absent, Unset}
                 /\ d # o
\* What the source would have reported, had it been there: its coverage.
Diverging(cat, snap, s) ==
  {c \in Contest :
     LET e == c[1][1] d == cat[e] o == snap.ent[e] IN
     /\ c[2] = s
     /\ e \in Reach(s, snap.methods)
     /\ IF c[1][2] = "field" THEN Differs(d, o) ELSE (d = Absent) # (o = Absent)}

\* The values a divergence carries; one about the entity carries none.
DeclaredIn(cat, c)   == IF c[1][2] = "field" THEN cat[c[1][1]] ELSE Absent
ObservedIn(snap, c)  == IF c[1][2] = "field" THEN snap.ent[c[1][1]] ELSE Absent

\* trust.update_records.  Of `observations` only the last matters: a list of
\* up to 20 signatures has two distinct ones as soon as the newest differs
\* from the one before, and flapping stays set from then on.
Contested(rec, cat, snap, c, now) ==
  LET d == DeclaredIn(cat, c)
      o == ObservedIn(snap, c)
  IN IF rec = NoRecord
       THEN [first |-> now, last |-> now, declared |-> d, observed |-> o,
             flapping |-> FALSE]
       ELSE [rec EXCEPT !.last = now, !.declared = d, !.observed = o,
                        !.flapping = @ \/ rec.declared # d \/ rec.observed # o]
\* Mutants: the ledger is what diverges today; a failed source is read too.
Rebuilt(ledger, cat, snap, s, now) ==
  [c \in Contest |-> IF c \in Diverging(cat, snap, s)
                        THEN Contested(ledger[c], cat, snap, c, now) ELSE NoRecord]
ReadsFailed(ledger, cat, snap, s, now) ==
  [c \in Contest |-> IF c \in Diverging(cat, snap, s)
                        THEN Contested(ledger[c], cat, snap, c, now) ELSE ledger[c]]
Updated(ledger, cat, snap, s, now) ==
  IF ~snap.ok THEN ledger
  ELSE [c \in Contest |-> IF c \in Diverging(cat, snap, s)
                            THEN Contested(ledger[c], cat, snap, c, now)
                            ELSE ledger[c]]

-----------------------------------------------------------------------------
(* One run.                                                                *)

Source(r) == Order[run[r].i]

\* Session.open.
Start(r) ==
  /\ run[r].pc = "idle"
  /\ Overlap \/ \A q \in Runs : run[q].pc = "idle"
  /\ Order # <<>>
  /\ run' = [run EXCEPT ![r] =
               [Resting EXCEPT !.pc = "fetch", !.i = 1, !.now = clock,
                               !.declared = declared, !.sources = sources]]
  /\ UNCHANGED <<estate, declared, sources, history, trust, people, clock, changes>>

\* Mutant: a failure is an empty snapshot of today.
Emptied(r, s, answered) ==
  [NoSnapshot EXCEPT !.asOf = run[r].now, !.ok = FALSE, !.methods = answered]
\* collect_source, when no method answers, or nothing came where something
\* was expected: the evidence the session opened with, marked not ok.
Kept(r, s, answered) ==
  IF run[r].sources[s] = NoSnapshot
    THEN [NoSnapshot EXCEPT !.asOf = run[r].now, !.ok = FALSE, !.methods = answered]
    ELSE [run[r].sources[s] EXCEPT !.ok = FALSE]
\* ... and when some answered.
Fresh(r, s, answered) ==
  [asOf |-> run[r].now, ok |-> answered = MethodsOf(s), methods |-> answered,
   ent |-> [e \in Entities |-> IF e \in Reach(s, answered) THEN estate[e] ELSE Absent]]

Fetch(r) ==
  LET s == Source(r) IN
  /\ run[r].pc = "fetch"
  /\ \E answered \in SUBSET MethodsOf(s) :
       LET fresh == Fresh(r, s, answered)
           odd   == answered = {} \/ (fresh.ent = Empty /\ s \in EmptyIsOdd)
       IN run' = [run EXCEPT ![r].pc = "record",
                    ![r].answered = IF odd THEN {} ELSE answered,
                    ![r].got = IF odd THEN Kept(r, s, answered) ELSE fresh]
  /\ UNCHANGED <<estate, declared, sources, history, trust, people, clock, changes>>

\* record_observed: one transaction.
\* Mutant: a row for every entity, seen or not.
AllRows(s, snap) == {<<s, snap.asOf, e, snap.ent[e]>> : e \in Entities}
Rows(s, snap) == {<<s, snap.asOf, e, snap.ent[e]>> :
                    e \in {x \in Entities : snap.ent[x] # Absent}}
\* Mutant: an entity has one row, whatever its date.
RecordsOnce(r) ==
  LET s == Source(r) IN
  /\ run[r].pc = "record"
  /\ sources' = [sources EXCEPT ![s] = run[r].got]
  /\ history' = history \union {new \in Rows(s, run[r].got) :
                   \A old \in history : <<old[1], old[3]>> # <<new[1], new[3]>>}
  /\ run' = [run EXCEPT ![r].pc = "load"]
  /\ UNCHANGED <<estate, declared, trust, people, clock, changes>>
RecordSource(r) ==
  LET s == Source(r) IN
  /\ run[r].pc = "record"
  /\ sources' = [sources EXCEPT ![s] = run[r].got]
  /\ history' = history \union Rows(s, run[r].got)
  /\ run' = [run EXCEPT ![r].pc = "load"]
  /\ UNCHANGED <<estate, declared, trust, people, clock, changes>>

\* update_records, from the ledger as it is and the catalog as it was.
LoadLedger(r) ==
  /\ run[r].pc = "load"
  /\ run' = [run EXCEPT ![r].pc = "save",
               ![r].trust = Updated(trust, run[r].declared, run[r].got,
                                    Source(r), run[r].now)]
  /\ UNCHANGED <<estate, declared, sources, history, trust, people, clock, changes>>

\* On to the next source, or to the end.
Continued(r) ==
  IF run[r].i < Len(Order)
    THEN [run[r] EXCEPT !.pc = "fetch", !.i = @ + 1, !.answered = {},
                        !.got = NoSnapshot, !.trust = Clear]
    ELSE Resting

\* write_trust_records deletes every row and inserts these; an empty list is
\* not written at all.
SaveLedger(r) ==
  /\ run[r].pc = "save"
  /\ trust' = IF Listed(run[r].trust) = {} THEN trust ELSE run[r].trust
  /\ run' = [run EXCEPT ![r] = Continued(r)]
  /\ UNCHANGED <<estate, declared, sources, history, people, clock, changes>>

Crash(r) ==
  /\ run[r].pc # "idle"
  /\ run' = [run EXCEPT ![r] = Resting]
  /\ UNCHANGED <<estate, declared, sources, history, trust, people, clock, changes>>

-----------------------------------------------------------------------------
(* Everybody else.                                                         *)

Changed(table, table2) ==
  /\ changes < MaxChanges
  /\ \E e \in Entities, v \in Values \union {Absent} :
       v # table[e] /\ table2 = [table EXCEPT ![e] = v]
  /\ changes' = changes + 1

EstateChanges ==
  /\ Changed(estate, estate')
  /\ UNCHANGED <<declared, sources, history, trust, people, clock, run>>

\* A write through the gate, which CatalogStore models.
CatalogEdit ==
  /\ Changed(declared, declared')
  /\ UNCHANGED <<estate, sources, history, trust, people, clock, run>>

Decisions == {c \in Contest : resolved[c] # "none"}
             \union {x \in Entities \X Sources : deferred[x] > 0}
Within(x) == Cardinality(Decisions \union {x}) <= MaxDecisions

\* trust.resolve: only of a recorded contest, and only a note of the decision.
Resolve ==
  /\ \E c \in Listed(trust), action \in Resolutions :
       Within(c) /\ resolved' = [resolved EXCEPT ![c] = action]
  /\ UNCHANGED <<estate, declared, sources, history, trust, deferred, clock,
                 changes, run>>

\* trust.acknowledge: of any entity and source, until some time to come.  The
\* list keeps every acknowledgement; the latest date decides.
Acknowledge ==
  /\ \E x \in Entities \X Sources, until \in Time :
       /\ Within(x)
       /\ until > clock /\ until > deferred[x]
       /\ deferred' = [deferred EXCEPT ![x] = until]
  /\ UNCHANGED <<estate, declared, sources, history, trust, resolved, clock,
                 changes, run>>

Tick ==
  /\ clock < MaxClock
  /\ clock' = clock + 1
  /\ UNCHANGED <<estate, declared, sources, history, trust, people, changes, run>>

RunStep(r) == Fetch(r) \/ RecordSource(r) \/ LoadLedger(r) \/ SaveLedger(r)
Next ==
  \/ \E r \in Runs : Start(r) \/ RunStep(r) \/ Crash(r)
  \/ EstateChanges \/ CatalogEdit \/ Resolve \/ Acknowledge \/ Tick

Spec == Init /\ [][Next]_vars
-----------------------------------------------------------------------------
(* Views.                                                                  *)

\* trust.presented_records: the state a reader is shown.
Presented(c) == IF resolved[c] = "accept-observed" THEN "agreed" ELSE "contested"
-----------------------------------------------------------------------------
(* Properties.                                                             *)

\* Every variable has its type.
TypeOK ==
  /\ estate \in Estate /\ declared \in Estate
  /\ sources \in [Sources -> Snapshot] /\ trust \in Ledger
  /\ history \subseteq Sources \X Time \X Entities \X Values
  /\ resolved \in [Contest -> Resolutions \union {"none"}]
  /\ deferred \in [Entities \X Sources -> Time]
  /\ clock \in Time /\ changes \in 0..MaxChanges /\ run \in [Runs -> Process]

\* A contest is never forgotten and its age never reset: no collection, failed
\* or not, no crash and no decision drops a record or moves its first_seen
\* (DESIGN.md 2.9, core/trust.py:138-187, core/storage.py:1056-1072).
RecordsSurvive ==
  [][\A c \in Listed(trust) :
       c \in Listed(trust)' /\ trust'[c].first = trust[c].first]_trust

\* A source that answered nothing leaves the evidence in the database as it is,
\* its date included, except that it is no longer ok (cli/collect.py:171-189).
DeadSourceKeepsEvidence ==
  [][\A r \in Runs :
       run[r].pc = "record" /\ run'[r].pc = "load" /\ run[r].answered = {}
         => LET s == Source(r) IN
            sources[s] # NoSnapshot => sources'[s] = [sources[s] EXCEPT !.ok = FALSE]]_vars

\* A record is made or changed only by evidence: the source is ok in the
\* database and what it says there is what the record says (core/trust.py:145-147).
ContestHasEvidence ==
  [][\A c \in Contest :
       trust'[c] # trust[c]
         => LET s == c[2] IN
            /\ sources[s].ok
            /\ c[1][1] \in Reach(s, sources[s].methods)
            /\ trust'[c].observed = ObservedIn(sources[s], c)]_trust

\* What the current evidence says is in the observation history, under the
\* date it carries, whichever runs failed since (core/storage.py:829-864).
CurrentIsInHistory == \A s \in Sources : Rows(s, sources[s]) \subseteq history

\* A source that is not ok has lost nothing: "a STALE source kept its previous
\* evidence" (cli/collect.py:331).
EvidenceKept ==
  [][\A s \in Sources : \A e \in Entities :
       sources[s].ent[e] # Absent /\ ~sources'[s].ok
         => sources'[s].ent[e] = sources[s].ent[e]]_sources

\* An agreed contest is one where the sources match: the catalog says what the
\* evidence says (DESIGN.md:331-343).
AgreedMeansMatch ==
  \A c \in Listed(trust) :
    Presented(c) = "agreed" /\ sources[c[2]].ok
      => c \notin Diverging(declared, sources[c[2]], c[2])
=============================================================================
