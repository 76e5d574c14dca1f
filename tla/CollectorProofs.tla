-------------------------- MODULE CollectorProofs ---------------------------
(***************************************************************************)
(* What holds of Collector whatever the estate, the plugins, plugins.yaml  *)
(* and the mishaps are: a source that did not answer is visible, what is   *)
(* shown as fresh is the whole of an answer, and what drift calls missing  *)
(* or only in one secret store was not in view where it was looked for.    *)
(*                                                                         *)
(* Three invariants build on TypeInv: SilenceInv says which sources a run  *)
(* still owes an answer, WholeInv that what is held are the answers of the *)
(* methods asked so far, and AbsenceInv and TruthInv how what is held      *)
(* stands to what the estate was when it was asked.                        *)
(***************************************************************************)
EXTENDS Collector, TLAPS

(***************************************************************************)
(* One call.  An outcome that is ok is the answer itself, of a method the  *)
(* plugin has: nothing that goes wrong on the way looks like an answer.    *)
(***************************************************************************)
Mishap == {"fine", "denied", "throttled", "down", "unparsable", "undecodable",
           "timeout", "no command", "os error", "failed"}

LEMMA NotOk == ~[ok |-> FALSE].ok /\ \A kind : ~FailReply(kind).ok
BY DEF FailReply

LEMMA ReplyOk ==
  ASSUME NEW out, out.form \in {"object", "unparsable", "undecodable"}, ParseReply(out).ok
  PROVE  out.form = "object" /\ out.reply.ok /\ ParseReply(out) = out.reply
<1>1. out.form = "object"
  BY NotOk DEF ParseReply
<1>2. out.reply.ok
  <2> SUFFICES ASSUME ~out.reply.ok PROVE FALSE
    OBVIOUS
  <2>1. \E kind : ParseReply(out) = FailReply(kind)
    BY <1>1 DEF ParseReply
  <2> QED BY <2>1, NotOk
<1> QED BY <1>1, <1>2, NotOk DEF ParseReply

LEMMA ServeOk ==
  ASSUME NEW methods, NEW method, NEW reply, Serve(methods, method, reply).ok
  PROVE  method \in methods /\ Serve(methods, method, reply) = reply
BY NotOk DEF Serve

LEMMA GetJsonOk ==
  ASSUME NEW status, NEW body, GetJson(status, body).ok
  PROVE  GetJson(status, body).body = body
BY NotOk DEF GetJson

LEMMA CallOk ==
  ASSUME NEW mishap \in Mishap, NEW methods, NEW method, NEW reply, NEW outcome,
         outcome = Call(method, Token, Process(methods, method, mishap, reply)), outcome.ok
  PROVE  method \in methods /\ outcome = reply
<1>1. PICK process : process = Process(methods, method, mishap, reply)
  OBVIOUS
<1>2. PICK up : up = GetJson(Statuses[mishap], reply)
  OBVIOUS
<1>3. PICK served : served = Serve(methods, method, IF up.ok THEN up.body ELSE up)
  OBVIOUS
<1>4. method \notin WriteMethods /\ Token.kind = "ready"
  BY NotOk DEF Call, Token
<1>5. mishap \notin {"timeout", "no command", "os error", "failed"}
  <2> SUFFICES ASSUME mishap \in {"timeout", "no command", "os error", "failed"} PROVE FALSE
    OBVIOUS
  <2>1. process.end = mishap
    BY <1>1 DEF Process, Statuses
  <2>2. outcome \in {FailReply("invalid_config"), FailReply("unreachable"), FailReply("internal")}
    BY <1>1, <1>4, <2>1 DEF Call
  <2> QED BY <2>2, NotOk
<1>6. process.end = "exited"
  BY <1>1, <1>5 DEF Process, Statuses, Exited, Mishap
<1>7. outcome = ParseReply(process.out)
  BY <1>1, <1>4, <1>6 DEF Call
<1>8. \/ process.out.form \in {"unparsable", "undecodable"}
      \/ process.out.form = "object" /\ process.out.reply = served
  <2>1. CASE mishap \in DOMAIN Statuses
    <3>1. process = Exited("object", served)
      <4>1. mishap \notin {"unparsable", "undecodable"}
        BY <2>1 DEF Statuses
      <4>2. process = Exited("object", Serve(methods, method, IF up.ok THEN up.body ELSE up))
        BY <1>1, <1>2, <2>1, <4>1 DEF Process
      <4> QED BY <1>3, <4>2
    <3> QED BY <3>1 DEF Exited
  <2>2. CASE mishap \in {"unparsable", "undecodable"}
    BY <1>1, <2>2 DEF Process, Statuses, Exited
  <2> QED BY <1>5, <2>1, <2>2 DEF Statuses, Mishap
<1>9. outcome = served
  BY <1>7, <1>8, ReplyOk
<1>10. method \in methods /\ served = IF up.ok THEN up.body ELSE up
  BY <1>3, <1>9, ServeOk
<1> QED BY <1>2, <1>9, <1>10, GetJsonOk
(***************************************************************************)
(* What every state keeps.                                                 *)
(***************************************************************************)
\* A row of observed.sqlite3, fresh or stale.
IsRow(ev) ==
  /\ ev = [source |-> ev.source, plugin |-> ev.plugin, asOf |-> ev.asOf, ok |-> ev.ok,
           caps |-> ev.caps, entities |-> ev.entities, coverage |-> ev.coverage,
           names |-> ev.names, world |-> ev.world, asked |-> ev.asked]
  /\ ev.ok \in BOOLEAN /\ ev.asOf \in Nat
AllRows(rows) == \A s \in DOMAIN rows : IsRow(rows[s])

\* What the methods asked so far have answered.
IsGot(got) ==
  /\ got = [entities |-> got.entities, coverage |-> got.coverage, names |-> got.names,
            caps |-> got.caps, asOf |-> got.asOf, world |-> got.world, asked |-> got.asked]
  /\ got.caps # {} => got.asOf \in Nat /\ got.asOf >= run.now
  /\ got.caps = {} => got.asOf = None

AtSource ==
  /\ run.pc = "source"
  /\ run = [pc |-> "source", todo |-> run.todo, prior |-> run.prior, now |-> run.now,
            kinds |-> run.kinds, enabled |-> run.enabled]
AtCall ==
  /\ run.pc = "call"
  /\ run = [pc |-> "call", todo |-> run.todo, prior |-> run.prior, now |-> run.now,
            kinds |-> run.kinds, enabled |-> run.enabled, left |-> run.left, got |-> run.got,
            failed |-> run.failed, plugin |-> run.plugin, extensions |-> run.extensions]
  /\ run.todo # <<>> /\ IsGot(run.got) /\ run.failed \in BOOLEAN
  /\ run.left \in Seq(Range(MethodsFor(Source)))
Running ==
  /\ run.todo \in Seq(Entries)
  /\ run.now \in Nat /\ run.now <= clock
  /\ AllRows(run.prior)
TypeInv ==
  /\ file \in Files /\ clock \in Nat
  /\ AllRows(stored)
  /\ run = NoRun \/ (AtSource /\ Running) \/ (AtCall /\ Running)

\* A run has answered for a source, or still has it before it.
AnsweredSince(s, start) == s \in DOMAIN stored /\ (stored[s].ok => stored[s].asOf >= start)
Waiting(s) == \E i \in DOMAIN run.todo : run.todo[i].enabled /\ run.todo[i].id = s
SilenceInv ==
  /\ run # NoRun => \A s \in run.enabled : Waiting(s) \/ AnsweredSince(s, run.now)
  /\ SilenceIsVisible

\* The answers held are all those of the methods that answered, and no method
\* is skipped without the run noting it.
KindsOf(src, caps) == UNION {Exes[src.exe].kinds[m] : m \in caps}
Gathered ==
  /\ DOMAIN run.got.entities = KindsOf(Source, run.got.caps)
  /\ ~run.failed => run.got.caps \union Range(run.left) = Range(MethodsFor(Source))
AnswerOf(s, ev) ==
  /\ ev.caps # {}
  /\ \E src \in Entries : /\ src.id = s /\ Range(MethodsFor(src)) = ev.caps
                          /\ DOMAIN ev.entities = KindsOf(src, ev.caps)
WholeInv ==
  /\ \A s \in DOMAIN stored : stored[s].ok => AnswerOf(s, stored[s])
  /\ run.pc = "call" => Gathered

-----------------------------------------------------------------------------
(* What the actions do to these.                                           *)

\* The steps around the collector leave it and its database alone.
LEMMA Around ==
  ASSUME TypeInv, Come \/ Go \/ Regrant \/ Edit \/ Declare \/ Toggle \/ Tick \/ UNCHANGED vars
  PROVE  UNCHANGED <<stored, run, last>> /\ clock' \in {clock, clock + 1} /\ file' \in Files
BY DEF TypeInv, Come, Go, Regrant, Edit, Declare, Toggle, Tick, Change, vars, around

LEMMA EntryFacts ==
  ASSUME NEW src \in Entries
  PROVE  /\ MethodsFor(src) \in Seq(Range(MethodsFor(src))) /\ MethodsFor(src) # <<>>
         /\ src.id \in Sources
<1>1. /\ src.id \in Sources /\ src.methods \in Seq(Range(src.methods))
  BY FilesAssumption DEF Entries, Sources
<1>2. DefaultMethods \in Seq(Range(DefaultMethods)) /\ DefaultMethods # <<>>
  <2>1. DefaultMethods \in Seq({"inventory.list", "network.list", "endpoint.list"})
    BY DEF DefaultMethods
  <2>2. \A i \in 1..3 : DefaultMethods[i] \in Range(DefaultMethods)
    BY DEF DefaultMethods, Range
  <2>3. DefaultMethods = [i \in 1..3 |-> DefaultMethods[i]] /\ DefaultMethods # <<>>
    BY DEF DefaultMethods
  <2>4. DefaultMethods \in [1..3 -> Range(DefaultMethods)]
    BY <2>2, <2>3
  <2> QED BY <2>3, <2>4 DEF DefaultMethods
<1> QED BY <1>1, <1>2 DEF MethodsFor

LEMMA HeadTail ==
  ASSUME NEW S, NEW seq \in Seq(S), seq # <<>>
  PROVE  /\ Head(seq) \in S /\ Tail(seq) \in Seq(S)
         /\ Head(seq) = seq[1] /\ 1 \in DOMAIN seq
         /\ Range(seq) = {Head(seq)} \union Range(Tail(seq))
         /\ \A i \in DOMAIN seq : i = 1 \/ (i - 1 \in DOMAIN Tail(seq) /\ Tail(seq)[i-1] = seq[i])
<1>1. /\ Head(seq) \in S /\ Tail(seq) \in Seq(S)
      /\ Head(seq) = seq[1] /\ 1 \in DOMAIN seq
  OBVIOUS
<1>2. /\ \A i \in DOMAIN seq : i = 1 \/ (i - 1 \in DOMAIN Tail(seq) /\ Tail(seq)[i-1] = seq[i])
      /\ \A i \in DOMAIN Tail(seq) : i + 1 \in DOMAIN seq /\ Tail(seq)[i] = seq[i + 1]
  OBVIOUS
<1>3. Range(seq) \subseteq {Head(seq)} \union Range(Tail(seq))
  BY <1>1, <1>2 DEF Range
<1>4. {Head(seq)} \union Range(Tail(seq)) \subseteq Range(seq)
  BY <1>1, <1>2 DEF Range
<1> QED BY <1>1, <1>2, <1>3, <1>4

LEMMA Laid ==
  ASSUME NEW old, NEW new
  PROVE  /\ DOMAIN Updated(old, new) = DOMAIN old \union DOMAIN new
         /\ \A x \in DOMAIN new : Updated(old, new)[x] = new[x]
         /\ \A x \in DOMAIN old \ DOMAIN new : Updated(old, new)[x] = old[x]
BY DEF Updated

\* A kept row is the row there was, no longer fresh.
LEMMA NoLongerFresh ==
  ASSUME NEW ev, IsRow(ev), NEW kept, kept = [ev EXCEPT !.ok = FALSE]
  PROVE  /\ IsRow(kept) /\ ~kept.ok
         /\ kept.entities = ev.entities /\ kept.coverage = ev.coverage
         /\ kept.plugin = ev.plugin /\ kept.source = ev.source /\ kept.world = ev.world
         /\ kept.asked = ev.asked
         /\ kept.names = ev.names
BY DEF IsRow

\* What Record stores is a row: fresh only as the whole of what was got, and
\* otherwise what there was before, or nothing.
LEMMA OutcomeIs ==
  ASSUME TypeInv, AtCall
  PROVE  /\ IsRow(Outcome)
         /\ Outcome.ok => run.got.caps # {} /\ ~run.failed /\ Outcome = Fresh
         /\ \/ Outcome = Fresh /\ run.got.caps # {} /\ ~UnexpectedEmpty
            \/ Outcome.entities = <<>> /\ Outcome.names = <<>> /\ Outcome.world = <<>>
            \/ /\ Source.id \in DOMAIN run.prior
               /\ Outcome.entities = run.prior[Source.id].entities
               /\ Outcome.coverage = run.prior[Source.id].coverage
               /\ Outcome.world = run.prior[Source.id].world
               /\ Outcome.asked = run.prior[Source.id].asked
               /\ Outcome.names = run.prior[Source.id].names
<1>1. /\ Source \in Entries /\ AllRows(run.prior) /\ IsGot(run.got) /\ run.failed \in BOOLEAN
      /\ run.now \in Nat
  BY HeadTail DEF TypeInv, NoRun, AtSource, AtCall, Running, Source
<1>2. ASSUME NEW caps
      PROVE  /\ IsRow(Kept(caps)) /\ ~Kept(caps).ok
             /\ \/ /\ Kept(caps).entities = <<>> /\ Kept(caps).names = <<>>
                   /\ Kept(caps).world = <<>>
                \/ /\ Source.id \in DOMAIN run.prior
                   /\ Kept(caps).entities = run.prior[Source.id].entities
                   /\ Kept(caps).coverage = run.prior[Source.id].coverage
                   /\ Kept(caps).world = run.prior[Source.id].world
                   /\ Kept(caps).asked = run.prior[Source.id].asked
                   /\ Kept(caps).names = run.prior[Source.id].names
  <2>1. CASE Source.id \in DOMAIN run.prior
    BY <1>1, <2>1, NoLongerFresh DEF Kept, AllRows
  <2>2. CASE Source.id \notin DOMAIN run.prior
    BY <1>1, <2>2 DEF Kept, IsRow
  <2> QED BY <2>1, <2>2
<1>3. run.got.caps # {} => IsRow(Fresh) /\ Fresh.ok = ~run.failed
  BY <1>1 DEF Fresh, IsRow, IsGot
<1>4. \/ \E caps : Outcome = Kept(caps)
      \/ run.got.caps # {} /\ Outcome = Fresh /\ ~UnexpectedEmpty
  BY DEF Outcome
<1> QED BY <1>2, <1>3, <1>4

\* Everything that was in view when the source was asked was seen, and what its
\* collector covered is still what the evidence covers.
Claimed(coverage, kind, field, said) ==
  /\ kind \in DOMAIN coverage
  /\ coverage[kind].ids = None /\ field \in DOMAIN coverage[kind].where
  /\ coverage[kind].where[field] = said
Claims(was, kind, coverage) ==
  LET exe == Exes[was.exe] IN
  /\ exe.name = "dns-cloudflare" /\ was.method = "dns.records" /\ kind = "domain"
       => was.places = {} \/ Claimed(coverage, kind, "zone", was.places)
  /\ exe.name = "secrets-infisical" /\ was.method = "secret.list" /\ kind = "secret"
       => Claimed(coverage, kind, "store", exe.names[was.method])
AccountedFor(ev, k) ==
  /\ k \in DOMAIN ev.world /\ k \in DOMAIN ev.asked
  /\ \A t \in ev.world[k] :
       /\ t.kind = k
       /\ Place[t] \in ev.asked[k].places => \E e \in ev.entities[k] : e.id = t.id
  /\ k \notin ev.asked[k].own => Claims(ev.asked[k], k, ev.coverage)
Accounted(ev) == \A k \in DOMAIN ev.entities : AccountedFor(ev, k)
\* The same of a run half way through: plugins.yaml has the last word on what is
\* covered.
AccountedSoFar(src, got) ==
  /\ Accounted(got)
  /\ \A k \in DOMAIN got.entities : got.asked[k].own = DOMAIN src.coverage
AskedInv == run.pc = "call" => run.got.caps \subseteq DOMAIN Exes[Source.exe].kinds
EstateInv ==
  /\ things \subseteq Things /\ catalog \in Catalogs /\ manifest \in BOOLEAN
  /\ DOMAIN reach = Sources
  /\ \A s \in Sources : reach[s] \in Reaches[s]
AbsenceInv ==
  /\ \A s \in DOMAIN stored : Accounted(stored[s])
  /\ run.pc # "idle" => \A s \in DOMAIN run.prior : Accounted(run.prior[s])
  /\ run.pc = "call" => AccountedSoFar(Source, run.got)

\* What was in view of a secret store when it was asked is told, where the store
\* shows up in the evidence at all, and nothing is told that is no thing's
\* reference.
References == UNION {Said(t, "ref") : t \in Things}
Told(ev) ==
  /\ "secret" \in DOMAIN ev.entities \/ DOMAIN ev.names # {} =>
       "secret" \in DOMAIN ev.world /\ "secret" \in DOMAIN ev.asked
  /\ \A store \in StoresOf(ev) : \A t \in InView(ev, "secret") :
       store \in Said(t, "store") => Said(t, "ref") \subseteq RefsFrom(ev, store)
  /\ \A store \in StoresOf(ev) : RefsFrom(ev, store) \subseteq References
\* The secrets of a run are those of things.
Shows(e)     == \E t \in Things : t.kind = "secret" /\ e = [id |-> t.id, f |-> t.f]
Sighted(got) == \A e \in SecretsIn(got) : Shows(e)
TruthInv ==
  /\ \A s \in DOMAIN stored : Told(stored[s])
  /\ run.pc # "idle" => \A s \in DOMAIN run.prior : Told(run.prior[s])
  /\ run.pc = "call" => Told(run.got) /\ Sighted(run.got)

-----------------------------------------------------------------------------
(* The shape of a state.                                                   *)

LEMMA TypeInit == Init => TypeInv
BY DEF Init, TypeInv, AllRows, NoRun

LEMMA OfFiles == ASSUME NEW f \in Files PROVE f \in Seq(Entries)
<1>1. f \in Seq(Range(f)) /\ Range(f) \subseteq Entries
  BY FilesAssumption DEF Entries
<1> QED BY <1>1

\* How the run ends, or goes on, when a method is asked.
Reply    == Answer(Exes[Source.exe], Head(run.left), Source.id)
Aborted  == run' = NoRun /\ last' = [how |-> "aborted", enabled |-> run.enabled,
                                    started |-> run.now]
Refused  == run' = [run EXCEPT !.left = Tail(@), !.failed = TRUE] /\ last' = last
Answers  == /\ Head(run.left) \in DOMAIN Exes[Source.exe].kinds
            /\ Parses(Exes[Source.exe], Reply.result)
            /\ run' = [run EXCEPT !.left = Tail(@), !.got = Taken(@, Head(run.left), Reply)]
            /\ last' = last
LEMMA AskIs ==
  ASSUME TypeInv, Ask
  PROVE  /\ AtCall /\ Running /\ run.pc = "call" /\ run.left # <<>>
         /\ UNCHANGED <<around, stored, clock, file>>
         /\ Aborted \/ Refused \/ Answers
<1>1. /\ AtCall /\ Running /\ run.pc = "call" /\ run.left # <<>>
      /\ UNCHANGED <<around, stored, clock, file>>
  BY DEF TypeInv, Ask, NoRun, AtSource, around
<1> DEFINE method == Head(run.left)
           exe == Exes[Source.exe]
           reply == IF method \in DOMAIN exe.kinds THEN Answer(exe, method, Source.id) ELSE None
           next == [run EXCEPT !.left = Tail(@)]
<1>2. PICK mishap \in Mishaps :
        \E outcome \in {Call(method, Token, Process(DOMAIN exe.kinds, method, mishap, reply))} :
          \/ /\ outcome.ok /\ Parses(exe, outcome.result)
             /\ run' = [next EXCEPT !.got = Taken(@, method, outcome)]
             /\ last' = last
          \/ /\ ~outcome.ok /\ outcome.kind # "raised"
             /\ run' = [next EXCEPT !.failed = TRUE]
             /\ last' = last
          \/ /\ IF outcome.ok THEN ~Parses(exe, outcome.result) ELSE outcome.kind = "raised"
             /\ Ends("aborted")
  BY DEF Ask
<1>3. PICK outcome : outcome = Call(method, Token, Process(DOMAIN exe.kinds, method, mishap, reply))
  OBVIOUS
<1>4. CASE /\ outcome.ok /\ Parses(exe, outcome.result)
           /\ run' = [next EXCEPT !.got = Taken(@, method, outcome)]
           /\ last' = last
  <2>1. mishap \in Mishap
    BY MishapsAssumption DEF Mishap
  <2>2. method \in DOMAIN exe.kinds /\ outcome = reply
    BY <1>3, <1>4, <2>1, CallOk
  <2>3. outcome = Reply
    BY <2>2 DEF Reply
  <2> QED BY <1>1, <1>4, <2>2, <2>3 DEF Answers, AtCall
<1>5. CASE run' = [next EXCEPT !.failed = TRUE] /\ last' = last
  BY <1>1, <1>5 DEF Refused, AtCall
<1>6. CASE Ends("aborted")
  BY <1>1, <1>6 DEF Ends, Aborted
<1> QED BY <1>1, <1>2, <1>3, <1>4, <1>5, <1>6

LEMMA RecordIs ==
  ASSUME TypeInv, Record
  PROVE  /\ AtCall /\ Running /\ run.pc = "call" /\ run.left = <<>>
         /\ IsRow(Outcome)
         /\ UNCHANGED <<around, last, clock, file>>
         /\ stored' = Updated(stored, [s \in {Source.id} |-> Outcome])
         /\ run' = [pc |-> "source", todo |-> Tail(run.todo), prior |-> run.prior,
                    now |-> run.now, kinds |-> run.kinds, enabled |-> run.enabled]
<1>1. AtCall /\ Running
  BY DEF TypeInv, Record, NoRun, AtSource
<1> QED BY <1>1, OutcomeIs DEF Record, around

LEMMA TypeNext ==
  ASSUME TypeInv, [Next]_vars
  PROVE  TypeInv'
<1>1. CASE Open
  <2>1. run' = [pc |-> "source", todo |-> file, prior |-> stored, now |-> clock,
                kinds |-> ActiveKinds(manifest), enabled |-> Enabled(file)]
        /\ UNCHANGED <<stored, clock, file>>
    BY <1>1 DEF Open, around
  <2>2. file \in Seq(Entries)
    BY OfFiles DEF TypeInv
  <2> QED BY <2>1, <2>2 DEF TypeInv, AtSource, Running, AllRows
<1>2. CASE Skip
  <2>1. run' = [run EXCEPT !.todo = Tail(@)] /\ UNCHANGED <<stored, clock, file>>
        /\ run.pc = "source" /\ run.todo # <<>>
    BY <1>2 DEF Skip, around
  <2>2. AtSource /\ Running
    BY <2>1 DEF TypeInv, NoRun, AtCall
  <2>3. run' = [pc |-> "source", todo |-> Tail(run.todo), prior |-> run.prior,
                now |-> run.now, kinds |-> run.kinds, enabled |-> run.enabled]
    BY <2>1, <2>2 DEF AtSource
  <2>4. Tail(run.todo) \in Seq(Entries)
    BY <2>1, <2>2, HeadTail DEF Running
  <2> QED BY <2>1, <2>2, <2>3, <2>4 DEF TypeInv, AtSource, Running, AllRows
<1>3. CASE Handshake
  <2>1. /\ UNCHANGED <<stored, clock, file>> /\ run.pc = "source" /\ run.todo # <<>>
        /\ \/ run' = NoRun
           \/ \E plugin, extensions :
                run' = [pc |-> "call", todo |-> run.todo, prior |-> run.prior,
                        now |-> run.now, kinds |-> run.kinds, enabled |-> run.enabled,
                        left |-> MethodsFor(Source), got |-> Nothing, failed |-> FALSE,
                        plugin |-> plugin, extensions |-> extensions]
    BY <1>3 DEF Handshake, Ends, around
  <2>2. AtSource /\ Running
    BY <2>1 DEF TypeInv, NoRun, AtCall
  <2>3. CASE run' = NoRun
    BY <2>1, <2>3 DEF TypeInv, AllRows
  <2>4. CASE run' # NoRun
    <3>1. Source \in Entries
      BY <2>1, <2>2, HeadTail DEF Running, Source
    <3>2. PICK plugin, extensions :
                run' = [pc |-> "call", todo |-> run.todo, prior |-> run.prior,
                        now |-> run.now, kinds |-> run.kinds, enabled |-> run.enabled,
                        left |-> MethodsFor(Source), got |-> Nothing, failed |-> FALSE,
                        plugin |-> plugin, extensions |-> extensions]
      BY <2>1, <2>4
    <3>3. Source' = Source /\ MethodsFor(Source) \in Seq(Range(MethodsFor(Source)))
      BY <3>1, <3>2, EntryFacts DEF Source
    <3>4. IsGot(Nothing)'
      BY DEF IsGot, Nothing
    <3>5. AtCall'
      BY <2>1, <3>2, <3>3, <3>4 DEF AtCall
    <3>6. Running'
      BY <2>1, <2>2, <3>2 DEF Running, AllRows
    <3> QED BY <2>1, <3>5, <3>6 DEF TypeInv, AllRows
  <2> QED BY <2>3, <2>4
<1>4. CASE Ask
  <2>1. /\ AtCall /\ Running /\ run.left # <<>>
        /\ UNCHANGED <<stored, clock, file>>
    BY <1>4, AskIs
  <2>2. Tail(run.left) \in Seq(Range(MethodsFor(Source)))
    BY <2>1, HeadTail DEF AtCall
  <2>3. CASE Aborted
    BY <2>1, <2>3 DEF TypeInv, AllRows, Aborted
  <2>4. CASE Refused
    <3>1. run' = [pc |-> "call", todo |-> run.todo, prior |-> run.prior, now |-> run.now,
                  kinds |-> run.kinds, enabled |-> run.enabled, left |-> Tail(run.left),
                  got |-> run.got, failed |-> TRUE, plugin |-> run.plugin,
                  extensions |-> run.extensions]
      BY <2>1, <2>4 DEF AtCall, Refused
    <3>2. AtCall'
      BY <2>1, <2>2, <3>1 DEF AtCall, IsGot, Source
    <3> QED BY <2>1, <3>1, <3>2 DEF TypeInv, Running, AllRows
  <2>5. CASE Answers
    <3>1. PICK got : got = Taken(run.got, Head(run.left), Reply)
      OBVIOUS
    <3>2. run' = [pc |-> "call", todo |-> run.todo, prior |-> run.prior, now |-> run.now,
                  kinds |-> run.kinds, enabled |-> run.enabled, left |-> Tail(run.left),
                  got |-> got, failed |-> run.failed, plugin |-> run.plugin,
                  extensions |-> run.extensions]
      BY <2>1, <2>5, <3>1 DEF AtCall, Answers
    <3>3. got.asOf = Later(run.got.asOf, clock)
      BY <3>1 DEF Taken, Reply, Answer, OkReply
    <3>4. got.asOf \in Nat /\ got.asOf >= run.now
      BY <2>1, <3>3 DEF Later, AtCall, IsGot, Running, TypeInv
    <3>5. /\ got = [entities |-> got.entities, coverage |-> got.coverage, names |-> got.names,
                    caps |-> got.caps, asOf |-> got.asOf, world |-> got.world,
                    asked |-> got.asked]
          /\ got.caps # {}
      BY <3>1 DEF Taken
    <3>6. IsGot(got)'
      BY <3>2, <3>4, <3>5 DEF IsGot
    <3>7. AtCall'
      BY <2>1, <2>2, <3>2, <3>6 DEF AtCall, Source
    <3> QED BY <2>1, <3>2, <3>7 DEF TypeInv, Running, AllRows
  <2> QED BY <1>4, AskIs, <2>3, <2>4, <2>5
<1>5. CASE Record
  <2>1. /\ AtCall /\ Running /\ IsRow(Outcome)
        /\ UNCHANGED <<clock, file>>
        /\ stored' = Updated(stored, [s \in {Source.id} |-> Outcome])
        /\ run' = [pc |-> "source", todo |-> Tail(run.todo), prior |-> run.prior,
                   now |-> run.now, kinds |-> run.kinds, enabled |-> run.enabled]
    BY <1>5, RecordIs
  <2>2. Tail(run.todo) \in Seq(Entries)
    BY <2>1, HeadTail DEF AtCall, Running
  <2>3. PICK row : row = Outcome
    OBVIOUS
  <2>4. AllRows(stored)'
    BY <2>1, <2>3 DEF AllRows, TypeInv, Updated
  <2>5. AtSource'
    BY <2>1 DEF AtSource
  <2>6. Running'
    BY <2>1, <2>2 DEF Running, AllRows
  <2> QED BY <2>1, <2>4, <2>5, <2>6 DEF TypeInv
<1>6. CASE Finish \/ Kill
  BY <1>6 DEF Finish, Kill, Ends, TypeInv, AllRows, around
<1>7. CASE Come \/ Go \/ Regrant \/ Edit \/ Declare \/ Toggle \/ Tick \/ UNCHANGED vars
  <2>1. UNCHANGED <<stored, run, last>> /\ clock' \in {clock, clock + 1} /\ file' \in Files
    BY <1>7, Around
  <2>2. AtSource => AtSource'
    BY <2>1 DEF AtSource
  <2>3. AtCall => AtCall'
    BY <2>1 DEF AtCall, IsGot, Source
  <2>4. Running /\ clock \in Nat => Running'
    BY <2>1 DEF Running, AllRows
  <2> QED BY <2>1, <2>2, <2>3, <2>4 DEF TypeInv, AllRows
<1> QED
  BY <1>1, <1>2, <1>3, <1>4, <1>5, <1>6, <1>7 DEF Next, Collect

(* Every reachable state has its shape: what is stored are rows of          *)
(* evidence, and a run under way is at a source of its file or at a call of *)
(* it (the loop of cli/collect.py).                                         *)
THEOREM TypeCorrect == Spec => []TypeInv
<1>1. TypeInv /\ [Next]_vars => TypeInv'
  BY TypeNext
<1> QED BY TypeInit, <1>1, PTL DEF Spec

-----------------------------------------------------------------------------
(* A source that did not answer is visible.                                *)

LEMMA SilenceInit == Init => SilenceInv
BY DEF Init, SilenceInv, SilenceIsVisible, Judged, NoRun

\* The steps in which a run goes on without storing anything or ending.
LEMMA StillWaiting ==
  ASSUME TypeInv, SilenceInv, run # NoRun, run'.enabled = run.enabled, run'.now = run.now,
         run'.todo = run.todo, UNCHANGED <<stored, last>>, run'.pc # "idle", run' # NoRun
  PROVE  SilenceInv'
BY DEF SilenceInv, SilenceIsVisible, Judged, Waiting, AnsweredSince

LEMMA SilenceNext ==
  ASSUME TypeInv, SilenceInv, [Next]_vars
  PROVE  SilenceInv'
<1>1. CASE Open
  <2>1. /\ run' = [pc |-> "source", todo |-> file, prior |-> stored, now |-> clock,
                   kinds |-> ActiveKinds(manifest), enabled |-> Enabled(file)]
    BY <1>1 DEF Open
  <2>2. \A s \in Enabled(file) : \E i \in DOMAIN file : file[i].enabled /\ file[i].id = s
    BY DEF Enabled
  <2>3. run'.pc # "idle"
    BY <2>1
  <2> QED BY <2>1, <2>2, <2>3 DEF SilenceInv, SilenceIsVisible, Judged, Waiting
<1>2. CASE Skip
  <2>1. /\ AtSource /\ Running /\ run.todo # <<>> /\ ~Source.enabled
        /\ run' = [run EXCEPT !.todo = Tail(@)] /\ UNCHANGED <<stored, last>>
    BY <1>2 DEF Skip, TypeInv, NoRun, AtCall
  <2>2. run' = [pc |-> "source", todo |-> Tail(run.todo), prior |-> run.prior,
                now |-> run.now, kinds |-> run.kinds, enabled |-> run.enabled]
    BY <2>1 DEF AtSource
  <2>3. \A s : Waiting(s) => \E i \in DOMAIN Tail(run.todo) :
                               Tail(run.todo)[i].enabled /\ Tail(run.todo)[i].id = s
    BY <2>1, HeadTail DEF Waiting, Running, Source
  <2> QED BY <2>1, <2>2, <2>3 DEF SilenceInv, SilenceIsVisible, Judged, Waiting, AnsweredSince,
                                  AtSource, NoRun
<1>3. CASE Handshake
  <2>1. /\ AtSource /\ UNCHANGED <<stored>>
        /\ \/ Aborted
           \/ /\ last' = last
              /\ \E plugin, extensions :
                run' = [pc |-> "call", todo |-> run.todo, prior |-> run.prior,
                        now |-> run.now, kinds |-> run.kinds, enabled |-> run.enabled,
                        left |-> MethodsFor(Source), got |-> Nothing, failed |-> FALSE,
                        plugin |-> plugin, extensions |-> extensions]
    BY <1>3 DEF Handshake, Ends, Aborted, TypeInv, NoRun, AtCall
  <2>2. CASE Aborted
    BY <2>2 DEF Aborted, SilenceInv, SilenceIsVisible, Judged
  <2>3. CASE ~Aborted
    BY <2>1, <2>3, StillWaiting DEF AtSource, NoRun
  <2> QED BY <2>2, <2>3
<1>4. CASE Ask
  <2>1. CASE Aborted
    BY <2>1 DEF Aborted, SilenceInv, SilenceIsVisible, Judged
  <2>2. CASE Refused \/ Answers
    <3>1. AtCall /\ UNCHANGED stored
      BY <1>4, AskIs
    <3>2. /\ run'.enabled = run.enabled /\ run'.now = run.now /\ run'.todo = run.todo
          /\ run'.pc = "call" /\ UNCHANGED <<stored, last>>
      BY <2>2, <3>1 DEF AtCall, Refused, Answers
    <3> QED BY <3>1, <3>2, StillWaiting DEF AtCall, NoRun
  <2> QED BY <1>4, AskIs, <2>1, <2>2
<1>5. CASE Record
  <2>1. /\ AtCall /\ Running /\ UNCHANGED last
        /\ stored' = Updated(stored, [s \in {Source.id} |-> Outcome])
        /\ run' = [pc |-> "source", todo |-> Tail(run.todo), prior |-> run.prior,
                   now |-> run.now, kinds |-> run.kinds, enabled |-> run.enabled]
    BY <1>5, RecordIs
  <2>2. Outcome.ok => Outcome.asOf >= run.now
    BY <2>1, OutcomeIs DEF AtCall, IsGot, Fresh
  <2>3. PICK row : row = Outcome
    OBVIOUS
  <2>4. /\ Source.id \in DOMAIN stored' /\ stored'[Source.id] = row
        /\ \A s \in DOMAIN stored \ {Source.id} : s \in DOMAIN stored' /\ stored'[s] = stored[s]
    BY <2>1, <2>3 DEF Updated
  <2>5. ASSUME NEW s, s = Source.id \/ AnsweredSince(s, run.now)
        PROVE  s \in DOMAIN stored' /\ (stored'[s].ok => stored'[s].asOf >= run.now)
    BY <2>2, <2>3, <2>4, <2>5 DEF AnsweredSince
  <2>6. ASSUME NEW s, Waiting(s), s # Source.id
        PROVE  \E i \in DOMAIN Tail(run.todo) :
                 Tail(run.todo)[i].enabled /\ Tail(run.todo)[i].id = s
    <3>1. PICK i \in DOMAIN run.todo : run.todo[i].enabled /\ run.todo[i].id = s
      BY <2>6 DEF Waiting
    <3>2. i # 1
      BY <2>1, <2>6, <3>1, HeadTail DEF Source, AtCall, Running
    <3> QED BY <2>1, <3>1, <3>2, HeadTail DEF AtCall, Running
  <2>7. run # NoRun /\ run'.pc = "source"
    BY <2>1 DEF AtCall, NoRun
  <2>8. ASSUME NEW s \in run.enabled
        PROVE  (Waiting(s) \/ AnsweredSince(s, run.now))'
    BY <2>1, <2>5, <2>6, <2>7 DEF SilenceInv, Waiting, AnsweredSince
  <2> QED BY <2>1, <2>7, <2>8 DEF SilenceInv, SilenceIsVisible, Judged
<1>6. CASE Finish
  <2>1. /\ AtSource /\ run.todo = <<>> /\ UNCHANGED stored /\ run' = NoRun
        /\ last' = [how |-> "done", enabled |-> run.enabled, started |-> run.now]
    BY <1>6 DEF Finish, Ends, TypeInv, NoRun, AtCall
  <2>2. \A s : ~Waiting(s)
    BY <2>1 DEF Waiting
  <2> QED BY <2>1, <2>2 DEF SilenceInv, SilenceIsVisible, Judged, AnsweredSince, AtSource, NoRun
<1>7. CASE Kill
  BY <1>7 DEF Kill, Ends, SilenceInv, SilenceIsVisible, Judged
<1>8. CASE Come \/ Go \/ Regrant \/ Edit \/ Declare \/ Toggle \/ Tick \/ UNCHANGED vars
  BY <1>8, Around DEF SilenceInv, SilenceIsVisible, Judged, Waiting, AnsweredSince
<1> QED
  BY <1>1, <1>2, <1>3, <1>4, <1>5, <1>6, <1>7, <1>8 DEF Next, Collect

(* A run that reached its end leaves every source that was enabled either  *)
(* stale or with an answer of that run (cli/collect.py, collect_source): a *)
(* source that said nothing is never passed over as if it had answered.    *)
THEOREM SilenceVisible == Spec => []SilenceIsVisible
<1>1. SilenceInv /\ TypeInv /\ [Next]_vars => SilenceInv'
  BY SilenceNext
<1>2. SilenceInv => SilenceIsVisible
  BY DEF SilenceInv
<1> QED BY SilenceInit, TypeCorrect, <1>1, <1>2, PTL DEF Spec

-----------------------------------------------------------------------------
(* What is shown as fresh is the whole of an answer.                       *)

LEMMA ReplyIs ==
  /\ Reply.result.entities =
       [k \in Exes[Source.exe].kinds[Head(run.left)] |-> Seen(Source.id, k)]
  /\ Reply.result.coverage = Coverage(Exes[Source.exe], Head(run.left), reach[Source.id])
  /\ Reply.result.names = Names(Exes[Source.exe], Head(run.left), Source.id)
BY DEF Reply, Answer, OkReply

LEMMA WholeInit == Init => WholeInv
BY DEF Init, WholeInv, NoRun

LEMMA WholeNext ==
  ASSUME TypeInv, WholeInv, [Next]_vars
  PROVE  WholeInv'
<1>1. CASE Open \/ Skip
  <2>1. UNCHANGED stored /\ run'.pc # "call"
    BY <1>1 DEF Open, Skip, TypeInv, AtSource, NoRun, AtCall
  <2> QED BY <2>1 DEF WholeInv, AnswerOf
<1>2. CASE Handshake
  <2>1. /\ UNCHANGED stored
        /\ \/ run' = NoRun
           \/ /\ run'.got = Nothing /\ run'.todo = run.todo
              /\ run'.left = MethodsFor(Source)
    BY <1>2 DEF Handshake, Ends
  <2>2. Source' = Source \/ run' = NoRun
    BY <2>1 DEF Source
  <2>3. run' = NoRun \/ Gathered'
    BY <2>1, <2>2 DEF Gathered, Nothing, KindsOf
  <2> QED BY <2>1, <2>3 DEF WholeInv, AnswerOf, NoRun
<1>3. CASE Ask
  <2>1. /\ AtCall /\ run.pc = "call" /\ UNCHANGED stored /\ run.left # <<>>
        /\ run.left \in Seq(Range(MethodsFor(Source)))
    BY <1>3, AskIs DEF AtCall
  <2>2. CASE Aborted
    BY <2>1, <2>2 DEF Aborted, WholeInv, AnswerOf, NoRun
  <2>3. CASE Refused
    <3>1. run'.todo = run.todo /\ run'.got = run.got /\ run'.failed = TRUE
      BY <2>1, <2>3 DEF AtCall, Refused
    <3> QED BY <2>1, <3>1 DEF WholeInv, AnswerOf, Gathered, Source
  <2>4. CASE Answers
    <3>1. PICK got : got = Taken(run.got, Head(run.left), Reply)
      OBVIOUS
    <3>2. /\ run'.todo = run.todo /\ run'.got = got /\ run'.failed = run.failed
          /\ run'.left = Tail(run.left)
      BY <2>1, <2>4, <3>1 DEF AtCall, Answers
    <3>3. /\ got.caps = run.got.caps \union {Head(run.left)}
          /\ DOMAIN got.entities =
               DOMAIN run.got.entities \union Exes[Source.exe].kinds[Head(run.left)]
      BY <3>1, ReplyIs DEF Taken, Merge
    <3>4. DOMAIN got.entities = KindsOf(Source, got.caps)
      BY <2>1, <3>3 DEF WholeInv, Gathered, KindsOf
    <3>5. Range(run.left) = {Head(run.left)} \union Range(Tail(run.left))
      BY <2>1, HeadTail
    <3>6. Source' = Source
      BY <3>2 DEF Source
    <3>7. Gathered'
      BY <2>1, <3>2, <3>3, <3>4, <3>5, <3>6 DEF WholeInv, Gathered
    <3> QED BY <2>1, <3>7 DEF WholeInv, AnswerOf
  <2> QED BY <1>3, AskIs, <2>2, <2>3, <2>4
<1>4. CASE Record
  <2>1. /\ AtCall /\ Running /\ run.pc = "call" /\ run.left = <<>>
        /\ stored' = Updated(stored, [s \in {Source.id} |-> Outcome])
        /\ run'.pc = "source"
    BY <1>4, RecordIs
  <2>2. Source \in Entries
    BY <2>1, HeadTail DEF AtCall, Running, Source
  <2>3. Outcome.ok => AnswerOf(Source.id, Outcome)
    <3> SUFFICES ASSUME Outcome.ok PROVE AnswerOf(Source.id, Outcome)
      OBVIOUS
    <3>1. run.got.caps # {} /\ ~run.failed /\ Outcome = Fresh
      BY <2>1, OutcomeIs
    <3>2. Range(run.left) = {}
      BY <2>1 DEF Range
    <3>3. Outcome.caps = run.got.caps /\ Outcome.entities = run.got.entities
      BY <3>1 DEF Fresh
    <3> QED BY <2>1, <2>2, <3>1, <3>2, <3>3 DEF WholeInv, Gathered, AnswerOf
  <2>4. PICK row : row = Outcome
    OBVIOUS
  <2>5. \A s \in DOMAIN stored' :
          \/ s = Source.id /\ stored'[s] = row
          \/ s \in DOMAIN stored /\ stored'[s] = stored[s]
    BY <2>1, <2>4 DEF Updated
  <2> QED BY <2>1, <2>3, <2>4, <2>5 DEF WholeInv, AnswerOf
<1>5. CASE Finish \/ Kill
  BY <1>5 DEF Finish, Kill, Ends, WholeInv, AnswerOf, NoRun
<1>6. CASE Come \/ Go \/ Regrant \/ Edit \/ Declare \/ Toggle \/ Tick \/ UNCHANGED vars
  BY <1>6, Around DEF WholeInv, AnswerOf, Gathered, Source
<1> QED
  BY <1>1, <1>2, <1>3, <1>4, <1>5, <1>6 DEF Next, Collect

(* What a session shows as fresh is the whole of an answer                 *)
(* (cli/collect.py, collect_source): every method the source is configured *)
(* with has answered, whatever failed, was refused, was killed or was      *)
(* edited in between, and the evidence has the kinds of all of them.       *)
THEOREM FreshWhole == Spec => []FreshIsWhole
<1>1. WholeInv /\ TypeInv /\ [Next]_vars => WholeInv'
  BY WholeNext
<1>2. WholeInv /\ TypeInv => FreshIsWhole
  <2> SUFFICES ASSUME WholeInv, TypeInv, NEW s \in DOMAIN stored, Shown(stored[s], clock).ok
               PROVE  /\ stored[s].caps # {}
                      /\ \E f \in Files : \E i \in DOMAIN f :
                           /\ f[i].id = s /\ Range(MethodsFor(f[i])) = stored[s].caps
                           /\ DOMAIN stored[s].entities =
                                UNION {Exes[f[i].exe].kinds[m] : m \in stored[s].caps}
    BY DEF FreshIsWhole
  <2>1. stored[s].ok
    BY DEF Shown, Stale, TypeInv, AllRows, IsRow
  <2>2. PICK src \in Entries : /\ src.id = s /\ Range(MethodsFor(src)) = stored[s].caps
                               /\ DOMAIN stored[s].entities = KindsOf(src, stored[s].caps)
    BY <2>1 DEF WholeInv, AnswerOf
  <2>3. \E f \in Files : \E i \in DOMAIN f : f[i] = src
    BY DEF Entries, Range
  <2> QED BY <2>1, <2>2, <2>3 DEF KindsOf, WholeInv, AnswerOf
<1> QED BY WholeInit, TypeCorrect, <1>1, <1>2, PTL DEF Spec

-----------------------------------------------------------------------------
(* A missing row is about absence.                                         *)

LEMMA EstateInit == Init => EstateInv
BY DEF Init, EstateInv, Widest, Sources

LEMMA EstateNext == ASSUME EstateInv, [Next]_vars PROVE EstateInv'
<1>1. CASE UNCHANGED around
  BY <1>1 DEF EstateInv, around
<1>2. CASE Come \/ Go \/ Declare \/ Toggle \/ Edit
  BY <1>2 DEF EstateInv, Come, Go, Declare, Toggle, Edit
<1>3. CASE Regrant
  BY <1>3 DEF EstateInv, Regrant
<1> QED BY <1>1, <1>2, <1>3 DEF Next, Collect, vars, around, Open, Skip, Handshake, Ask, Record,
                            Finish, Kill, Tick

LEMMA AbsenceInit == Init => AbsenceInv
BY DEF Init, AbsenceInv, NoRun

\* What a run holds once a method has answered.
Answered(method, exe, places, old, new, got) ==
  /\ /\ Source \in Entries /\ Source.id \in Sources /\ Source.exe \in DOMAIN Exes
     /\ method \in Range(MethodsFor(Source)) \intersect DOMAIN exe.kinds
     /\ exe = Exes[Source.exe] /\ old = run.got
     /\ places = reach[Source.id] /\ places \in Reaches[Source.id]
  /\ /\ new.entities = [k \in exe.kinds[method] |-> Seen(Source.id, k)]
     /\ new.coverage = Coverage(exe, method, places)
     /\ new.names = Names(exe, method, Source.id)
     /\ exe.kinds[method] \subseteq run.kinds
  /\ /\ got.entities = Merge(old.entities, new.entities)
     /\ got.coverage = Updated(old.coverage, Reported(new.coverage))
     /\ got.names = IF new.names = <<>> THEN old.names ELSE new.names
     /\ got.world = Updated(old.world,
          [k \in DOMAIN new.entities \union {x \in {"secret"} : new.names # <<>>} |->
             {t \in things : t.kind = k}])
     /\ got.asked = Updated(old.asked,
          [k \in DOMAIN new.entities \union {x \in {"secret"} : new.names # <<>>} |->
                        [exe |-> Source.exe, method |-> method, places |-> places,
                         own |-> DOMAIN Source.coverage]])
  /\ /\ DOMAIN old.entities = KindsOf(Source, old.caps) /\ old.caps \subseteq DOMAIN exe.kinds
     /\ DOMAIN got.entities = DOMAIN old.entities \union exe.kinds[method]

LEMMA AnswersAre ==
  ASSUME TypeInv, WholeInv, EstateInv, AskedInv, AtCall, Running, run.left # <<>>, Answers,
         NEW got, got = Taken(run.got, Head(run.left), Reply)
  PROVE  \E method, exe, places, old, new : Answered(method, exe, places, old, new, got)
<1>0. PICK method, exe, places, old, new :
        /\ method = Head(run.left) /\ exe = Exes[Source.exe] /\ places = reach[Source.id]
        /\ old = run.got /\ new = Reply.result
  OBVIOUS
<1>1. Source \in Entries
  BY HeadTail DEF AtCall, Running, Source
<1>2. /\ Source.id \in Sources /\ Source.exe \in DOMAIN Exes
      /\ method \in Range(MethodsFor(Source)) \intersect DOMAIN exe.kinds
      /\ places \in Reaches[Source.id]
  BY <1>0, <1>1, HeadTail, FilesAssumption DEF AtCall, Answers, EstateInv, Entries, Sources
<1>3. /\ new.entities = [k \in exe.kinds[method] |-> Seen(Source.id, k)]
      /\ new.coverage = Coverage(exe, method, places)
      /\ new.names = Names(exe, method, Source.id)
      /\ exe.kinds[method] \subseteq run.kinds
  BY <1>0, ReplyIs DEF Answers, Parses
<1>4. /\ got.entities = Merge(old.entities, new.entities)
      /\ got.coverage = Updated(old.coverage, Reported(new.coverage))
      /\ got.names = IF new.names = <<>> THEN old.names ELSE new.names
      /\ got.world = Updated(old.world,
           [k \in DOMAIN new.entities \union {x \in {"secret"} : new.names # <<>>} |->
              {t \in things : t.kind = k}])
      /\ got.asked = Updated(old.asked,
          [k \in DOMAIN new.entities \union {x \in {"secret"} : new.names # <<>>} |->
                        [exe |-> Source.exe, method |-> method, places |-> places,
                         own |-> DOMAIN Source.coverage]])
  BY <1>0 DEF Taken
<1>5. /\ DOMAIN old.entities = KindsOf(Source, old.caps)
      /\ old.caps \subseteq DOMAIN exe.kinds
  BY <1>0 DEF AskedInv, AtCall, WholeInv, Gathered
<1>6. DOMAIN got.entities = DOMAIN old.entities \union exe.kinds[method]
  BY <1>3, <1>4 DEF Merge
<1>7. Answered(method, exe, places, old, new, got)
  BY <1>0, <1>1, <1>2, <1>3, <1>4, <1>5, <1>6 DEF Answered
<1> QED BY <1>7

LEMMA AskedInit == Init => AskedInv
BY DEF Init, AskedInv, NoRun

LEMMA AskedNext == ASSUME TypeInv, WholeInv, AskedInv, [Next]_vars PROVE AskedInv'
<1>1. CASE Open \/ Skip \/ Record \/ Finish \/ Kill
  <2>1. run'.pc # "call"
    <3>1. CASE Open \/ Finish \/ Kill
      BY <3>1 DEF Open, Finish, Kill, Ends, NoRun
    <3>2. CASE Skip
      BY <3>2 DEF Skip, TypeInv, AtSource, NoRun, AtCall
    <3>3. CASE Record
      BY <3>3, RecordIs
    <3> QED BY <1>1, <3>1, <3>2, <3>3
  <2> QED BY <2>1 DEF AskedInv
<1>2. CASE Handshake
  <2>1. run' = NoRun \/ run'.got = Nothing
    BY <1>2 DEF Handshake, Ends
  <2> QED BY <2>1 DEF AskedInv, NoRun, Nothing
<1>3. CASE Ask
  <2>1. AtCall /\ Running /\ run.pc = "call" /\ run.left # <<>>
    BY <1>3, AskIs
  <2>2. CASE Aborted
    BY <2>2 DEF Aborted, AskedInv, NoRun
  <2>3. CASE Refused
    <3>1. run'.got = run.got /\ Source' = Source
      BY <2>1, <2>3 DEF AtCall, Refused, Source
    <3> QED BY <2>1, <3>1 DEF AskedInv
  <2>4. CASE Answers
    <3>1. PICK got : got = Taken(run.got, Head(run.left), Reply)
      OBVIOUS
    <3>2. run'.got = got /\ Source' = Source
      BY <2>1, <2>4, <3>1 DEF AtCall, Answers, Source
    <3>3. got.caps = run.got.caps \union {Head(run.left)}
      BY <3>1 DEF Taken
    <3> QED BY <2>1, <2>4, <3>2, <3>3 DEF AskedInv, Answers
  <2> QED BY <1>3, AskIs, <2>2, <2>3, <2>4
<1>4. CASE Come \/ Go \/ Regrant \/ Edit \/ Declare \/ Toggle \/ Tick \/ UNCHANGED vars
  BY <1>4, Around DEF AskedInv, Source
<1> QED
  BY <1>1, <1>2, <1>3, <1>4 DEF Next, Collect

\* A kind the method does not report is as it was, and plugins that report
\* secrets do not report a store's bare references alone.
LEMMA OtherKinds ==
  ASSUME WellReported, NEW exe, NEW method \in DOMAIN exe.kinds, NEW src, exe = Exes[src.exe],
         src.exe \in DOMAIN Exes, NEW names, names = Names(exe, method, src.id),
         NEW caps \in SUBSET DOMAIN exe.kinds, "secret" \in KindsOf(src, caps),
         "secret" \notin exe.kinds[method]
  PROVE  names = <<>>
<1>1. PICK m \in caps : "secret" \in exe.kinds[m]
  BY DEF KindsOf
<1>2. exe.names[method] = {}
  BY <1>1 DEF WellReported
<1> QED BY <1>2 DEF Names

LEMMA AnswersAccounted ==
  ASSUME WellReported, TypeInv, WholeInv, EstateInv, AskedInv,
         AbsenceInv, AtCall, Running, run.left # <<>>, Answers,
         NEW got, got = Taken(run.got, Head(run.left), Reply)
  PROVE  AccountedSoFar(Source, got)
<1>0. PICK method, exe, places, old, new : Answered(method, exe, places, old, new, got)
  BY AnswersAre
<1>1. /\ Source \in Entries /\ Source.id \in Sources /\ Source.exe \in DOMAIN Exes
      /\ method \in DOMAIN exe.kinds /\ exe = Exes[Source.exe]
      /\ places = reach[Source.id] /\ old = run.got
  BY <1>0 DEF Answered
<1>2. /\ new.entities = [k \in exe.kinds[method] |-> Seen(Source.id, k)]
      /\ new.coverage = Coverage(exe, method, places)
      /\ new.names = Names(exe, method, Source.id)
      /\ exe.kinds[method] \subseteq run.kinds
  BY <1>0 DEF Answered
<1>3. PICK said : said = Reported(new.coverage)
  OBVIOUS
<1>4. PICK was : was = [exe |-> Source.exe, method |-> method, places |-> places,
                        own |-> DOMAIN Source.coverage]
  OBVIOUS
<1>5. /\ got.entities = Merge(old.entities, new.entities)
      /\ got.coverage = Updated(old.coverage, said)
      /\ got.world = Updated(old.world,
           [k \in DOMAIN new.entities \union {x \in {"secret"} : new.names # <<>>} |->
              {t \in things : t.kind = k}])
      /\ got.asked = Updated(old.asked,
           [k \in DOMAIN new.entities \union {x \in {"secret"} : new.names # <<>>} |-> was])
  BY <1>0, <1>3, <1>4 DEF Answered
<1>6. /\ AccountedSoFar(Source, old) /\ DOMAIN old.entities = KindsOf(Source, old.caps)
      /\ old.caps \subseteq DOMAIN exe.kinds
      /\ DOMAIN got.entities = DOMAIN old.entities \union exe.kinds[method]
  BY <1>0 DEF Answered, AbsenceInv, AtCall
<1>7. ASSUME NEW k \in exe.kinds[method]
      PROVE  AccountedFor(got, k) /\ got.asked[k].own = DOMAIN Source.coverage
  <2>1. /\ k \in DOMAIN got.world /\ got.world[k] = {t \in things : t.kind = k}
        /\ k \in DOMAIN got.asked /\ got.asked[k] = was
    BY <1>2, <1>5 DEF Updated
  <2>2. ASSUME NEW t \in things, t.kind = k, Place[t] \in places
        PROVE  \E e \in got.entities[k] : e.id = t.id
    <3>1. PICK e : e = [id |-> t.id, f |-> t.f]
      OBVIOUS
    <3>2. e \in new.entities[k] /\ e.id = t.id
      BY <1>1, <1>2, <2>2, <3>1 DEF Seen, Visible
    <3>3. PICK before : before = IF k \in DOMAIN old.entities THEN old.entities[k] ELSE {}
      OBVIOUS
    <3>4. got.entities[k] = before \union {x \in new.entities[k] : \A y \in before : y.id # x.id}
      BY <1>2, <1>5, <3>3 DEF Merge
    <3> QED BY <3>2, <3>4
  <2>3. Claims(was, k, got.coverage)
    <3>1. ASSUME NEW field, NEW words, Claimed(new.coverage, k, field, words),
                 DOMAIN new.coverage[k].where \subseteq FieldsOf(k)
          PROVE  Claimed(got.coverage, k, field, words)
      <4>1. k \in run.kinds /\ ValidScope(k, new.coverage[k]) /\ k \in DOMAIN new.coverage
        BY <1>2, <1>7, <3>1 DEF ValidScope, Claimed
      <4>2. k \in DOMAIN said /\ said[k] = new.coverage[k]
        BY <1>3, <4>1 DEF Reported
      <4>3. k \in DOMAIN got.coverage /\ got.coverage[k] = new.coverage[k]
        BY <1>5, <4>2 DEF Updated
      <4> QED BY <3>1, <4>3 DEF Claimed
    <3>2. was.exe = Source.exe /\ was.method = method /\ was.places = places
      BY <1>4
    <3>3. CASE exe.name = "dns-cloudflare" /\ method = "dns.records" /\ k = "domain"
               /\ places # {}
      <4>1. new.coverage = [domain |-> [ids |-> None, where |-> [zone |-> places]]]
        BY <1>2, <3>3 DEF Coverage
      <4>2. /\ Claimed(new.coverage, k, "zone", places)
            /\ DOMAIN new.coverage[k].where = {"zone"} /\ "zone" \in FieldsOf(k)
        BY <3>3, <4>1 DEF Claimed, WellReported
      <4>3. Claimed(got.coverage, k, "zone", places)
        BY <3>1, <4>2
      <4> QED BY <1>1, <3>2, <3>3, <4>3 DEF Claims
    <3>4. CASE exe.name = "secrets-infisical" /\ method = "secret.list" /\ k = "secret"
      <4>1. new.coverage = [secret |-> [ids |-> None, where |-> [store |-> exe.names[method]]]]
        BY <1>2, <3>4 DEF Coverage
      <4>2. /\ Claimed(new.coverage, k, "store", exe.names[method])
            /\ DOMAIN new.coverage[k].where = {"store"} /\ "store" \in FieldsOf(k)
        BY <3>4, <4>1 DEF Claimed, WellReported
      <4>3. Claimed(got.coverage, k, "store", exe.names[method])
        BY <3>1, <4>2
      <4> QED BY <1>1, <3>2, <3>4, <4>3 DEF Claims
    <3> QED BY <1>1, <3>2, <3>3, <3>4 DEF Claims
  <2> QED BY <1>4, <2>1, <2>2, <2>3 DEF AccountedFor
<1>8. ASSUME NEW k \in DOMAIN old.entities \ exe.kinds[method]
      PROVE  AccountedFor(got, k) /\ got.asked[k].own = DOMAIN Source.coverage
  <2>1. AccountedFor(old, k) /\ old.asked[k].own = DOMAIN Source.coverage
    BY <1>6, <1>8 DEF AccountedSoFar, Accounted
  <2>2. got.entities[k] = old.entities[k]
    <3>1. k \notin DOMAIN new.entities
      BY <1>2, <1>8
    <3>2. PICK had : had = old.entities[k]
      OBVIOUS
    <3>3. got.entities[k] = had \union {e \in {} : \A x \in had : x.id # e.id}
      BY <1>5, <1>8, <3>1, <3>2 DEF Merge
    <3> QED BY <3>2, <3>3
  <2>3. k = "secret" => new.names = <<>>
    BY <1>1, <1>2, <1>6, <1>8, OtherKinds
  <2>4. /\ k \in DOMAIN got.world /\ got.world[k] = old.world[k]
        /\ k \in DOMAIN got.asked /\ got.asked[k] = old.asked[k]
    <3>1. k \in DOMAIN old.world /\ k \in DOMAIN old.asked /\ k \notin DOMAIN new.entities
      BY <1>2, <1>8, <2>1 DEF AccountedFor
    <3>2. k \in DOMAIN got.world /\ got.world[k] = old.world[k]
      BY <1>5, <2>3, <3>1 DEF Updated
    <3>3. k \in DOMAIN got.asked /\ got.asked[k] = old.asked[k]
      BY <1>5, <2>3, <3>1 DEF Updated
    <3> QED BY <3>2, <3>3
  <2>5. k \notin DOMAIN said
    <3>1. DOMAIN new.coverage \subseteq exe.kinds[method]
      BY <1>1, <1>2 DEF Coverage, WellReported
    <3> QED BY <1>3, <1>8, <3>1 DEF Reported
  <2>6. /\ k \in DOMAIN old.coverage => k \in DOMAIN got.coverage
                                        /\ got.coverage[k] = old.coverage[k]
    BY <1>5, <2>5 DEF Updated
  <2>7. ASSUME Claims(old.asked[k], k, old.coverage) PROVE Claims(got.asked[k], k, got.coverage)
    BY <2>4, <2>6, <2>7 DEF Claims, Claimed
  <2> QED BY <2>1, <2>2, <2>4, <2>7 DEF AccountedFor
<1> QED BY <1>6, <1>7, <1>8 DEF AccountedSoFar, Accounted

LEMMA FreshAccounted ==
  ASSUME AtCall, AccountedSoFar(Source, run.got)
  PROVE  Accounted(Fresh)
<1>1. PICK row : row = Fresh
  OBVIOUS
<1>2. /\ row.entities = run.got.entities /\ row.world = run.got.world
      /\ row.asked = run.got.asked
      /\ row.coverage = Updated(run.got.coverage, Source.coverage)
  BY <1>1 DEF Fresh
<1>3. ASSUME NEW k \in DOMAIN row.entities PROVE AccountedFor(row, k)
  <2>1. AccountedFor(run.got, k) /\ run.got.asked[k].own = DOMAIN Source.coverage
    BY <1>2, <1>3 DEF AccountedSoFar, Accounted
  <2>2. ASSUME k \notin DOMAIN Source.coverage, Claims(run.got.asked[k], k, run.got.coverage)
        PROVE  Claims(row.asked[k], k, row.coverage)
    <3>1. k \in DOMAIN run.got.coverage => k \in DOMAIN row.coverage
                                           /\ row.coverage[k] = run.got.coverage[k]
      BY <1>2, <2>2 DEF Updated
    <3> QED BY <1>2, <2>2, <3>1 DEF Claims, Claimed
  <2> QED BY <1>2, <2>1, <2>2 DEF AccountedFor
<1> QED BY <1>1, <1>3 DEF Accounted

LEMMA AbsenceNext ==
  ASSUME WellReported, TypeInv, WholeInv, EstateInv, AskedInv, AbsenceInv,
         [Next]_vars
  PROVE  AbsenceInv'
<1>1. CASE Open
  <2>1. UNCHANGED stored /\ run'.pc = "source" /\ run'.prior = stored
    BY <1>1 DEF Open
  <2> QED BY <2>1 DEF AbsenceInv
<1>2. CASE Skip
  <2>1. UNCHANGED stored /\ run.pc = "source" /\ run'.pc = "source" /\ run'.prior = run.prior
    BY <1>2 DEF Skip, TypeInv, AtSource, NoRun, AtCall
  <2> QED BY <2>1 DEF AbsenceInv
<1>3. CASE Handshake
  <2>1. /\ UNCHANGED stored /\ run.pc = "source"
        /\ \/ run' = NoRun
           \/ run'.got = Nothing /\ run'.prior = run.prior
    BY <1>3 DEF Handshake, Ends
  <2>2. CASE run' = NoRun
    BY <2>1, <2>2 DEF AbsenceInv, NoRun
  <2>3. CASE run' # NoRun
    <3>1. AccountedSoFar(Source', Nothing)
      BY DEF AccountedSoFar, Accounted, Nothing
    <3> QED BY <2>1, <2>3, <3>1 DEF AbsenceInv
  <2> QED BY <2>2, <2>3
<1>4. CASE Ask
  <2>1. AtCall /\ Running /\ run.pc = "call" /\ UNCHANGED stored /\ run.left # <<>>
    BY <1>4, AskIs
  <2>2. CASE Aborted
    BY <2>1, <2>2 DEF Aborted, AbsenceInv, NoRun
  <2>3. CASE Refused
    <3>1. run'.got = run.got /\ run'.prior = run.prior /\ Source' = Source
      BY <2>1, <2>3 DEF AtCall, Refused, Source
    <3> QED BY <2>1, <3>1 DEF AbsenceInv
  <2>4. CASE Answers
    <3>1. PICK got : got = Taken(run.got, Head(run.left), Reply)
      OBVIOUS
    <3>2. run'.got = got /\ run'.prior = run.prior /\ Source' = Source
      BY <2>1, <2>4, <3>1 DEF AtCall, Answers, Source
    <3>3. AccountedSoFar(Source, got)
      BY <2>1, <2>4, <3>1, AnswersAccounted
    <3> QED BY <2>1, <3>2, <3>3 DEF AbsenceInv
  <2> QED BY <1>4, AskIs, <2>2, <2>3, <2>4
<1>5. CASE Record
  <2>1. /\ AtCall /\ run.pc = "call"
        /\ stored' = Updated(stored, [s \in {Source.id} |-> Outcome])
        /\ run'.pc = "source" /\ run'.prior = run.prior
    BY <1>5, RecordIs
  <2>2. PICK row : row = Outcome
    OBVIOUS
  <2>3. Accounted(row)
    <3>1. CASE Outcome = Fresh
      BY <2>1, <2>2, <3>1, FreshAccounted DEF AbsenceInv
    <3>2. CASE Outcome.entities = <<>>
      BY <2>2, <3>2 DEF Accounted
    <3>3. CASE /\ Source.id \in DOMAIN run.prior
               /\ Outcome.entities = run.prior[Source.id].entities
               /\ Outcome.coverage = run.prior[Source.id].coverage
               /\ Outcome.world = run.prior[Source.id].world
               /\ Outcome.asked = run.prior[Source.id].asked
      <4>1. Accounted(run.prior[Source.id])
        BY <2>1, <3>3 DEF AbsenceInv
      <4> QED BY <2>2, <3>3, <4>1 DEF Accounted, AccountedFor
    <3> QED BY <2>1, <3>1, <3>2, <3>3, OutcomeIs
  <2>4. \A s \in DOMAIN stored' :
          \/ s = Source.id /\ stored'[s] = row
          \/ s \in DOMAIN stored /\ stored'[s] = stored[s]
    BY <2>1, <2>2 DEF Updated
  <2> QED BY <2>1, <2>3, <2>4 DEF AbsenceInv
<1>6. CASE Finish \/ Kill
  BY <1>6 DEF Finish, Kill, Ends, AbsenceInv, NoRun
<1>7. CASE Come \/ Go \/ Regrant \/ Edit \/ Declare \/ Toggle \/ Tick \/ UNCHANGED vars
  BY <1>7, Around DEF AbsenceInv, Source
<1> QED
  BY <1>1, <1>2, <1>3, <1>4, <1>5, <1>6, <1>7 DEF Next, Collect

\* What is declared and was seen is matched, so it is no missing row.
LEMMA MissingIsUnmatched ==
  ASSUME WellReported, EstateInv, NEW ev, NEW k, NEW row \in CompareKind(catalog, ev, k, Plugs),
         row.category = "missing", NEW d \in DeclaredOf(catalog, k), d.id = row.id
  PROVE  /\ \A e \in ev.entities[k] : e.id # d.id
         /\ d.kind \in DOMAIN ev.coverage => ScopeCovers(ev.coverage[d.kind], d)
<1> DEFINE declaration == DeclarationOf(Plugs, ev.plugin, k)
           target      == [e \in ev.entities[k] |-> Target(catalog, k, e, declaration)]
<1>1. PICK x \in DeclaredOf(catalog, k) \ Matched(target) :
        Covers(ev, x, declaration) /\ row = Divergence("missing", k, x.id, ev.source, None, TRUE)
  <2>1. row \in Undeclared(catalog, ev, k, target) \union Differing(ev, k, target)
               \union Missing(catalog, ev, k, target, declaration)
    BY DEF CompareKind
  <2> HIDE DEF target, declaration
  <2>2. row \notin Undeclared(catalog, ev, k, target)
    BY DEF Undeclared, Divergence
  <2>3. row \notin Differing(ev, k, target)
    BY DEF Differing, Divergence
  <2> QED BY <2>1, <2>2, <2>3 DEF Missing
<1>2. x = d /\ None \notin catalog.entities
  BY <1>1 DEF Divergence, DeclaredOf, WellReported, EstateInv
<1>3. ASSUME NEW e \in ev.entities[k], e.id = d.id PROVE FALSE
  <2>1. Correlates(catalog, k, e, declaration) = {d}
    BY <1>3 DEF Correlates, DeclaredOf, WellReported, EstateInv
  <2>2. target[e] = d
    BY <2>1 DEF Target
  <2>3. d \in Matched(target)
    BY <1>2, <2>2 DEF Matched, Range, DeclaredOf
  <2> QED BY <1>1, <1>2, <2>3
<1> QED BY <1>1, <1>2, <1>3 DEF Covers

(* What drift calls missing was not in view (core/drift.py, compare_kind): *)
(* of all the source could see when it last answered for the kind, nothing *)
(* was what was declared, and that is in a zone or a store its collector    *)
(* then spoke for, unless plugins.yaml says what it covers.  Nothing is    *)
(* assumed of what a source sees: where it sees less than it speaks for,   *)
(* a `missing` row need not mean absence.                                  *)
THEOREM MissingUnseen == WellReported => (Spec => []MissingIsUnseen)
<1> SUFFICES ASSUME WellReported PROVE Spec => []MissingIsUnseen
  OBVIOUS
<1>1. AbsenceInv /\ AskedInv /\ EstateInv /\ WholeInv /\ TypeInv /\ [Next]_vars => AbsenceInv'
  BY AbsenceNext
<1>2. EstateInv /\ [Next]_vars => EstateInv'
  BY EstateNext
<1>3. WholeInv /\ TypeInv /\ [Next]_vars => WholeInv'
  BY WholeNext
<1>4. AbsenceInv /\ EstateInv => MissingIsUnseen
  <2> SUFFICES ASSUME AbsenceInv, EstateInv, NEW s \in DOMAIN stored,
                      NEW k \in DOMAIN stored[s].entities \intersect CoreKinds,
                      NEW row \in CompareKind(catalog, stored[s], k, Plugs),
                      row.category = "missing",
                      NEW d \in DeclaredOf(catalog, k), d.id = row.id
               PROVE  /\ \A t \in InView(stored[s], k) : ~Is(t, d)
                      /\ SpokenFor(stored[s], d)
    BY DEF MissingIsUnseen
  <2>1. PICK ev : ev = stored[s]
    OBVIOUS
  <2>2. AccountedFor(ev, k) /\ d.kind = k
    BY <2>1 DEF AbsenceInv, Accounted, DeclaredOf
  <2>3. /\ \A e \in ev.entities[k] : e.id # d.id
        /\ k \in DOMAIN ev.coverage => ScopeCovers(ev.coverage[k], d)
    BY <2>1, <2>2, MissingIsUnmatched
  <2>4. ASSUME NEW t \in InView(ev, k) PROVE ~Is(t, d)
    BY <2>2, <2>3, <2>4 DEF InView, AccountedFor, Is
  <2>5. ASSUME NEW field, NEW words, Claimed(ev.coverage, k, field, words)
        PROVE  Said(d, field) \intersect words # {}
    BY <2>3, <2>5 DEF Claimed, ScopeCovers
  <2>6. SpokenFor(ev, d)
    BY <2>2, <2>5 DEF SpokenFor, AccountedFor, Claims
  <2> QED BY <2>1, <2>4, <2>6
<1>5. AskedInv /\ WholeInv /\ TypeInv /\ [Next]_vars => AskedInv'
  BY AskedNext
<1> QED
  BY AbsenceInit, AskedInit, EstateInit, WholeInit, TypeCorrect, <1>1, <1>2, <1>3, <1>4, <1>5, PTL
  DEF Spec

-----------------------------------------------------------------------------
(* A reference said to be only in one store is missing from another.       *)

\* An entity says what the thing it stands for says.
LEMMA Likeness ==
  ASSUME NEW t, NEW e, e = [id |-> t.id, f |-> t.f], NEW field
  PROVE  Said(e, field) = Said(t, field)
BY DEF Said

\* What a source tells of a store, it tells as a secret or by its name.
LEMMA TellsOf ==
  ASSUME NEW ev, NEW store
  PROVE  /\ store \in StoresOf(ev) <=> \/ \E e \in SecretsIn(ev) : store \in Said(e, "store")
                                       \/ store \in DOMAIN ev.names
         /\ \A r : r \in RefsFrom(ev, store) <=>
              \/ \E e \in SecretsIn(ev) : store \in Said(e, "store") /\ r \in Said(e, "ref")
              \/ store \in DOMAIN ev.names /\ r \in ev.names[store]
<1>1. store \in StoresOf(ev) <=> \/ \E e \in SecretsIn(ev) : store \in Said(e, "store")
                                 \/ store \in DOMAIN ev.names
  BY DEF StoresOf
<1> DEFINE bare == IF store \in DOMAIN ev.names THEN ev.names[store] ELSE {}
<1>2. ASSUME NEW r
      PROVE  r \in RefsFrom(ev, store) <=>
              \/ \E e \in SecretsIn(ev) : store \in Said(e, "store") /\ r \in Said(e, "ref")
              \/ r \in bare
  BY DEF RefsFrom
<1> QED BY <1>1, <1>2

LEMMA TruthInit == Init => TruthInv
BY DEF Init, TruthInv, NoRun

LEMMA NothingTold == Told(Nothing) /\ Sighted(Nothing)
<1>1. SecretsIn(Nothing) = {} /\ DOMAIN Nothing.names = {} /\ DOMAIN Nothing.entities = {}
  BY DEF Nothing, SecretsIn
<1> QED BY <1>1 DEF Told, Sighted, StoresOf

\* Only these parts of an answer matter here.
LEMMA ToldOf ==
  ASSUME NEW a, NEW b, Told(a),
         b.entities = a.entities, b.names = a.names, b.world = a.world,
         b.asked = a.asked
  PROVE  Told(b)
<1>1. SecretsIn(b) = SecretsIn(a)
  BY DEF SecretsIn
<1>2. StoresOf(b) = StoresOf(a) /\ \A store : RefsFrom(b, store) = RefsFrom(a, store)
  BY <1>1 DEF StoresOf, RefsFrom
<1>3. InView(b, "secret") = InView(a, "secret")
  BY DEF InView
<1> QED BY <1>2, <1>3 DEF Told

\* A kept row tells what it told before.
LEMMA OutcomeTold ==
  ASSUME TypeInv, TruthInv, AtCall
  PROVE  Told(Outcome)
<1>1. Told(run.got) /\ \A s \in DOMAIN run.prior : Told(run.prior[s])
  BY DEF TruthInv, AtCall
<1>2. PICK row : row = Outcome
  OBVIOUS
<1>3. CASE row = Fresh
  BY <1>1, <1>2, <1>3, ToldOf DEF Fresh
<1>4. CASE row.entities = <<>> /\ row.names = <<>>
  BY <1>2, <1>4 DEF Told, StoresOf, SecretsIn
<1>5. CASE /\ Source.id \in DOMAIN run.prior
           /\ row.entities = run.prior[Source.id].entities
           /\ row.names = run.prior[Source.id].names
           /\ row.world = run.prior[Source.id].world
           /\ row.asked = run.prior[Source.id].asked
  BY <1>1, <1>2, <1>5, ToldOf
<1> QED BY <1>2, <1>3, <1>4, <1>5, OutcomeIs

LEMMA AnswersTold ==
  ASSUME WellReported, TypeInv, WholeInv, EstateInv, AskedInv, TruthInv,
         AtCall, Running, run.left # <<>>, Answers,
         NEW got, got = Taken(run.got, Head(run.left), Reply)
  PROVE  Told(got) /\ Sighted(got)
<1>0. PICK method, exe, places, old, new : Answered(method, exe, places, old, new, got)
  BY AnswersAre
<1>1. exe = Exes[Source.exe] /\ places = reach[Source.id] /\ old = run.got
  BY <1>0 DEF Answered
<1>2. /\ Source \in Entries /\ Source.exe \in DOMAIN Exes
      /\ method \in Range(MethodsFor(Source)) \intersect DOMAIN exe.kinds
      /\ places \in Reaches[Source.id]
  BY <1>0 DEF Answered
<1>3. /\ new.entities = [k \in exe.kinds[method] |-> Seen(Source.id, k)]
      /\ new.names = Names(exe, method, Source.id)
  BY <1>0 DEF Answered
<1>4. /\ got.entities = Merge(old.entities, new.entities)
      /\ got.names = IF new.names = <<>> THEN old.names ELSE new.names
      /\ got.world = Updated(old.world,
           [k \in DOMAIN new.entities \union {x \in {"secret"} : new.names # <<>>} |->
              {t \in things : t.kind = k}])
      /\ got.asked = Updated(old.asked,
           [k \in DOMAIN new.entities \union {x \in {"secret"} : new.names # <<>>} |->
              [exe |-> Source.exe, method |-> method, places |-> places,
               own |-> DOMAIN Source.coverage]])
  BY <1>0 DEF Answered
<1>5. /\ DOMAIN old.entities = KindsOf(Source, old.caps) /\ old.caps \subseteq DOMAIN exe.kinds
      /\ DOMAIN got.entities = DOMAIN old.entities \union exe.kinds[method]
  BY <1>0 DEF Answered
<1>6. Told(old) /\ Sighted(old) /\ things \subseteq Things
  BY <1>1 DEF TruthInv, AtCall, EstateInv
<1>7. ASSUME NEW e \in SecretsIn(got)
      PROVE  \/ e \in SecretsIn(old)
             \/ "secret" \in exe.kinds[method] /\ e \in Seen(Source.id, "secret")
  <2>1. PICK had : had = IF "secret" \in DOMAIN old.entities THEN old.entities["secret"] ELSE {}
    OBVIOUS
  <2>2. PICK more : more = IF "secret" \in DOMAIN new.entities THEN new.entities["secret"] ELSE {}
    OBVIOUS
  <2>3. "secret" \in DOMAIN got.entities /\ e \in got.entities["secret"]
    BY <1>7 DEF SecretsIn
  <2>4. e \in had \union {y \in more : \A x \in had : x.id # y.id}
    <3>1. got.entities["secret"] = had \union {y \in more : \A x \in had : x.id # y.id}
      BY <1>3, <1>4, <1>5, <2>1, <2>2, <2>3 DEF Merge
    <3> QED BY <2>3, <3>1
  <2> QED BY <1>3, <2>1, <2>2, <2>4 DEF SecretsIn
<1>8. Sighted(got)
  <2>1. ASSUME NEW e \in SecretsIn(got) PROVE Shows(e)
    <3>1. CASE e \in SecretsIn(old)
      BY <1>6, <3>1 DEF Sighted
    <3>2. CASE e \in Seen(Source.id, "secret")
      BY <1>1, <1>2, <1>6, <3>2 DEF Seen, Visible, Shows
    <3> QED BY <1>7, <3>1, <3>2
  <2> QED BY <2>1 DEF Sighted
<1>9. ASSUME "secret" \in exe.kinds[method], NEW t \in things, t.kind = "secret",
              Place[t] \in places, NEW e, e = [id |-> t.id, f |-> t.f]
       PROVE  e \in SecretsIn(got)
  <2>1. e \in new.entities["secret"]
    BY <1>1, <1>3, <1>9 DEF Seen, Visible
  <2>2. PICK before :
          before = IF "secret" \in DOMAIN old.entities THEN old.entities["secret"] ELSE {}
    OBVIOUS
  <2>3. SecretsIn(got) =
          before \union {x \in new.entities["secret"] : \A y \in before : y.id # x.id}
    BY <1>3, <1>4, <1>5, <1>9, <2>2 DEF Merge, SecretsIn
  <2>4. ASSUME NEW y \in before, y.id = e.id PROVE y = e
    <3>1. Shows(y)
      BY <1>6, <2>2, <2>4 DEF Sighted, SecretsIn
    <3>2. PICK u \in Things : u.kind = "secret" /\ y = [id |-> u.id, f |-> u.f]
      BY <3>1 DEF Shows
    <3>3. u = t
      BY <1>6, <1>9, <2>4, <3>2 DEF WellReported
    <3> QED BY <1>9, <3>2, <3>3
  <2> QED BY <2>1, <2>3, <2>4
<1>10. ASSUME "secret" \in DOMAIN new.entities \/ new.names # <<>>
       PROVE  /\ "secret" \in DOMAIN got.world /\ "secret" \in DOMAIN got.asked
              /\ InView(got, "secret") = {t \in things : t.kind = "secret" /\ Place[t] \in places}
  <2>1. /\ "secret" \in DOMAIN got.world /\ got.world["secret"] = {t \in things : t.kind = "secret"}
        /\ "secret" \in DOMAIN got.asked /\ got.asked["secret"].places = places
    <3>1. PICK kinds : kinds = DOMAIN new.entities \union {x \in {"secret"} : new.names # <<>>}
      OBVIOUS
    <3>2. "secret" \in kinds
      BY <1>10, <3>1
    <3>3. PICK was : was = [exe |-> Source.exe, method |-> method, places |-> places,
                            own |-> DOMAIN Source.coverage]
      OBVIOUS
    <3>4. /\ got.world = Updated(old.world, [k \in kinds |-> {t \in things : t.kind = k}])
          /\ got.asked = Updated(old.asked, [k \in kinds |-> was])
      BY <1>4, <3>1, <3>3
    <3>5. was.places = places
      BY <3>3
    <3> QED BY <3>2, <3>4, <3>5 DEF Updated
  <2> QED BY <2>1 DEF InView
<1>11. ASSUME NEW store \in StoresOf(got) PROVE RefsFrom(got, store) \subseteq References
  <2>1. ASSUME NEW e \in SecretsIn(got) PROVE Said(e, "ref") \subseteq References
    BY <1>8, Likeness DEF Sighted, Shows, References
  <2>2. ASSUME store \in DOMAIN got.names PROVE got.names[store] \subseteq References
    <3>1. CASE new.names = <<>>
      BY <1>4, <1>6, <2>2, <3>1, TellsOf DEF Told
    <3>2. CASE new.names # <<>>
      BY <1>3, <1>4, <1>6, <2>2, <3>2 DEF Names, References, Visible
    <3> QED BY <3>1, <3>2
  <2> QED BY <2>1, <2>2, TellsOf
<1>12. /\ "secret" \in DOMAIN got.entities \/ DOMAIN got.names # {} =>
            "secret" \in DOMAIN got.world /\ "secret" \in DOMAIN got.asked
       /\ \A store \in StoresOf(got) : \A t \in InView(got, "secret") :
            store \in Said(t, "store") => Said(t, "ref") \subseteq RefsFrom(got, store)
  <2>1. CASE "secret" \in exe.kinds[method]
    <3>1. /\ "secret" \in DOMAIN got.world /\ "secret" \in DOMAIN got.asked
          /\ InView(got, "secret") = {t \in things : t.kind = "secret" /\ Place[t] \in places}
      <4>1. "secret" \in DOMAIN new.entities
        BY <1>3, <2>1
      <4> QED BY <1>4, <1>10, <4>1
    <3>2. ASSUME NEW store \in StoresOf(got), NEW t \in things, t.kind = "secret",
                 Place[t] \in places, store \in Said(t, "store")
          PROVE  Said(t, "ref") \subseteq RefsFrom(got, store)
      <4>1. PICK e : e = [id |-> t.id, f |-> t.f]
        OBVIOUS
      <4>2. e \in SecretsIn(got)
        BY <1>9, <2>1, <3>2, <4>1
      <4>3. store \in Said(e, "store") /\ Said(e, "ref") = Said(t, "ref")
        BY <3>2, <4>1, Likeness
      <4> QED BY <4>2, <4>3 DEF RefsFrom
    <3> QED BY <3>1, <3>2
  <2>2. CASE "secret" \notin exe.kinds[method] /\ new.names # <<>>
    <3>1. /\ "secret" \in DOMAIN got.world /\ "secret" \in DOMAIN got.asked
          /\ InView(got, "secret") = {t \in things : t.kind = "secret" /\ Place[t] \in places}
      BY <1>10, <2>2
    <3>2. SecretsIn(got) = {} /\ got.names = new.names
      BY <1>1, <1>2, <1>3, <1>4, <1>5, <2>2, OtherKinds DEF SecretsIn
    <3>3. ASSUME NEW store \in DOMAIN got.names, NEW t \in things, t.kind = "secret",
                 Place[t] \in places, store \in Said(t, "store")
          PROVE  Said(t, "ref") \subseteq got.names[store]
      BY <1>1, <1>3, <3>2, <3>3 DEF Names, Visible
    <3>4. StoresOf(got) = DOMAIN got.names
      BY <3>2, TellsOf
    <3> QED BY <3>1, <3>3, <3>4, TellsOf
  <2>3. CASE "secret" \notin exe.kinds[method] /\ new.names = <<>>
    <3>1. SecretsIn(got) = SecretsIn(old) /\ got.names = old.names
      <4>1. "secret" \notin DOMAIN new.entities
        BY <1>3, <2>3
      <4>2. PICK had : had = old.entities["secret"]
        OBVIOUS
      <4>3. "secret" \in DOMAIN old.entities =>
              got.entities["secret"] = had \union {e \in {} : \A x \in had : x.id # e.id}
        BY <1>4, <4>1, <4>2 DEF Merge
      <4> QED BY <1>4, <1>5, <2>3, <4>2, <4>3 DEF SecretsIn
    <3>2. /\ "secret" \in DOMAIN old.world /\ "secret" \in DOMAIN old.asked =>
               /\ "secret" \in DOMAIN got.world /\ "secret" \in DOMAIN got.asked
               /\ InView(got, "secret") = InView(old, "secret")
          /\ "secret" \in DOMAIN got.entities <=> "secret" \in DOMAIN old.entities
      <4>1. /\ "secret" \in DOMAIN old.world =>
                 "secret" \in DOMAIN got.world /\ got.world["secret"] = old.world["secret"]
            /\ "secret" \in DOMAIN old.asked =>
                 "secret" \in DOMAIN got.asked /\ got.asked["secret"] = old.asked["secret"]
        BY <1>3, <1>4, <2>3 DEF Updated
      <4> QED BY <1>3, <1>5, <2>3, <4>1 DEF InView
    <3>3. StoresOf(got) = StoresOf(old) /\ \A store : RefsFrom(got, store) = RefsFrom(old, store)
      BY <3>1 DEF StoresOf, RefsFrom
    <3>4. StoresOf(old) # {} => "secret" \in DOMAIN old.world /\ "secret" \in DOMAIN old.asked
      BY <1>6 DEF Told, StoresOf, SecretsIn
    <3> QED BY <1>6, <3>1, <3>2, <3>3, <3>4 DEF Told
  <2> QED BY <2>1, <2>2, <2>3
<1> QED BY <1>8, <1>11, <1>12 DEF Told

LEMMA TruthNext ==
  ASSUME WellReported, TypeInv, WholeInv, EstateInv, AskedInv, TruthInv,
         [Next]_vars
  PROVE  TruthInv'
<1>1. CASE Open
  <2>1. UNCHANGED stored /\ run'.pc = "source" /\ run'.prior = stored
    BY <1>1 DEF Open
  <2> QED BY <2>1 DEF TruthInv
<1>2. CASE Skip
  <2>1. UNCHANGED stored /\ run.pc = "source" /\ run'.pc = "source" /\ run'.prior = run.prior
    BY <1>2 DEF Skip, TypeInv, AtSource, NoRun, AtCall
  <2> QED BY <2>1 DEF TruthInv
<1>3. CASE Handshake
  <2>1. /\ UNCHANGED stored /\ run.pc = "source"
        /\ \/ run' = NoRun
           \/ run'.got = Nothing /\ run'.prior = run.prior
    BY <1>3 DEF Handshake, Ends
  <2> QED BY <2>1, NothingTold DEF TruthInv, NoRun
<1>4. CASE Ask
  <2>1. /\ AtCall /\ Running /\ run.pc = "call" /\ UNCHANGED stored /\ run.left # <<>>
    BY <1>4, AskIs
  <2>2. CASE Aborted
    BY <2>1, <2>2 DEF Aborted, TruthInv, NoRun
  <2>3. CASE Refused
    <3>1. run'.got = run.got /\ run'.prior = run.prior /\ Source' = Source
      BY <2>1, <2>3 DEF AtCall, Refused, Source
    <3> QED BY <2>1, <3>1 DEF TruthInv
  <2>4. CASE Answers
    <3>1. PICK got : got = Taken(run.got, Head(run.left), Reply)
      OBVIOUS
    <3>2. run'.got = got /\ run'.prior = run.prior /\ Source' = Source
      BY <2>1, <2>4, <3>1 DEF AtCall, Answers, Source
    <3>3. Told(got) /\ Sighted(got)
      BY <2>1, <2>4, <3>1, AnswersTold
    <3> QED BY <2>1, <3>2, <3>3 DEF TruthInv
  <2> QED BY <1>4, AskIs, <2>2, <2>3, <2>4
<1>5. CASE Record
  <2>1. /\ AtCall /\ run.pc = "call"
        /\ stored' = Updated(stored, [s \in {Source.id} |-> Outcome])
        /\ run'.pc = "source" /\ run'.prior = run.prior
    BY <1>5, RecordIs
  <2>2. PICK row : row = Outcome
    OBVIOUS
  <2>3. Told(row)
    BY <2>1, <2>2, OutcomeTold
  <2>4. \A s \in DOMAIN stored' :
          \/ s = Source.id /\ stored'[s] = row
          \/ s \in DOMAIN stored /\ stored'[s] = stored[s]
    BY <2>1, <2>2 DEF Updated
  <2> QED BY <2>1, <2>3, <2>4 DEF TruthInv
<1>6. CASE Finish \/ Kill
  BY <1>6 DEF Finish, Kill, Ends, TruthInv, NoRun
<1>7. CASE Come \/ Go \/ Regrant \/ Edit \/ Declare \/ Toggle \/ Tick \/ UNCHANGED vars
  BY <1>7, Around DEF TruthInv, Source
<1> QED
  BY <1>1, <1>2, <1>3, <1>4, <1>5, <1>6, <1>7 DEF Next, Collect

\* What a collection of evidence has in view of a store, all of it told.
LEMMA HeldIsTold ==
  ASSUME WellReported, NEW known, \A ev \in known : Told(ev), NEW store
  PROVE  /\ StoreRefs(known, store) \subseteq DOMAIN SecretKey
         /\ Held(known, store) \subseteq Keys(StoreRefs(known, store))
<1>1. ASSUME NEW ev \in known PROVE RefsFrom(ev, store) \subseteq References
  BY TellsOf DEF Told
<1>2. StoreRefs(known, store) \subseteq DOMAIN SecretKey
  BY <1>1 DEF StoreRefs, References, WellReported
<1>3. ASSUME NEW ev \in known, store \in StoresOf(ev), NEW t \in InView(ev, "secret"),
             store \in Said(t, "store"), NEW r \in Said(t, "ref")
      PROVE  r \in StoreRefs(known, store)
  BY <1>3 DEF Told, StoreRefs
<1>4. ASSUME NEW key \in Held(known, store) PROVE key \in Keys(StoreRefs(known, store))
  <2>1. PICK r \in UNION {UNION {Said(t, "ref") :
                                   t \in {x \in InView(ev, "secret") : store \in Said(x, "store")}} :
                            ev \in {x \in known : store \in StoresOf(x)}} : key = SecretKey[r]
    BY <1>4 DEF Held
  <2>2. PICK ev \in known : /\ store \in StoresOf(ev)
                            /\ r \in UNION {Said(t, "ref") :
                                      t \in {x \in InView(ev, "secret") : store \in Said(x, "store")}}
    BY <2>1
  <2>3. PICK t \in InView(ev, "secret") : store \in Said(t, "store") /\ r \in Said(t, "ref")
    BY <2>2
  <2>4. r \in StoreRefs(known, store)
    BY <1>3, <2>2, <2>3
  <2> QED BY <2>1, <2>4 DEF Keys
<1> QED BY <1>2, <1>4

\* A selector picks references one by one.
LEMMA SelectedOne ==
  ASSUME NEW refs, NEW selectors, NEW x
  PROVE  x \in Selected(refs, selectors) <=> x \in refs /\ x \in Selected({x}, selectors)
BY DEF Selected

LEMMA RowOnlyIn ==
  ASSUME NEW c, NEW store, NEW refs, NEW row \in OnlyIn(c, store, refs)
  PROVE  row.source = store /\ row.id \in refs
BY DEF OnlyIn, Divergence

\* What a contract maps a reference to, it is called in the other store.
LEMMA RenamedBy ==
  ASSUME NEW c, NEW p \in c.contracts, NEW m \in p.mappings, NEW r
  PROVE  /\ SecretKey[m[1]] = SecretKey[r] => m[2] \in Renamed(c, r, p.from, p.to)
         /\ SecretKey[m[2]] = SecretKey[r] => m[1] \in Renamed(c, r, p.to, p.from)
<1>1. m \in UNION {k.mappings : k \in {x \in c.contracts : x.from = p.from /\ x.to = p.to}}
  OBVIOUS
<1> QED BY <1>1 DEF Renamed

LEMMA OnlyInMapped ==
  ASSUME WellReported, NEW known, \A ev \in known : Told(ev),
         NEW p \in catalog.contracts, NEW m \in p.mappings, p.from # p.to,
         {p.from, p.to} \subseteq Stores(known), NEW row \in Mapped(catalog, known, p, m)
  PROVE  \E other \in Stores(known) \ {row.source} :
           \E name \in CalledIn(row.id, row.source, other) :
             SecretKey[name] \notin Held(known, other)
<1> DEFINE here  == Holds(StoreRefs(known, p.from), m[1])
           there == Holds(StoreRefs(known, p.to), m[2])
<1>1. \/ there = {} /\ row \in OnlyIn(catalog, p.from, here)
      \/ here = {} /\ row \in OnlyIn(catalog, p.to, there)
  <2> DEFINE one == OnlyIn(catalog, p.from, IF there = {} THEN here ELSE {})
             two == OnlyIn(catalog, p.to, IF here = {} THEN there ELSE {})
  <2>1. row \in one \union two
    BY DEF Mapped
  <2> HIDE DEF here, there
  <2> QED BY <2>1 DEF OnlyIn
<1>2. ASSUME NEW refs, NEW expected, NEW r \in Holds(refs, expected)
      PROVE  SecretKey[r] = SecretKey[expected]
  BY <1>2 DEF Holds
<1>3. ASSUME NEW refs, NEW expected, Holds(refs, expected) = {}
      PROVE  SecretKey[expected] \notin Keys(refs)
  BY <1>3 DEF Holds, Keys
<1>4. CASE there = {} /\ row \in OnlyIn(catalog, p.from, here)
  <2>1. row.source = p.from /\ row.id \in here
    BY <1>4, RowOnlyIn
  <2>2. m[2] \in Renamed(catalog, row.id, p.from, p.to)
    BY <1>2, <2>1, RenamedBy
  <2>3. m[2] \in CalledIn(row.id, p.from, p.to)
    BY <2>2 DEF CalledIn
  <2>4. SecretKey[m[2]] \notin Held(known, p.to)
    BY <1>3, <1>4, HeldIsTold
  <2> QED BY <2>1, <2>3, <2>4
<1>5. CASE here = {} /\ row \in OnlyIn(catalog, p.to, there)
  <2>1. row.source = p.to /\ row.id \in there
    BY <1>5, RowOnlyIn
  <2>2. m[1] \in Renamed(catalog, row.id, p.to, p.from)
    BY <1>2, <2>1, RenamedBy
  <2>3. m[1] \in CalledIn(row.id, p.to, p.from)
    BY <2>2 DEF CalledIn
  <2>4. SecretKey[m[1]] \notin Held(known, p.from)
    BY <1>3, <1>5, HeldIsTold
  <2> QED BY <2>1, <2>3, <2>4
<1> QED BY <1>1, <1>4, <1>5

\* A pair of stores that call a secret the same, seen from either of them.
Uniform(c, one, two, selectors) ==
  \A x \in DOMAIN SecretKey : x \in Selected({x}, selectors) =>
    /\ \A y \in DOMAIN SecretKey : SecretKey[y] = SecretKey[x] => y \in Selected({y}, selectors)
    /\ Renamed(c, x, one, two) = {} /\ Renamed(c, x, two, one) = {}
LEMMA OnlyInSide ==
  ASSUME WellReported, NEW known, \A ev \in known : Told(ev), NEW store,
         NEW other \in Stores(known), other # store,
         NEW selectors, Uniform(catalog, store, other, selectors),
         NEW x \in Selected(StoreRefs(known, store), selectors),
         SecretKey[x] \notin Keys(Selected(StoreRefs(known, other), selectors))
  PROVE  x \in CalledIn(x, store, other) /\ SecretKey[x] \notin Held(known, other)
<1>1. x \in DOMAIN SecretKey /\ x \in Selected({x}, selectors)
  BY HeldIsTold, SelectedOne
<1>2. x \in CalledIn(x, store, other)
  BY <1>1 DEF Uniform, CalledIn
<1>3. ASSUME NEW y \in StoreRefs(known, other), SecretKey[y] = SecretKey[x] PROVE FALSE
  <2>1. y \in Selected({y}, selectors)
    BY <1>1, <1>3, HeldIsTold DEF Uniform
  <2>2. y \in Selected(StoreRefs(known, other), selectors)
    BY <1>3, <2>1, SelectedOne
  <2> QED BY <1>3, <2>2 DEF Keys
<1> QED BY <1>2, <1>3, HeldIsTold DEF Keys

LEMMA OnlyInAlike ==
  ASSUME WellReported, NEW known, \A ev \in known : Told(ev), NEW p,
         Uniform(catalog, p.from, p.to, p.selectors),
         {p.from, p.to} \subseteq Stores(known), NEW row \in Alike(catalog, known, p)
  PROVE  \E other \in Stores(known) \ {row.source} :
           \E name \in CalledIn(row.id, row.source, other) :
             SecretKey[name] \notin Held(known, other)
<1> DEFINE l == Selected(StoreRefs(known, p.from), p.selectors)
           r == Selected(StoreRefs(known, p.to), p.selectors)
<1>1. \/ row \in OnlyIn(catalog, p.from, {x \in l : SecretKey[x] \notin Keys(r)})
      \/ row \in OnlyIn(catalog, p.to, {x \in r : SecretKey[x] \notin Keys(l)})
  BY DEF Alike
<1>2. \/ row.source = p.from /\ row.id \in l /\ SecretKey[row.id] \notin Keys(r)
      \/ row.source = p.to /\ row.id \in r /\ SecretKey[row.id] \notin Keys(l)
  <2> HIDE DEF l, r
  <2> QED BY <1>1, RowOnlyIn
<1>3. p.from # p.to
  <2> SUFFICES ASSUME l = r PROVE FALSE
    OBVIOUS
  <2> QED BY <1>2 DEF Keys
<1>4. Uniform(catalog, p.to, p.from, p.selectors)
  BY DEF Uniform
<1> QED BY <1>2, <1>3, <1>4, OnlyInSide

LEMMA OnlyInHolds ==
  ASSUME WellReported, ContractsAgree, EstateInv, TruthInv
  PROVE  OnlyInIsUnseen
<1>1. PICK known : known = Range(stored)
  OBVIOUS
<1>2. \A ev \in known : Told(ev)
  BY <1>1 DEF TruthInv, Range
<1>3. ASSUME NEW row \in SecretStoreDiff(catalog, known)
      PROVE  \E other \in Stores(known) \ {row.source} :
               \E name \in CalledIn(row.id, row.source, other) :
                 SecretKey[name] \notin Held(known, other)
  <2>1. PICK p \in Pairs(catalog, Stores(known)) :
          {p.from, p.to} \subseteq Stores(known) /\ row \in Between(catalog, known, p)
    BY DEF SecretStoreDiff
  <2>2. CASE catalog.contracts # {}
    <3>1. p \in catalog.contracts /\ catalog \in Catalogs
      BY <2>1, <2>2 DEF Pairs, EstateInv
    <3>2. CASE p.mappings # {}
      <4>1. PICK m \in p.mappings : row \in Mapped(catalog, known, p, m)
        BY <2>1, <3>2 DEF Between
      <4> QED BY <1>2, <2>1, <3>1, <4>1, OnlyInMapped DEF ContractsAgree
    <3>3. CASE p.mappings = {}
      <4>1. row \in Alike(catalog, known, p)
        BY <2>1, <3>3 DEF Between
      <4>2. Uniform(catalog, p.from, p.to, p.selectors)
        BY <3>1, <3>3 DEF ContractsAgree, Uniform
      <4> QED BY <1>2, <2>1, <4>1, <4>2, OnlyInAlike
    <3> QED BY <3>2, <3>3
  <2>3. CASE catalog.contracts = {}
    <3>1. p.mappings = {} /\ p.selectors = {}
      BY <2>1, <2>3 DEF Pairs
    <3>2. row \in Alike(catalog, known, p)
      BY <2>1, <3>1 DEF Between
    <3>3. \A x, one, two : Renamed(catalog, x, one, two) = {}
      BY <2>3 DEF Renamed
    <3>4. Uniform(catalog, p.from, p.to, p.selectors)
      BY <3>1, <3>3 DEF Uniform, Selected
    <3> QED BY <1>2, <2>1, <3>2, <3>4, OnlyInAlike
  <2> QED BY <2>2, <2>3
<1> QED BY <1>1, <1>3 DEF OnlyInIsUnseen

(* A reference drift says is only in one store is not found in another      *)
(* (core/drift.py, _secret_store_diff): under a name it should have there,  *)
(* the other store had nothing in view of its sources when they were last   *)
(* asked.  It takes that contracts do not compare by name what another      *)
(* contract maps.                                                           *)
THEOREM OnlyInUnseen ==
  ContractsAgree /\ WellReported => (Spec => []OnlyInIsUnseen)
<1> SUFFICES ASSUME ContractsAgree, WellReported PROVE Spec => []OnlyInIsUnseen
  OBVIOUS
<1>1. TruthInv /\ AskedInv /\ EstateInv /\ WholeInv /\ TypeInv /\ [Next]_vars => TruthInv'
  BY TruthNext
<1>2. AskedInv /\ WholeInv /\ TypeInv /\ [Next]_vars => AskedInv'
  BY AskedNext
<1>3. EstateInv /\ [Next]_vars => EstateInv'
  BY EstateNext
<1>4. WholeInv /\ TypeInv /\ [Next]_vars => WholeInv'
  BY WholeNext
<1>5. TruthInv /\ EstateInv => OnlyInIsUnseen
  BY OnlyInHolds
<1> QED
  BY TruthInit, AskedInit, EstateInit, WholeInit, TypeCorrect, <1>1, <1>2, <1>3, <1>4, <1>5, PTL
  DEF Spec
=============================================================================
