----------------------------- MODULE RemoteProofs -----------------------------
(***************************************************************************)
(* Machine-checked theorems about Remote, for any number of consumers,     *)
(* setups, principals, calls and mishaps: what a consumer is told is true. *)
(* The argument: a call sends one request that can write, and until that   *)
(* one is answered or lost nothing says what has become of the call.       *)
(***************************************************************************)
EXTENDS Remote, FiniteSetTheorems, SequenceTheorems, TLAPS

\* The stdio server is asked only what its requests can say: no filtered drift,
\* no empty filter, and no manifest_repo or manifest_why of an id that is spelt
\* otherwise in a path.
QuestionsArrive == \A ask \in Asks["stdio"] : Forwarded("stdio", ask) = ask

-----------------------------------------------------------------------------
(* The shape of the state.                                                 *)

CallIds  == Consumers \X Nat
Ids      == CallIds \union {None}   \* of calls, and of sessions
Whos     == {s.who : s \in Setups} \union {None, "agent"}
Booting  == {[op |-> "tools/list", args |-> None], [op |-> "version", args |-> None]}
AskSet   == Asks["stdio"] \union Asks["bridge"] \union Booting
StepSet  == {"initialize", "initialized", "call"}
Offered  == SUBSET (BaseTools \union BridgeTools)

Quiet == [pc : {"boot", "idle", "exited"}, n : Nat, calls : Nat, offered : Offered]
Busy  == [pc : {"send", "wait", "local", "barred"}, n : Nat, calls : Nat, booted : BOOLEAN,
          offered : Offered, ask : AskSet, step : Nat, session : Ids, since : Nat]

Requests == [to : {"server"}, c : Consumers, n : Nat, step : StepSet, ask : AskSet,
             call : CallIds, session : Ids, who : Whos, via : {"stdio", "bridge"}]
ThreadSet == [req : Requests, by : Whos,
              pc : {"auth", "session", "open", "answer", "write", "written"}]

RowSet == [call : Ids, by : Whos]

\* What is sent back.
Replies(m) ==
  /\ m.to = "consumer" /\ m.c \in Consumers /\ m.n \in Nat
  /\ m.ok \in BOOLEAN /\ m.session \in Ids

Shaped ==
  /\ setup \in [Consumers -> Setups]
  /\ consumer \in [Consumers -> Quiet \union Busy]
  /\ threads \subseteq ThreadSet
  /\ \A m \in net : m \in Requests \/ Replies(m)
  /\ log \in Seq(RowSet)
  /\ DOMAIN last = Consumers

-----------------------------------------------------------------------------
(* The invariant.                                                          *)

Asking(c) == consumer[c].pc \in {"send", "wait", "local", "barred"}
Id(c)     == <<c, consumer[c].calls>>
InLog(id) == \E i \in DOMAIN log : log[i].call = id

\* No request that can write is under way for the call.
Gone(id) ==
  /\ \A m \in net : Writes(m) => m.call # id
  /\ \A t \in threads : Writes(t.req) => t.req.call # id

\* The consumer has sent the request that matters, and waits.
Sent(c) ==
  /\ At(c, "wait") /\ consumer[c].step = Len(StepsOf(c))
  /\ consumer[c].ask.op \in WriteTools

Answers(body, ask, since) ==
  /\ <<body.op, body.args>> = <<ask.op, ask.args>>
  /\ body.at \in since..Len(log)

\* A call under way: until it has sent its write there is nothing of it.
CallFits(c) ==
  /\ Asking(c) =>
       /\ consumer[c].step \in 1..Len(StepsOf(c))
       /\ consumer[c].since <= Len(log)
       /\ consumer[c].ask \in Asks[Via(c)] \union Booting
       /\ consumer[c].ask.op \in WriteTools =>
            /\ consumer[c].booted
            /\ At(c, "send") \/ At(c, "wait") => setup[c].url
            /\ At(c, "local") => ~setup[c].url
       /\ consumer[c].ask.op = "tools/list" => ~consumer[c].booted
       /\ ~Sent(c) => Gone(Id(c)) /\ ~InLog(Id(c))
  /\ At(c, "boot") => consumer[c].calls = 0 /\ Gone(Id(c)) /\ ~InLog(Id(c))
  /\ At(c, "boot") \/ (Asking(c) /\ ~consumer[c].booted) => last[c] = None

\* A request belongs to a call of its consumer, the present one if the consumer
\* waits for it.
RequestFits(q) ==
  LET c == q.c IN
  /\ q.call[1] = c /\ q.call[2] <= consumer[c].calls
  /\ q.n <= consumer[c].n
  /\ q.via = Via(c) /\ q.who = setup[c].who
  /\ Writes(q) => setup[c].url
  /\ q.via = "stdio" => q.step = "call"
  /\ At(c, "wait") /\ consumer[c].n = q.n =>
       /\ q.call = Id(c) /\ q.ask = consumer[c].ask
       /\ q.step = StepsOf(c)[consumer[c].step]

\* What a reply says of the call that waits for it.
ReplyFits(m) ==
  LET c == m.c IN
  /\ m.n <= consumer[c].n
  /\ At(c, "wait") /\ consumer[c].n = m.n /\ consumer[c].step = Len(StepsOf(c)) =>
       /\ consumer[c].ask.op \in WriteTools => Gone(Id(c)) /\ (m.ok <=> InLog(Id(c)))
       /\ consumer[c].ask.op \notin WriteTools /\ consumer[c].ask.op # "tools/list" /\ m.ok =>
            Answers(m.body, consumer[c].ask, consumer[c].since)

ThreadFits(t) ==
  /\ RequestFits(t.req)
  /\ t.by \in {None, t.req.who}
  /\ t.pc = "open" => t.req.via = "stdio"
  /\ t.pc = "session" => t.req.via = "bridge"
  /\ t.pc = "answer" => t.req.ask.op \notin WriteTools /\ t.req.step = "call"
  /\ t.pc \in {"write", "written"} => Writes(t.req) /\ t.by = t.req.who
  /\ Writes(t.req) => (t.pc = "written" <=> InLog(t.req.call))

\* Of the requests that can write a call has one.
OneWrite ==
  /\ \A m, q \in net : Writes(m) /\ Writes(q) /\ m.call = q.call => m = q
  /\ \A s, t \in threads : Writes(s.req) /\ Writes(t.req) /\ s.req.call = t.req.call => s = t
  /\ \A m \in net, t \in threads : Writes(m) /\ Writes(t.req) => m.call # t.req.call

LogFits ==
  /\ \A i, j \in DOMAIN log : log[i].call = log[j].call /\ log[i].call # None => i = j
  /\ \A i \in DOMAIN log : log[i].call # None =>
       LET c == log[i].call[1] IN
       /\ log[i].call[2] <= consumer[c].calls
       /\ log[i].by = Name(c)

\* What the consumer was told at the end of a call that is over.
ToldFits(c) ==
  last[c] # None =>
    LET l == last[c] IN
    /\ \E k \in Nat : /\ l.call = <<c, k>> /\ k <= consumer[c].calls
                      /\ Asking(c) => k # consumer[c].calls
    /\ l.how \in {"ok", "refused"} => Gone(l.call)
    /\ l.how = "ok" /\ l.ask.op \in WriteTools => InLog(l.call)
    /\ l.how = "refused" => ~InLog(l.call)
    /\ l.how = "ok" /\ l.ask.op \notin WriteTools =>
         /\ <<l.body.op, l.body.args>> = <<l.ask.op, l.ask.args>>
         /\ l.body.at \in l.since..l.until

Truthful ==
  /\ Shaped /\ OneWrite /\ LogFits
  /\ \A c \in Consumers : CallFits(c) /\ ToldFits(c)
  /\ \A m \in net : m.to = "server" => RequestFits(m) /\ (Writes(m) => ~InLog(m.call))
  /\ \A m \in net : m.to = "consumer" => ReplyFits(m)
  /\ \A t \in threads : ThreadFits(t)
-----------------------------------------------------------------------------
(* The frame: what a step leaves alone.                                     *)

LEMMA Steps ==
  ASSUME NEW c \in Consumers, Shaped
  PROVE  /\ Len(StepsOf(c)) \in Nat \ {0}
         /\ Via(c) = "stdio" => Len(StepsOf(c)) = 1
         /\ Via(c) \in {"stdio", "bridge"}
         /\ \A i \in 1..Len(StepsOf(c)) :
              /\ StepsOf(c)[i] \in StepSet
              /\ StepsOf(c)[i] = "call" <=> i = Len(StepsOf(c))
BY RemoteAssumption DEF Shaped, Via, StepsOf, StepSet

LEMMA Rows ==
  ASSUME Shaped, NEW i \in DOMAIN log, log[i].call # None
  PROVE  log[i].call \in CallIds
         /\ log[i].call[1] \in Consumers /\ log[i].call[2] \in Nat
<1>1. log \in Seq(RowSet)
  BY DEF Shaped
<1>2. log[i] \in RowSet
  BY <1>1, ElementOfSeq
<1>3. log[i].call \in CallIds
  BY <1>2 DEF RowSet, Ids
<1> QED BY <1>3 DEF CallIds

LEMMA Fewer ==
  ASSUME net' \subseteq net, threads' \subseteq threads, NEW id, Gone(id)
  PROVE  Gone(id)'
BY DEF Gone, Writes

\* What is appended to the log.
LEMMA Appended ==
  ASSUME Shaped, NEW row \in RowSet, log' = Append(log, row)
  PROVE  /\ log' \in Seq(RowSet) /\ Len(log) \in Nat /\ Len(log') = Len(log) + 1
         /\ \A id : InLog(id)' <=> InLog(id) \/ row.call = id
<1>1. log \in Seq(RowSet)
  BY DEF Shaped
<1>2. /\ log' \in Seq(RowSet) /\ Len(log) \in Nat /\ Len(log') = Len(log) + 1
      /\ \A i \in 1..Len(log) : log'[i] = log[i]
      /\ log'[Len(log) + 1] = row
      /\ DOMAIN log = 1..Len(log) /\ DOMAIN log' = 1..(Len(log) + 1)
  BY <1>1, AppendProperties, LenProperties
<1> QED BY <1>2 DEF InLog

LEMMA LogGrows ==
  ASSUME Truthful, NEW row \in RowSet, log' = Append(log, row), setup' = setup,
         \A c \in Consumers : consumer'[c].calls \in Nat /\ consumer[c].calls \in Nat
                              /\ consumer'[c].calls >= consumer[c].calls,
         row.call # None => /\ ~InLog(row.call)
                            /\ row.call[2] <= consumer'[row.call[1]].calls
                            /\ row.by = Name(row.call[1])
  PROVE  LogFits'
<1>1. /\ log' \in Seq(RowSet) /\ Len(log) \in Nat /\ Len(log') = Len(log) + 1
      /\ \A i \in 1..Len(log) : log'[i] = log[i]
      /\ log'[Len(log) + 1] = row
      /\ DOMAIN log = 1..Len(log) /\ DOMAIN log' = 1..(Len(log) + 1)
  BY AppendProperties, LenProperties DEF Truthful, Shaped
<1>2. ASSUME NEW i \in DOMAIN log', NEW j \in DOMAIN log',
             log'[i].call = log'[j].call, log'[i].call # None
      PROVE  i = j
  BY <1>1, <1>2 DEF Truthful, LogFits, InLog
<1>3. ASSUME NEW i \in DOMAIN log', log'[i].call # None
      PROVE  LET c == log'[i].call[1] IN
             log'[i].call[2] <= consumer'[c].calls /\ log'[i].by = Name(c)
  <2>1. CASE i = Len(log) + 1
    BY <1>1, <1>3, <2>1
  <2>2. CASE i \in DOMAIN log
    <3>1. log'[i] = log[i] /\ log[i].call # None
      BY <1>1, <1>3, <2>2
    <3>2. log[i].call[1] \in Consumers /\ log[i].call[2] \in Nat
      BY <2>2, <3>1, Rows DEF Truthful
    <3> QED BY <2>2, <3>1, <3>2 DEF Truthful, LogFits
  <2> QED BY <1>1, <2>1, <2>2
<1> QED BY <1>2, <1>3 DEF LogFits, Name

\* A step that loses messages and threads at most, or somebody else commits.
LEMMA Shrinks ==
  ASSUME Truthful, UNCHANGED <<setup, consumer, last>>,
         log' = log \/ log' = Append(log, [call |-> None, by |-> None]),
         net' \subseteq net, threads' \subseteq threads
  PROVE  Truthful'
<1>1. [call |-> None, by |-> None] \in RowSet
  BY DEF RowSet, Ids, Whos
<1>2. /\ \A id \in CallIds : InLog(id)' <=> InLog(id)
      /\ log' \in Seq(RowSet) /\ Len(log) \in Nat /\ Len(log') \in Nat
      /\ Len(log) <= Len(log')
  <2>1. CASE log' = log
    BY <2>1 DEF InLog, Truthful, Shaped
  <2>2. CASE log' = Append(log, [call |-> None, by |-> None])
    BY <1>1, <2>2, Appended, RemoteAssumption DEF Truthful, CallIds
  <2> QED BY <2>1, <2>2
<1>3. Shaped'
  BY <1>2 DEF Truthful, Shaped, Replies
<1>4. OneWrite'
  BY DEF Truthful, OneWrite, Writes
<1>5. LogFits'
  <2>1. \A c \in Consumers : consumer[c].calls \in Nat
    BY DEF Truthful, Shaped, Quiet, Busy
  <2>2. CASE log' = log
    BY <2>2 DEF Truthful, LogFits, Name
  <2> QED BY <1>1, <2>1, <2>2, LogGrows
<1>6. \A id : Gone(id) => Gone(id)'
  BY Fewer
<1>7. \A c \in Consumers : Id(c) \in CallIds /\ Id(c)' = Id(c)
  BY DEF Truthful, Shaped, Quiet, Busy, Id, CallIds
<1>8. ASSUME NEW c \in Consumers PROVE CallFits(c)' /\ ToldFits(c)'
  <2>1. consumer[c].pc \in {"send", "wait", "local", "barred"} => consumer[c].since \in Nat
    BY DEF Truthful, Shaped, Quiet, Busy
  <2>2. CallFits(c)'
    BY <1>2, <1>6, <1>7, <2>1 DEF Truthful, CallFits, Asking, At, Sent, StepsOf, Via
  <2>3. ToldFits(c)'
    BY <1>2, <1>6 DEF Truthful, ToldFits, Asking, CallIds
  <2> QED BY <2>2, <2>3
<1>9. ASSUME NEW m \in net', m.to = "server"
      PROVE  RequestFits(m)' /\ (Writes(m) => ~InLog(m.call)')
  <2>1. m \in Requests
    BY <1>9 DEF Truthful, Shaped, Replies
  <2> QED BY <1>2, <1>9, <2>1 DEF Truthful, RequestFits, At, Via, StepsOf, Id, Writes, Requests
<1>10. ASSUME NEW m \in net', m.to = "consumer" PROVE ReplyFits(m)'
  <2>1. Replies(m)
    BY <1>10 DEF Truthful, Shaped, Requests
  <2> QED BY <1>2, <1>6, <1>7, <1>10, <2>1
          DEF Truthful, ReplyFits, Replies, At, StepsOf, Via, Answers
<1>11. ASSUME NEW t \in threads' PROVE ThreadFits(t)'
  <2>1. t.req \in Requests
    BY <1>11 DEF Truthful, Shaped, ThreadSet
  <2> QED BY <1>2, <1>11, <2>1
          DEF Truthful, ThreadFits, RequestFits, At, Via, StepsOf, Id, Writes, Requests
<1> QED BY <1>3, <1>4, <1>5, <1>8, <1>9, <1>10, <1>11 DEF Truthful, Writes

\* After the step the call is in the log.
WillBeIn(id) == \E i \in DOMAIN log' : log'[i].call = id

\* A consumer commits to its own catalog, or nothing.
Grows(c) ==
  \/ log' = log
  \/ /\ consumer[c].ask.op \in WriteTools /\ Gone(Id(c)) /\ ~InLog(Id(c))
     /\ log' = Append(log, [call |-> Id(c), by |-> "agent"]) /\ ~setup[c].url

LEMMA GrowsBy ==
  ASSUME Truthful, NEW c \in Consumers, Grows(c)
  PROVE  /\ \A id : id # Id(c) => (InLog(id)' <=> InLog(id))
         /\ log' # log => WillBeIn(Id(c))
         /\ log' \in Seq(RowSet) /\ Len(log) \in Nat /\ Len(log') \in Nat
         /\ Len(log) <= Len(log')
<1>1. CASE log' = log
  BY <1>1 DEF InLog, Truthful, Shaped
<1>2. CASE log' # log
  <2> DEFINE row == [call |-> Id(c), by |-> "agent"]
  <2>1. row \in RowSet
    BY DEF RowSet, Ids, CallIds, Whos, Id, Truthful, Shaped, Quiet, Busy
  <2>2. row.call = Id(c) /\ log' = Append(log, row)
    BY <1>2 DEF Grows
  <2> HIDE DEF row
  <2>3. /\ log' \in Seq(RowSet) /\ Len(log) \in Nat /\ Len(log') = Len(log) + 1
        /\ \A id : InLog(id)' <=> InLog(id) \/ row.call = id
    BY <2>1, <2>2, Appended DEF Truthful
  <2>4. \A id : id # Id(c) => (InLog(id)' <=> InLog(id))
    BY <2>2, <2>3
  <2>5. WillBeIn(Id(c))
    BY <2>2, <2>3 DEF WillBeIn, InLog
  <2> QED BY <2>3, <2>4, <2>5
<1> QED BY <1>1, <1>2

\* One consumer goes on as p, and no longer waits.
LEMMA Moves ==
  ASSUME Truthful, NEW c \in Consumers, NEW p \in Quiet \union Busy, p.pc # "wait",
         consumer' = [consumer EXCEPT ![c] = p],
         p.calls >= consumer[c].calls, p.n = consumer[c].n,
         setup' = setup, Grows(c), net' \subseteq net, threads' \subseteq threads,
         DOMAIN last' = Consumers, \A d \in Consumers \ {c} : last'[d] = last[d],
         CallFits(c)', ToldFits(c)'
  PROVE  Truthful'
<1>1. consumer'[c] = p /\ \A d \in Consumers \ {c} : consumer'[d] = consumer[d]
  BY DEF Truthful, Shaped
<1>2. Shaped'
  BY GrowsBy DEF Truthful, Shaped, Replies
<1>3. /\ \A id : (id # Id(c) => (InLog(id)' <=> InLog(id))) /\ (Gone(id) => Gone(id)')
      /\ log' # log => Gone(Id(c))
      /\ log' = log => \A id : InLog(id)' <=> InLog(id)
      /\ Len(log) \in Nat /\ Len(log') \in Nat /\ Len(log) <= Len(log')
  BY Fewer, GrowsBy DEF Grows, InLog
<1>4. \A d \in Consumers : /\ consumer'[d].n = consumer[d].n
                           /\ consumer'[d].calls >= consumer[d].calls
                           /\ consumer[d].calls \in Nat /\ consumer'[d].calls \in Nat
  BY <1>1 DEF Truthful, Shaped, Quiet, Busy
<1>5. OneWrite'
  BY DEF Truthful, OneWrite, Writes
<1>6. LogFits'
  <2>1. CASE log' = log
    <3>1. ASSUME NEW i \in DOMAIN log, log[i].call # None
          PROVE  log[i].call[1] \in Consumers /\ log[i].call[2] \in Nat
      BY <3>1, Rows DEF Truthful
    <3> QED BY <1>4, <2>1, <3>1 DEF Truthful, LogFits, Name
  <2>2. CASE log' # log
    <3> DEFINE row == [call |-> Id(c), by |-> "agent"]
    <3>1. row \in RowSet /\ row.call[1] = c /\ row.call[2] <= consumer'[c].calls
      BY <1>4 DEF RowSet, Ids, CallIds, Whos, Id
    <3>2. row.call = Id(c) /\ row.by = Name(c) /\ ~InLog(Id(c)) /\ log' = Append(log, row)
      BY <2>2 DEF Grows, Name
    <3> HIDE DEF row
    <3> QED BY <1>4, <3>1, <3>2, LogGrows
  <2> QED BY <2>1, <2>2
<1>7. ASSUME NEW d \in Consumers \ {c} PROVE CallFits(d)' /\ ToldFits(d)'
  <2>1. Id(d) # Id(c) /\ Id(d)' = Id(d)
    BY <1>1 DEF Id
  <2>2. consumer[d].pc \in {"send", "wait", "local", "barred"} => consumer[d].since \in Nat
    BY DEF Truthful, Shaped, Quiet, Busy
  <2>3. CallFits(d)'
    BY <1>1, <1>3, <2>1, <2>2 DEF Truthful, CallFits, Asking, At, Sent, StepsOf, Via
  <2>4. ToldFits(d)'
    <3> SUFFICES ASSUME last[d] # None PROVE ToldFits(d)'
      BY <1>1 DEF ToldFits
    <3>1. PICK k \in Nat : /\ last[d].call = <<d, k>> /\ k <= consumer[d].calls
                           /\ Asking(d) => k # consumer[d].calls
      BY DEF Truthful, ToldFits
    <3>2. last[d].call # Id(c)
      BY <3>1 DEF Id
    <3>3. consumer'[d] = consumer[d] /\ last'[d] = last[d] /\ ToldFits(d)
      BY <1>1 DEF Truthful
    <3>4. /\ InLog(last[d].call)' <=> InLog(last[d].call)
          /\ Gone(last[d].call) => Gone(last[d].call)'
      BY <1>3, <3>2
    <3>5. \E x \in Nat : /\ last'[d].call = <<d, x>> /\ x <= consumer'[d].calls
                         /\ Asking(d)' => x # consumer'[d].calls
      BY <3>1, <3>3 DEF Asking
    <3> QED BY <3>3, <3>4, <3>5 DEF ToldFits
  <2> QED BY <2>3, <2>4
<1>8. ASSUME NEW q \in Requests, RequestFits(q) PROVE RequestFits(q)'
  <2>1. q.c \in Consumers /\ q.call[2] \in Nat
    BY DEF Requests, CallIds
  <2>2. q.call[2] <= consumer'[q.c].calls
    BY <1>4, <1>8, <2>1 DEF RequestFits
  <2> QED BY <1>1, <1>4, <1>8, <2>1, <2>2 DEF RequestFits, At, Via, StepsOf, Id, Writes
<1>9. ASSUME NEW m \in net', m.to = "server"
      PROVE  RequestFits(m)' /\ (Writes(m) => ~InLog(m.call)')
  BY <1>3, <1>8, <1>9 DEF Truthful, Shaped, Replies, Gone
<1>10. ASSUME NEW m \in net', m.to = "consumer" PROVE ReplyFits(m)'
  <2>1. Replies(m) /\ ReplyFits(m)
    BY <1>10 DEF Truthful, Shaped, Requests
  <2>2. CASE m.c = c
    BY <1>1, <1>4, <2>1, <2>2 DEF ReplyFits, At, Replies
  <2>3. CASE m.c # c
    <3>1. m.c \in Consumers /\ Id(m.c) # Id(c) /\ Id(m.c)' = Id(m.c)
          /\ consumer'[m.c] = consumer[m.c]
      BY <1>1, <2>1, <2>3 DEF Id, Replies
    <3> QED BY <1>3, <2>1, <3>1 DEF ReplyFits, At, StepsOf, Via, Answers
  <2> QED BY <2>2, <2>3
<1>11. ASSUME NEW t \in threads' PROVE ThreadFits(t)'
  <2>1. t \in threads /\ t.req \in Requests /\ ThreadFits(t)
    BY <1>11 DEF Truthful, Shaped, ThreadSet
  <2>2. Writes(t.req) => (InLog(t.req.call)' <=> InLog(t.req.call))
    BY <1>3, <2>1 DEF Gone
  <2> QED BY <1>8, <2>1, <2>2 DEF ThreadFits, Writes
<1> QED BY <1>2, <1>5, <1>6, <1>7, <1>9, <1>10, <1>11 DEF Truthful, Writes

\* The end of a call: what the consumer is told has to be true.
LEMMA Ended ==
  ASSUME Truthful, NEW c \in Consumers, Asking(c), NEW how, NEW body, Ending(c, how, body),
         setup' = setup, Grows(c), net' \subseteq net, threads' \subseteq threads,
         how \in {"ok", "refused"} => Gone(Id(c)),
         how = "refused" => ~WillBeIn(Id(c)),
         how = "ok" /\ consumer[c].ask.op \in WriteTools => WillBeIn(Id(c)),
         how = "ok" /\ consumer[c].ask.op \notin WriteTools
           /\ consumer[c].ask.op # "tools/list"
             => Answers(body, consumer[c].ask, consumer[c].since)
  PROVE  Truthful'
<1> DEFINE me == consumer[c]
           offered == IF me.ask.op # "tools/list" THEN me.offered
                      ELSE BaseTools \union (IF how = "ok" THEN body \intersect BridgeTools ELSE {})
           next == [me EXCEPT !.pc = "send", !.offered = offered, !.step = 1, !.session = None,
                              !.ask = [op |-> "version", args |-> None], !.since = Len(log)]
           after == [pc |-> "idle", n |-> me.n, calls |-> me.calls, offered |-> offered]
           told == [call |-> <<c, me.calls>>, ask |-> me.ask, how |-> how, body |-> body,
                    since |-> me.since, until |-> Len(log)]
<1>1. me \in Busy /\ offered \in Offered /\ Len(log) \in Nat
  BY DEF Truthful, Shaped, Asking, Quiet, Busy, Offered
<1>2. /\ consumer' = [consumer EXCEPT ![c] = IF me.ask.op = "tools/list" THEN next ELSE after]
      /\ last' = [last EXCEPT ![c] = IF ~me.booted THEN @ ELSE told]
  BY DEF Ending
<1>3. CallFits(c) /\ ToldFits(c)
  BY DEF Truthful
<1>4. /\ DOMAIN last' = Consumers /\ \A d \in Consumers \ {c} : last'[d] = last[d]
      /\ last'[c] = IF ~me.booted THEN last[c] ELSE told
  BY <1>2 DEF Truthful, Shaped
<1>5. /\ \A id : Gone(id) => Gone(id)'
      /\ log' = log => \A id : InLog(id)' <=> InLog(id)
      /\ me.ask.op \notin WriteTools => log' = log
      /\ Len(log) <= Len(log') /\ Len(log') \in Nat
  BY Fewer, GrowsBy DEF InLog, Grows
<1>6. CASE me.ask.op = "tools/list"
  <2>1. /\ next.pc = "send" /\ next.n = me.n /\ next.calls = me.calls /\ next.step = 1
        /\ next.since = Len(log) /\ next.ask.op = "version" /\ next.booted = me.booted
        /\ next.ask \in Booting
    BY <1>1 DEF Busy, Booting
  <2>2. next \in Busy
    BY <1>1 DEF Busy, AskSet, Booting, Ids
  <2>3. /\ ~me.booted /\ last[c] = None /\ Gone(Id(c)) /\ ~InLog(Id(c))
        /\ me.ask.op \notin WriteTools
    BY <1>3, <1>6 DEF CallFits, Sent, WriteTools
  <2>4. consumer' = [consumer EXCEPT ![c] = next]
    BY <1>2, <1>6
  <2> HIDE DEF next
  <2>5. consumer'[c] = next /\ last'[c] = None /\ Id(c)' = Id(c)
    BY <1>4, <2>1, <2>3, <2>4 DEF Truthful, Shaped, Id
  <2>6. CallFits(c)'
    BY <1>1, <1>5, <2>1, <2>3, <2>5, Steps
    DEF Truthful, CallFits, Asking, At, Sent, StepsOf, Via, WriteTools
  <2>7. ToldFits(c)'
    BY <2>5 DEF ToldFits
  <2>8. next.pc # "wait" /\ next.calls >= consumer[c].calls /\ next.n = consumer[c].n
    BY <1>1, <2>1 DEF Busy
  <2> HIDE DEF me
  <2> QED BY <1>4, <2>2, <2>4, <2>6, <2>7, <2>8, Moves
<1>7. CASE me.ask.op # "tools/list"
  <2>1. after \in Quiet
    BY <1>1 DEF Quiet, Busy
  <2>2. consumer' = [consumer EXCEPT ![c] = after] /\ consumer'[c] = after
    BY <1>2, <1>7 DEF Truthful, Shaped
  <2>3. CallFits(c)'
    BY <2>2 DEF CallFits, Asking, At
  <2>4. ToldFits(c)'
    <3>1. CASE ~me.booted
      BY <1>3, <1>4, <3>1 DEF CallFits, ToldFits
    <3>2. CASE me.booted
      <4>1. last'[c] = told /\ told.call = Id(c)
        BY <1>4, <3>2 DEF Id
      <4>2. me.calls \in Nat /\ consumer'[c].calls = me.calls /\ ~Asking(c)'
        BY <1>1, <2>2 DEF Busy, Asking
      <4> QED BY <1>5, <1>7, <4>1, <4>2 DEF ToldFits, Answers, Id, InLog, WillBeIn
    <3> QED BY <3>1, <3>2
  <2>5. after.pc # "wait" /\ after.calls >= consumer[c].calls /\ after.n = consumer[c].n
    BY <1>1 DEF Busy
  <2> HIDE DEF me, after
  <2> QED BY <1>4, <2>1, <2>2, <2>3, <2>4, <2>5, Moves
<1> QED BY <1>6, <1>7
-----------------------------------------------------------------------------
(* The consumer.                                                            *)

LEMMA Live ==
  ASSUME Truthful, NEW c \in Consumers
  PROVE  /\ consumer[c] \in Quiet \union Busy /\ CallFits(c) /\ ToldFits(c)
         /\ Asking(c) => consumer[c] \in Busy
         /\ Asking(c) /\ ~Sent(c) => Gone(Id(c)) /\ ~InLog(Id(c))
         /\ consumer[c].calls \in Nat /\ Len(log) \in Nat
BY DEF Truthful, Shaped, Quiet, Busy, Asking, CallFits

LEMMA BootTrue == ASSUME Truthful, NEW c \in Consumers, Boot(c) PROVE Truthful'
<1> DEFINE exits == [consumer[c] EXCEPT !.pc = "exited"]
           asks  == [Calling(c, [op |-> "tools/list", args |-> None], "send") EXCEPT !.calls = 0]
<1>1. /\ consumer[c].pc = "boot" /\ consumer[c] \in Quiet /\ consumer[c].calls = 0
      /\ last[c] = None /\ Gone(Id(c)) /\ ~InLog(Id(c)) /\ Len(log) \in Nat
  BY Live DEF Boot, At, CallFits, Quiet, Busy
<1>2. /\ UNCHANGED <<last, net, threads, log, setup>>
      /\ DOMAIN last' = Consumers /\ Grows(c)
      /\ net' \subseteq net /\ threads' \subseteq threads
      /\ consumer' = [consumer EXCEPT ![c] = exits] \/ consumer' = [consumer EXCEPT ![c] = asks]
  BY DEF Boot, Grows, catalog, around, Truthful, Shaped
<1>3. CASE consumer' = [consumer EXCEPT ![c] = exits]
  <2>1. /\ exits \in Quiet \union Busy /\ exits.pc = "exited"
        /\ exits.n = consumer[c].n /\ exits.calls >= consumer[c].calls
    BY <1>1 DEF Quiet
  <2> HIDE DEF exits
  <2>2. consumer'[c] = exits
    BY <1>3 DEF Truthful, Shaped
  <2>3. CallFits(c)' /\ ToldFits(c)'
    BY <1>1, <1>2, <2>1, <2>2 DEF CallFits, ToldFits, Asking, At
  <2> QED BY <1>1, <1>2, <1>3, <2>1, <2>3, Moves
<1>4. CASE consumer' = [consumer EXCEPT ![c] = asks]
  <2> DEFINE call == Calling(c, [op |-> "tools/list", args |-> None], "send")
  <2>0. /\ call.pc = "send" /\ call.n = consumer[c].n /\ call.step = 1 /\ ~call.booted
        /\ call.since = Len(log) /\ call.ask.op = "tools/list" /\ call \in Busy
        /\ call.ask \in Booting
    <3>1. /\ call.pc = "send" /\ call.n = consumer[c].n /\ call.step = 1 /\ ~call.booted
          /\ call.since = Len(log) /\ call.ask.op = "tools/list" /\ call.ask \in Booting
      BY <1>1 DEF Calling, At, Booting
    <3>2. consumer[c].offered \in Offered /\ consumer[c].n \in Nat
      BY <1>1 DEF Quiet
    <3>3. call \in Busy
      BY <1>1, <3>2 DEF Calling, Busy, Ids, At, AskSet, Booting
    <3> QED BY <3>1, <3>3
  <2>1. /\ asks \in Busy /\ asks.pc = "send" /\ asks.n = consumer[c].n
        /\ asks.calls = 0 /\ asks.calls >= consumer[c].calls
        /\ asks.step = 1 /\ asks.since = Len(log) /\ asks.ask.op = "tools/list" /\ ~asks.booted
        /\ asks.ask \in Booting
    <3> HIDE DEF call
    <3>1. asks = [call EXCEPT !.calls = 0]
      BY DEF call
    <3> QED BY <1>1, <2>0, <3>1 DEF Busy
  <2> HIDE DEF asks
  <2>2. consumer'[c] = asks /\ Id(c)' = Id(c)
    BY <1>1, <1>4, <2>1 DEF Truthful, Shaped, Id
  <2>3. CallFits(c)'
    BY <1>1, <1>2, <2>1, <2>2, Steps
    DEF CallFits, Asking, At, Sent, StepsOf, Via, WriteTools, Gone, Writes, InLog, Truthful
  <2>4. ToldFits(c)'
    BY <1>1, <1>2 DEF ToldFits
  <2> QED BY <1>1, <1>2, <1>4, <2>1, <2>3, <2>4, Moves
<1> QED BY <1>2, <1>3, <1>4

LEMMA BeginTrue == ASSUME Truthful, NEW c \in Consumers, Begin(c) PROVE Truthful'
<1>1. PICK ask \in Asks[Via(c)], how \in {"send", "local", "barred"} :
        /\ how = "send" => setup[c].url
        /\ how = "local" => ~setup[c].url
        /\ consumer' = [consumer EXCEPT ![c] = Calling(c, ask, how)]
  BY DEF Begin
<1> DEFINE p == Calling(c, ask, how)
<1>2. /\ consumer[c].pc = "idle" /\ consumer[c] \in Quiet /\ consumer[c].calls \in Nat
      /\ Len(log) \in Nat
  BY Live DEF Begin, At, Quiet, Busy
<1>3. ask \in AskSet /\ ask.op # "tools/list"
  BY Steps, RemoteAssumption DEF AskSet, Truthful
<1>4. /\ p \in Busy /\ p.pc = how /\ p.n = consumer[c].n /\ p.calls = consumer[c].calls + 1
      /\ p.step = 1 /\ p.since = Len(log) /\ p.ask = ask /\ p.booted
  <2>1. /\ p.pc = how /\ p.n = consumer[c].n /\ p.calls = consumer[c].calls + 1
        /\ p.step = 1 /\ p.since = Len(log) /\ p.ask = ask /\ p.booted
    BY <1>2 DEF Calling, At
  <2>2. consumer[c].offered \in Offered /\ consumer[c].n \in Nat
    BY <1>2 DEF Quiet
  <2>3. p \in Busy
    BY <1>1, <1>2, <1>3, <2>2 DEF Calling, Busy, Ids, At
  <2> QED BY <2>1, <2>3
<1>5. /\ UNCHANGED <<last, net, threads, log, setup>>
      /\ DOMAIN last' = Consumers /\ Grows(c)
      /\ net' \subseteq net /\ threads' \subseteq threads
  BY DEF Begin, Grows, catalog, around, Truthful, Shaped
<1> HIDE DEF p
<1>6. consumer'[c] = p
  BY <1>1 DEF Truthful, Shaped, p
<1>7. Gone(<<c, p.calls>>) /\ ~InLog(<<c, p.calls>>)
  <2>1. ASSUME NEW q \in Requests, RequestFits(q) PROVE q.call # <<c, p.calls>>
    BY <1>2, <1>4, <2>1 DEF RequestFits, Requests, CallIds
  <2>2. Gone(<<c, p.calls>>)
    BY <2>1 DEF Gone, Writes, Truthful, Shaped, Replies, ThreadSet, ThreadFits
  <2>3. ASSUME NEW i \in DOMAIN log, log[i].call = <<c, p.calls>> PROVE FALSE
    <3>1. log[i].call # None
      BY <1>2, <1>4, <2>3, RemoteAssumption
    <3>2. log[i].call[1] = c /\ log[i].call[2] = p.calls
      BY <2>3
    <3>3. p.calls <= consumer[c].calls
      BY <3>1, <3>2 DEF Truthful, LogFits
    <3> QED BY <1>2, <1>4, <3>3
  <2> QED BY <2>2, <2>3 DEF InLog
<1>8. CallFits(c)'
  BY <1>1, <1>2, <1>3, <1>4, <1>5, <1>6, <1>7, Steps
  DEF CallFits, Asking, At, Sent, StepsOf, Via, Gone, Writes, InLog, Truthful, Id
<1>9. ToldFits(c)'
  BY <1>2, <1>4, <1>5, <1>6, Live DEF ToldFits, Asking, Gone, Writes, InLog
<1>10. p.pc # "wait" /\ p.calls >= consumer[c].calls /\ p.n = consumer[c].n
  BY <1>2, <1>4
<1>11. consumer' = [consumer EXCEPT ![c] = p]
  BY <1>1 DEF p
<1> QED BY <1>4, <1>5, <1>8, <1>9, <1>10, <1>11, Moves

LEMMA EndsTrue ==
  ASSUME Truthful, NEW c \in Consumers, Barred(c) \/ GiveUp(c) \/ (Send(c) /\ ~server.up)
  PROVE  Truthful'
<1>1. /\ Asking(c) /\ setup' = setup /\ log' = log /\ Grows(c)
      /\ net' \subseteq net /\ threads' \subseteq threads
      /\ \/ At(c, "barred") /\ Ending(c, "refused", None)
         \/ Ending(c, "unreachable", None)
  BY DEF Barred, GiveUp, Send, Asking, At, Grows, catalog, around
<1>2. At(c, "barred") => Gone(Id(c)) /\ ~InLog(Id(c))
  BY <1>1, Live DEF At, Sent
<1> QED BY <1>1, <1>2, Ended DEF InLog, WillBeIn
LEMMA TakeTrue == ASSUME Truthful, NEW c \in Consumers, Take(c) PROVE Truthful'
<1>1. PICK m \in Reply(c) :
        /\ net' = net \ {m}
        /\ CASE ~m.ok -> Ending(c, "refused", None)
             [] m.ok /\ consumer[c].step = Len(StepsOf(c)) -> Ending(c, "ok", m.body)
             [] OTHER -> /\ consumer' = [consumer EXCEPT ![c].pc = "send", ![c].step = @ + 1,
                              ![c].session = IF m.session = None THEN @ ELSE m.session]
                         /\ last' = last
  BY DEF Take
<1>2. /\ m \in net /\ m.to = "consumer" /\ m.c = c /\ m.n = consumer[c].n
      /\ Replies(m) /\ ReplyFits(m) /\ Asking(c) /\ At(c, "wait") /\ consumer[c] \in Busy
  BY <1>1, Live DEF Reply, Take, Asking, At, Truthful, Shaped, Requests
<1>3. /\ setup' = setup /\ log' = log /\ Grows(c)
      /\ net' \subseteq net /\ threads' \subseteq threads
  BY <1>1 DEF Take, Grows, catalog, around
<1>4. \A id : WillBeIn(id) <=> InLog(id)
  BY <1>3 DEF WillBeIn, InLog
<1>5. CASE ~m.ok
  <2>1. Ending(c, "refused", None)
    BY <1>1, <1>5
  <2>2. Gone(Id(c)) /\ ~InLog(Id(c))
    BY <1>2, <1>5, Live DEF ReplyFits, Sent
  <2> QED BY <1>2, <1>3, <1>4, <2>1, <2>2, Ended
<1>6. CASE m.ok /\ consumer[c].step = Len(StepsOf(c))
  <2>1. Ending(c, "ok", m.body)
    BY <1>1, <1>6
  <2>2. Gone(Id(c)) /\ (consumer[c].ask.op \in WriteTools => InLog(Id(c)))
    BY <1>2, <1>6, Live DEF ReplyFits, Sent
  <2>3. consumer[c].ask.op \notin WriteTools /\ consumer[c].ask.op # "tools/list"
          => Answers(m.body, consumer[c].ask, consumer[c].since)
    BY <1>2, <1>6 DEF ReplyFits
  <2> QED BY <1>2, <1>3, <1>4, <2>1, <2>2, <2>3, Ended
<1>7. CASE m.ok /\ consumer[c].step # Len(StepsOf(c))
  <2> DEFINE p == [consumer[c] EXCEPT !.pc = "send", !.step = @ + 1,
                                      !.session = IF m.session = None THEN @ ELSE m.session]
  <2>1. last' = last /\ DOMAIN last' = Consumers
    BY <1>1, <1>7 DEF Truthful, Shaped
  <2>2. consumer' = [consumer EXCEPT ![c] = p]
    BY <1>1, <1>7
  <2>3. /\ p.pc = "send" /\ p.n = consumer[c].n /\ p.calls = consumer[c].calls
        /\ p.step = consumer[c].step + 1 /\ p.since = consumer[c].since
        /\ p.ask = consumer[c].ask /\ p.booted = consumer[c].booted
    BY <1>2 DEF Busy
  <2>4. p \in Busy
    <3>1. m.session \in Ids /\ consumer[c].session \in Ids /\ consumer[c].step + 1 \in Nat
      BY <1>2 DEF Busy, Replies
    <3> QED BY <1>2, <3>1 DEF Busy
  <2> HIDE DEF p
  <2>5. consumer'[c] = p /\ Id(c)' = Id(c)
    BY <2>2, <2>3 DEF Truthful, Shaped, Id
  <2>6. CallFits(c) /\ ToldFits(c) /\ Gone(Id(c)) /\ ~InLog(Id(c)) /\ consumer[c].calls \in Nat
    BY <1>2, <1>7, Live DEF Sent
  <2>7. p.step \in 1..Len(StepsOf(c))
    BY <1>2, <1>7, <2>3, <2>6, Steps DEF CallFits, Truthful
  <2>8. CallFits(c)'
    BY <1>2, <1>3, <2>1, <2>3, <2>5, <2>6, <2>7, Fewer
    DEF CallFits, Asking, At, Sent, StepsOf, Via, InLog
  <2>9. ToldFits(c)'
    BY <1>2, <1>3, <2>1, <2>3, <2>5, <2>6, Fewer DEF ToldFits, Asking, At, InLog
  <2>10. p.pc # "wait" /\ p.calls >= consumer[c].calls
    BY <2>3, <2>6
  <2> QED BY <1>3, <2>1, <2>2, <2>3, <2>4, <2>8, <2>9, <2>10, Moves
<1> QED BY <1>2, <1>5, <1>6, <1>7 DEF Replies

LEMMA LocalTrue == ASSUME Truthful, NEW c \in Consumers, Local(c) PROVE Truthful'
<1> DEFINE ask == consumer[c].ask
<1>1. /\ At(c, "local") /\ Asking(c) /\ CallFits(c) /\ Gone(Id(c)) /\ ~InLog(Id(c))
      /\ setup' = setup /\ net' \subseteq net /\ threads' \subseteq threads
      /\ consumer[c] \in Busy /\ Len(log) \in Nat
  BY Live DEF Local, Asking, At, Sent, around
<1>2. CASE Ending(c, "refused", None) /\ log' = log
  BY <1>1, <1>2, Ended DEF Grows, InLog, WillBeIn
<1>3. CASE /\ ask.op \in WriteTools
           /\ log' = Append(log, [call |-> <<c, consumer[c].calls>>, by |-> "agent"])
           /\ Ending(c, "ok", None)
  <2>1. Grows(c)
    BY <1>1, <1>3 DEF Grows, CallFits, Id
  <2>2. WillBeIn(Id(c))
    <3>1. log' # log
      BY <1>1, <1>3 DEF Truthful, Shaped
    <3> QED BY <2>1, <3>1, GrowsBy
  <2> QED BY <1>1, <1>3, <2>1, <2>2, Ended
<1>4. CASE ask.op \notin WriteTools /\ Ending(c, "ok", Answer(ask)) /\ log' = log
  <2>1. Answers(Answer(ask), ask, consumer[c].since)
    BY <1>1 DEF Answers, Answer, CallFits, Busy
  <2> QED BY <1>1, <1>4, <2>1, Ended DEF Grows
<1> QED BY <1>2, <1>3, <1>4 DEF Local

\* The one step that puts a request on its way.
LEMMA SendTrue ==
  ASSUME QuestionsArrive, Truthful, NEW c \in Consumers, Send(c), server.up
  PROVE  Truthful'
<1> DEFINE p == [consumer[c] EXCEPT !.pc = "wait", !.n = @ + 1]
<1>0. PICK r : r = Request(c)
  OBVIOUS
<1>1. /\ At(c, "send") /\ Asking(c) /\ consumer[c] \in Busy /\ CallFits(c) /\ ToldFits(c)
      /\ Gone(Id(c)) /\ ~InLog(Id(c))
  BY Live DEF Send, Asking, At, Sent
<1>2. /\ net' = net \union {r} /\ consumer' = [consumer EXCEPT ![c] = p] /\ last' = last
      /\ threads' = threads /\ log' = log /\ setup' = setup
  BY <1>0 DEF Send, catalog, around
<1>3. /\ p \in Busy /\ p.pc = "wait" /\ p.n = consumer[c].n + 1 /\ p.calls = consumer[c].calls
      /\ p.step = consumer[c].step /\ p.since = consumer[c].since
      /\ p.ask = consumer[c].ask /\ p.booted = consumer[c].booted
  <2>1. consumer[c] \in Busy /\ consumer[c].n + 1 \in Nat
    BY <1>1 DEF Busy
  <2>2. p \in Busy
    BY <2>1 DEF Busy
  <2> QED BY <2>1, <2>2 DEF Busy
<1>4. consumer[c].step \in 1..Len(StepsOf(c)) /\ Via(c) \in {"stdio", "bridge"}
      /\ Len(StepsOf(c)) \in Nat
  BY <1>1, Steps DEF CallFits, Truthful
<1>5. Forwarded(Via(c), consumer[c].ask) = consumer[c].ask
  <2>1. consumer[c].ask \in Asks[Via(c)] \union Booting
    BY <1>1 DEF CallFits
  <2>2. CASE consumer[c].ask \in Booting
    <3> DEFINE ask == consumer[c].ask
    <3>1. ask = [op |-> ask.op, args |-> None] /\ ask.op \in {"tools/list", "version"}
      BY <2>2 DEF Booting
    <3> HIDE DEF ask
    <3>2. Received(ask.op, None) = None
      BY <3>1 DEF Received
    <3>3. [ask EXCEPT !.args = Received(ask.op, @)] = ask
      BY <3>1, <3>2
    <3> QED BY <3>3 DEF Forwarded, ask
  <2>3. CASE consumer[c].ask \in Asks[Via(c)] /\ Via(c) = "stdio"
    BY <2>3 DEF QuestionsArrive
  <2>4. CASE Via(c) # "stdio"
    BY <1>4, <2>4 DEF Forwarded
  <2> QED BY <2>1, <2>2, <2>3, <2>4
<1> HIDE DEF p
<1>6. /\ r \in Requests /\ r.c = c /\ r.n = p.n /\ r.call = Id(c) /\ r.ask = consumer[c].ask
      /\ r.step = StepsOf(c)[consumer[c].step] /\ r.via = Via(c) /\ r.who = setup[c].who
      /\ r.to = "server"
  <2>1. /\ r.c = c /\ r.n = consumer[c].n + 1 /\ r.call = Id(c) /\ r.ask = consumer[c].ask
        /\ r.step = StepsOf(c)[consumer[c].step] /\ r.via = Via(c) /\ r.who = setup[c].who
        /\ r.to = "server" /\ r.session = consumer[c].session
    BY <1>0, <1>5 DEF Request, Id
  <2>2. /\ consumer[c].n + 1 \in Nat /\ Id(c) \in CallIds /\ consumer[c].ask \in AskSet
        /\ consumer[c].session \in Ids
    BY <1>1 DEF Busy, CallIds, Id
  <2>3. StepsOf(c)[consumer[c].step] \in StepSet /\ setup[c].who \in Whos
    BY <1>4, Steps DEF Truthful, Shaped, Whos
  <2>4. r = [to |-> "server", c |-> c, n |-> consumer[c].n + 1,
             step |-> StepsOf(c)[consumer[c].step], ask |-> consumer[c].ask, call |-> Id(c),
             session |-> consumer[c].session, who |-> setup[c].who, via |-> Via(c)]
    BY <1>0, <1>5 DEF Request, Id
  <2>5. r \in Requests
    BY <1>4, <2>2, <2>3, <2>4 DEF Requests
  <2> QED BY <1>3, <2>1, <2>5
<1>7. /\ consumer'[c] = p /\ \A d \in Consumers \ {c} : consumer'[d] = consumer[d]
      /\ \A d \in Consumers : Id(d)' = Id(d)
  BY <1>2, <1>3 DEF Truthful, Shaped, Id
<1>8. Shaped'
  BY <1>2, <1>3, <1>6 DEF Truthful, Shaped, Replies
<1>9. \A id : InLog(id)' <=> InLog(id)
  BY <1>2 DEF InLog
<1>10. OneWrite'
  BY <1>1, <1>2, <1>6 DEF Truthful, OneWrite, Writes, Gone
<1>11. LogFits'
  <2>1. ASSUME NEW i \in DOMAIN log, log[i].call # None
        PROVE  log[i].call[1] \in Consumers
    BY <2>1, Rows DEF Truthful
  <2>2. \A d \in Consumers : consumer'[d].calls = consumer[d].calls
    BY <1>3, <1>7
  <2> QED BY <1>2, <2>1, <2>2 DEF Truthful, LogFits, Name
<1>12. ASSUME NEW d \in Consumers, d # c PROVE CallFits(d)' /\ ToldFits(d)'
  <2>1. consumer'[d] = consumer[d] /\ Id(d)' = Id(d) /\ Id(d) # Id(c)
    BY <1>7, <1>12 DEF Id
  <2>2. \A id : Gone(id) /\ id # Id(c) => Gone(id)'
    BY <1>2, <1>6 DEF Gone, Writes
  <2>3. CallFits(d) /\ ToldFits(d)
    BY DEF Truthful
  <2>4. CallFits(d)'
    BY <1>2, <1>9, <2>1, <2>2, <2>3 DEF CallFits, Asking, At, Sent, StepsOf, Via
  <2>5. last[d] # None => last[d].call # Id(c)
    BY <1>12, <2>3 DEF ToldFits, Id
  <2>6. ToldFits(d)'
    BY <1>2, <1>9, <2>1, <2>2, <2>3, <2>5 DEF ToldFits, Asking
  <2> QED BY <2>4, <2>6
<1>13. CallFits(c)'
  <2>1. ~Sent(c)' => Gone(Id(c))'
    <3>1. SUFFICES ASSUME ~Sent(c)' PROVE ~Writes(r)
      BY <1>1, <1>2, <1>7 DEF Gone, Writes
    <3>2. p.step # Len(StepsOf(c)) \/ p.ask.op \notin WriteTools
      BY <1>2, <1>3, <1>7, <3>1 DEF Sent, At, StepsOf, Via
    <3> QED BY <1>3, <1>4, <1>6, <3>2, Steps DEF Writes, Truthful
  <2> QED BY <1>1, <1>2, <1>3, <1>4, <1>7, <1>9, <2>1
          DEF CallFits, Asking, At, StepsOf, Via
<1>14. ToldFits(c)'
  <2>1. last[c] # None => last[c].call # Id(c)
    BY <1>1 DEF ToldFits, Id
  <2>2. \A id : Gone(id) /\ id # Id(c) => Gone(id)'
    BY <1>2, <1>6 DEF Gone, Writes
  <2> QED BY <1>1, <1>2, <1>3, <1>7, <1>9, <2>1, <2>2 DEF ToldFits, Asking
<1>15. RequestFits(r)' /\ (Writes(r) => ~InLog(r.call)')
  <2>1. Writes(r) => setup[c].url
    BY <1>1, <1>6 DEF Writes, CallFits
  <2>2. r.via = "stdio" => r.step = "call"
    <3>1. Via(c) = "stdio" => consumer[c].step = Len(StepsOf(c))
      BY <1>4, Steps DEF Truthful
    <3> QED BY <1>4, <1>6, <3>1, Steps DEF Truthful
  <2>3. r.call[1] = c /\ r.call[2] = consumer[c].calls /\ consumer[c].calls \in Nat /\ p.n \in Nat
    BY <1>1, <1>3, <1>6 DEF Id, Busy
  <2> QED BY <1>1, <1>2, <1>3, <1>6, <1>7, <1>9, <2>1, <2>2, <2>3
          DEF RequestFits, Writes, Via, At, StepsOf
<1>16. ASSUME NEW q \in Requests, RequestFits(q) PROVE RequestFits(q)'
  <2>1. q.c \in Consumers /\ q.n \in Nat /\ q.call[2] \in Nat
    BY DEF Requests, CallIds
  <2>2. consumer[c].n \in Nat
    BY <1>1 DEF Busy
  <2>3. CASE q.c = c
    BY <1>2, <1>3, <1>7, <1>16, <2>1, <2>2, <2>3 DEF RequestFits, Writes, Via, At
  <2>4. CASE q.c # c
    BY <1>2, <1>7, <1>16, <2>1, <2>4 DEF RequestFits, Writes, Via, At, StepsOf
  <2> QED BY <2>3, <2>4
<1>17. ASSUME NEW m \in net', m.to = "server"
       PROVE  RequestFits(m)' /\ (Writes(m) => ~InLog(m.call)')
  <2>1. CASE m = r
    BY <1>15, <2>1
  <2>2. CASE m \in net
    BY <1>9, <1>16, <1>17, <2>2 DEF Truthful, Shaped, Replies
  <2> QED BY <1>2, <2>1, <2>2
<1>18. ASSUME NEW m \in net', m.to = "consumer" PROVE ReplyFits(m)'
  <2>1. m \in net /\ Replies(m) /\ ReplyFits(m)
    BY <1>2, <1>6, <1>18 DEF Truthful, Shaped, Requests
  <2>2. CASE m.c = c
    <3>1. m.n < p.n
      BY <1>1, <1>3, <2>1, <2>2 DEF ReplyFits, Replies, Busy
    <3>2. m.n \in Nat /\ p.n \in Nat
      BY <1>3, <2>1 DEF Replies, Busy
    <3> QED BY <1>7, <2>2, <3>1, <3>2 DEF ReplyFits
  <2>3. CASE m.c # c
    <3>1. m.c \in Consumers /\ consumer'[m.c] = consumer[m.c] /\ Id(m.c)' = Id(m.c)
          /\ Id(m.c) # Id(c)
      BY <1>7, <2>1, <2>3 DEF Replies, Id
    <3>2. Gone(Id(m.c)) => Gone(Id(m.c))'
      BY <1>2, <1>6, <3>1 DEF Gone, Writes
    <3> QED BY <1>2, <1>9, <2>1, <3>1, <3>2 DEF ReplyFits, At, StepsOf, Via, Answers
  <2> QED BY <2>2, <2>3
<1>19. ASSUME NEW t \in threads' PROVE ThreadFits(t)'
  <2>1. t \in threads /\ t.req \in Requests /\ ThreadFits(t)
    BY <1>2, <1>19 DEF Truthful, Shaped, ThreadSet
  <2> QED BY <1>9, <1>16, <2>1 DEF ThreadFits, Writes
<1> QED BY <1>8, <1>10, <1>11, <1>12, <1>13, <1>14, <1>17, <1>18, <1>19 DEF Truthful, Writes
-----------------------------------------------------------------------------
(* The server.                                                              *)

\* The consumers and the log stay as they are; what is new has to fit.
LEMMA Stays ==
  ASSUME Truthful, UNCHANGED <<setup, consumer, last, log>>, Shaped', OneWrite',
         \A id : Gone(id) => Gone(id)',
         \A m \in net' \ net :
           /\ m.to = "server" => RequestFits(m) /\ (Writes(m) => ~InLog(m.call))
           /\ m.to = "consumer" => ReplyFits(m)',
         \A t \in threads' \ threads : ThreadFits(t)
  PROVE  Truthful'
<1>1. /\ \A id : InLog(id)' <=> InLog(id)
      /\ \A c \in Consumers : Id(c)' = Id(c)
  BY DEF InLog, Id
<1>2. LogFits'
  BY DEF Truthful, LogFits, Name
<1>3. ASSUME NEW c \in Consumers PROVE CallFits(c)' /\ ToldFits(c)'
  <2>1. CallFits(c) /\ ToldFits(c)
    BY DEF Truthful
  <2>2. CallFits(c)'
    BY <1>1, <2>1 DEF CallFits, Asking, At, Sent, StepsOf, Via
  <2>3. ToldFits(c)'
    BY <1>1, <2>1 DEF ToldFits, Asking
  <2> QED BY <2>2, <2>3
<1>4. ASSUME NEW q PROVE RequestFits(q)' <=> RequestFits(q)
  BY DEF RequestFits, Id, Via, StepsOf, At, Writes
<1>5. ASSUME NEW m \in net', m.to = "server"
      PROVE  RequestFits(m)' /\ (Writes(m) => ~InLog(m.call)')
  BY <1>1, <1>4, <1>5 DEF Truthful
<1>6. ASSUME NEW m \in net', m.to = "consumer" PROVE ReplyFits(m)'
  <2>1. CASE m \in net
    <3>1. ReplyFits(m) /\ m.c \in Consumers
      BY <1>6, <2>1 DEF Truthful, Shaped, Replies, Requests
    <3> QED BY <1>1, <3>1 DEF ReplyFits, At, StepsOf, Via, Answers
  <2> QED BY <1>6, <2>1
<1>7. ASSUME NEW t \in threads' PROVE ThreadFits(t)'
  <2>1. ThreadFits(t)
    BY DEF Truthful
  <2> QED BY <1>1, <1>4, <2>1 DEF ThreadFits, Writes
<1> QED BY <1>2, <1>3, <1>5, <1>6, <1>7 DEF Truthful, Writes

\* A thread goes on with its request.
LEMMA GoesOn ==
  ASSUME Truthful, NEW t \in threads, NEW s \in ThreadSet, s.req = t.req, ThreadFits(s),
         UNCHANGED <<setup, consumer, last, log, net>>,
         threads' = (threads \ {t}) \union {s}
  PROVE  Truthful'
<1>1. Shaped'
  BY DEF Truthful, Shaped, Replies
<1>2. OneWrite'
  BY DEF Truthful, OneWrite, Writes
<1>3. \A id : Gone(id) => Gone(id)'
  BY DEF Gone, Writes
<1> QED BY <1>1, <1>2, <1>3, Stays

\* A thread ends with a reply, which the consumer may no longer wait for.
LEMMA Replying ==
  ASSUME Truthful, NEW t \in threads, NEW ok \in BOOLEAN, NEW body, NEW session \in Ids,
         Replied(t, ok, body, session), UNCHANGED <<setup, consumer, last, log>>,
         Writes(t.req) => (ok <=> t.pc = "written"),
         t.req.step = "call" /\ t.req.ask.op \notin WriteTools \union {"tools/list"} /\ ok
           => body = Answer(t.req.ask)
  PROVE  Truthful'
<1> DEFINE c == t.req.c
<1>1. PICK m : m = [to |-> "consumer", c |-> c, n |-> t.req.n, ok |-> ok,
                    body |-> body, session |-> session]
  OBVIOUS
<1>2. /\ threads' = threads \ {t}
      /\ net' = IF At(c, "wait") /\ consumer[c].n = t.req.n THEN net \union {m} ELSE net
  BY <1>1 DEF Replied
<1>3. /\ t.req \in Requests /\ c \in Consumers /\ t.req.n \in Nat
      /\ ThreadFits(t) /\ RequestFits(t.req)
  BY DEF Truthful, Shaped, ThreadSet, Requests, ThreadFits
<1>4. /\ m.to = "consumer" /\ m.c = c /\ m.n = t.req.n /\ m.ok = ok /\ m.body = body
      /\ m.session = session /\ Replies(m)
  BY <1>1, <1>3 DEF Replies
<1>5. Shaped'
  BY <1>2, <1>4 DEF Truthful, Shaped, Replies
<1>6. OneWrite'
  BY <1>2, <1>4 DEF Truthful, OneWrite, Writes
<1>7. \A id : Gone(id) => Gone(id)'
  BY <1>2, <1>4 DEF Gone, Writes
<1>8. ASSUME At(c, "wait"), consumer[c].n = t.req.n PROVE ReplyFits(m)'
  <2>1. /\ t.req.call = Id(c) /\ t.req.ask = consumer[c].ask
        /\ t.req.step = StepsOf(c)[consumer[c].step]
    BY <1>3, <1>8 DEF RequestFits
  <2>2. /\ consumer[c].n \in Nat /\ consumer[c].since \in Nat /\ Asking(c) /\ CallFits(c)
        /\ Len(log) \in Nat
    BY <1>3, <1>8, Live DEF At, Asking, Busy
  <2>3. CASE consumer[c].step # Len(StepsOf(c))
    BY <1>3, <1>4, <1>8, <2>2, <2>3 DEF ReplyFits, StepsOf, Via
  <2>4. CASE consumer[c].step = Len(StepsOf(c))
    <3>1. t.req.step = "call" /\ t.req.to = "server"
      BY <1>3, <2>1, <2>2, <2>4, Steps DEF CallFits, Truthful, Requests
    <3>2. CASE consumer[c].ask.op \in WriteTools
      <4>1. Writes(t.req)
        BY <2>1, <3>1, <3>2 DEF Writes
      <4>2. ok <=> InLog(Id(c))
        BY <1>3, <2>1, <4>1 DEF ThreadFits
      <4>3. Id(c)' = Id(c) /\ (InLog(Id(c))' <=> InLog(Id(c)))
        BY DEF Id, InLog
      <4>4. Gone(Id(c))'
        BY <1>2, <1>4, <2>1, <4>1, <4>3 DEF Gone, Truthful, OneWrite, Writes
      <4> QED BY <1>4, <2>2, <3>2, <4>2, <4>3, <4>4, <1>8 DEF ReplyFits
    <3>3. CASE consumer[c].ask.op \notin WriteTools
      <4>1. consumer[c].ask.op # "tools/list" /\ ok
              => Answers(body, consumer[c].ask, consumer[c].since)
        BY <2>1, <2>2, <3>1, <3>3 DEF Answers, Answer, CallFits
      <4> QED BY <1>4, <1>8, <2>2, <3>3, <4>1 DEF ReplyFits, Answers
    <3> QED BY <3>2, <3>3
  <2> QED BY <2>3, <2>4
<1>9. \A x \in net' \ net : x = m /\ At(c, "wait") /\ consumer[c].n = t.req.n
  BY <1>2
<1>10. \A x \in threads' \ threads : ThreadFits(x)
  BY <1>2
<1> QED BY <1>4, <1>5, <1>6, <1>7, <1>8, <1>9, <1>10, Stays

LEMMA Refusing ==
  ASSUME Truthful, NEW t \in threads, t.pc # "written", Refuse(t),
         UNCHANGED <<setup, consumer, last, log>>
  PROVE  Truthful'
BY Replying DEF Refuse, Ids

LEMMA AcceptTrue == ASSUME Truthful, Accept PROVE Truthful'
<1>1. PICK m \in net : /\ m.to = "server" /\ net' = net \ {m}
                       /\ threads' = threads \union {[req |-> m, pc |-> "auth", by |-> None]}
  BY DEF Accept
<1>2. PICK t : t = [req |-> m, pc |-> "auth", by |-> None]
  OBVIOUS
<1>3. /\ t.req = m /\ t.pc = "auth" /\ t.by = None /\ threads' = threads \union {t}
      /\ UNCHANGED <<setup, consumer, last, log>>
  BY <1>1, <1>2 DEF Accept, catalog, around
<1>4. m \in Requests /\ RequestFits(m) /\ (Writes(m) => ~InLog(m.call))
  BY <1>1 DEF Truthful, Shaped, Replies
<1>5. t \in ThreadSet
  BY <1>2, <1>4 DEF ThreadSet, Whos
<1>6. Shaped'
  BY <1>1, <1>3, <1>5 DEF Truthful, Shaped, Replies
<1>7. OneWrite'
  BY <1>1, <1>3 DEF Truthful, OneWrite, Writes
<1>8. \A id : Gone(id) => Gone(id)'
  BY <1>1, <1>3 DEF Gone, Writes
<1>9. ThreadFits(t)
  BY <1>3, <1>4 DEF ThreadFits
<1> QED BY <1>1, <1>3, <1>6, <1>7, <1>8, <1>9, Stays

LEMMA Named == ASSUME NEW who PROVE Principal(who) \in {None, who}
BY DEF Principal

LEMMA AuthorizeTrue ==
  ASSUME Truthful, NEW t \in threads, Authorize(t) PROVE Truthful'
<1>1. /\ UNCHANGED <<setup, consumer, last, log>> /\ t.pc = "auth"
      /\ t \in ThreadSet /\ ThreadFits(t)
  BY DEF Authorize, catalog, around, Truthful, Shaped
<1>2. CASE Refuse(t)
  BY <1>1, <1>2, Refusing
<1>3. CASE ~Refuse(t)
  <2> DEFINE p == Principal(t.req.who)
             s == [t EXCEPT !.by = p, !.pc = IF t.req.via = "bridge" THEN "session" ELSE "open"]
  <2>1. net' = net /\ threads' = (threads \ {t}) \union {s}
    BY <1>3 DEF Authorize
  <2>2. t.req \in Requests /\ p \in {None, t.req.who}
    BY <1>1, Named DEF ThreadSet
  <2> HIDE DEF p
  <2>3. /\ s \in ThreadSet /\ s.req = t.req /\ s.by = p
        /\ s.pc = IF t.req.via = "bridge" THEN "session" ELSE "open"
    BY <1>1, <2>2 DEF ThreadSet, Requests, Whos
  <2> HIDE DEF s
  <2>4. ThreadFits(s)
    BY <1>1, <2>2, <2>3 DEF ThreadFits, Requests
  <2> QED BY <1>1, <2>1, <2>3, <2>4, GoesOn
<1> QED BY <1>2, <1>3

\* A thread whose request was let through goes to where it is done.
LEMMA Goes2 ==
  ASSUME Truthful, NEW t \in threads, t.pc # "written", NEW pc \in {"answer", "write"},
         NEW by \in {t.by, t.req.who},
         UNCHANGED <<setup, consumer, last, log, net>>,
         threads' = (threads \ {t}) \union {[t EXCEPT !.pc = pc, !.by = by]},
         t.req.step = "call",
         pc = "write" => t.req.ask.op \in WriteTools /\ by = t.req.who,
         pc = "answer" => t.req.ask.op \notin WriteTools
  PROVE  Truthful'
<1>1. t \in ThreadSet /\ t.req \in Requests /\ ThreadFits(t) /\ t.req.to = "server"
  BY DEF Truthful, Shaped, ThreadSet, Requests
<1>2. PICK s : s = [t EXCEPT !.pc = pc, !.by = by]
  OBVIOUS
<1>3. s \in ThreadSet /\ s.req = t.req /\ s.pc = pc /\ s.by = by
  BY <1>1, <1>2 DEF ThreadSet, Requests
<1>4. ThreadFits(s)
  BY <1>1, <1>3 DEF ThreadFits, Writes
<1> QED BY <1>2, <1>3, <1>4, GoesOn

LEMMA GotoTrue ==
  ASSUME Truthful, NEW t \in threads, t.pc # "written", NEW pc \in {"answer", "write"},
         UNCHANGED <<setup, consumer, last, log>>, Goto(t, pc), t.req.step = "call",
         pc = "write" => t.req.ask.op \in WriteTools /\ t.by = t.req.who,
         pc = "answer" => t.req.ask.op \notin WriteTools
  PROVE  Truthful'
<1>1. t \in ThreadSet
  BY DEF Truthful, Shaped
<1>2. [t EXCEPT !.pc = pc] = [t EXCEPT !.pc = pc, !.by = t.by]
  BY <1>1 DEF ThreadSet
<1> QED BY <1>2, Goes2 DEF Goto

LEMMA SessionTrue ==
  ASSUME Truthful, NEW t \in threads, Session(t) PROVE Truthful'
<1> DEFINE op == t.req.ask.op
<1>1. /\ UNCHANGED <<setup, consumer, last, log>> /\ t.pc = "session"
      /\ t.req \in Requests /\ t.by \in {None, t.req.who}
      /\ ThreadFits(t)
  BY DEF Session, catalog, around, Truthful, Shaped, ThreadSet, ThreadFits
<1>2. CASE Refuse(t)
  BY <1>1, <1>2, Refusing
<1>3. CASE t.req.step = "initialize"
  <2>1. Replied(t, TRUE, None, <<t.req.c, t.req.n>>)
    BY <1>3 DEF Session
  <2>2. <<t.req.c, t.req.n>> \in Ids
    BY <1>1 DEF Requests, Ids, CallIds
  <2> QED BY <1>1, <1>3, <2>1, <2>2, Replying DEF Writes
<1>4. CASE t.req.step = "initialized" /\ ~Refuse(t)
  <2>1. Replied(t, TRUE, None, None)
    BY <1>4 DEF Session
  <2> QED BY <1>1, <1>4, <2>1, Replying DEF Writes, Ids
<1>5. CASE t.req.step = "call" /\ ~Refuse(t)
  <2>1. CASE op = "tools/list"
    <3>1. Replied(t, TRUE, Served(t.by), t.req.session)
      BY <1>5, <2>1 DEF Session, WriteTools, ManifestTools
    <3>2. ~Writes(t.req) /\ t.req.session \in Ids
      BY <1>1, <2>1 DEF Writes, WriteTools, Requests
    <3> QED BY <1>1, <2>1, <3>1, <3>2, Replying
  <2>2. CASE op # "tools/list" /\ op \in WriteTools
    <3>1. MayWrite(t.by) /\ Goto(t, "write")
      BY <1>5, <2>2 DEF Session, WriteTools, ManifestTools
    <3>2. t.by = t.req.who
      BY <1>1, <3>1 DEF MayWrite
    <3> QED BY <1>1, <1>5, <2>2, <3>1, <3>2, GotoTrue
  <2>3. CASE op # "tools/list" /\ op \notin WriteTools
    <3>1. Goto(t, "answer")
      BY <1>5, <2>3 DEF Session
    <3> QED BY <1>1, <1>5, <2>3, <3>1, GotoTrue
  <2> QED BY <2>1, <2>2, <2>3
<1> QED BY <1>1, <1>2, <1>3, <1>4, <1>5 DEF Requests, StepSet

LEMMA OpenTrue ==
  ASSUME Truthful, NEW t \in threads, Open(t) PROVE Truthful'
<1> DEFINE op == t.req.ask.op
<1>1. /\ UNCHANGED <<setup, consumer, last, log>> /\ t.pc = "open"
      /\ t.req.step = "call"
  BY DEF Open, catalog, around, Truthful, ThreadFits, RequestFits
<1>2. CASE Refuse(t)
  BY <1>1, <1>2, Refusing
<1>3. CASE ~Refuse(t) /\ op \in WriteTools
  <2>1. /\ Principal(t.req.who) # None /\ net' = net
        /\ threads' = (threads \ {t}) \union
                        {[t EXCEPT !.pc = "write", !.by = Principal(t.req.who)]}
    BY <1>3 DEF Open, WriteTools, ManifestTools
  <2>2. Principal(t.req.who) = t.req.who
    BY <2>1, Named
  <2> QED BY <1>1, <1>3, <2>1, <2>2, Goes2
<1>4. CASE ~Refuse(t) /\ op \notin WriteTools
  <2>1. Goto(t, "answer")
    BY <1>4 DEF Open
  <2> QED BY <1>1, <1>4, <2>1, GotoTrue
<1> QED BY <1>2, <1>3, <1>4

LEMMA QueryTrue ==
  ASSUME Truthful, NEW t \in threads, Query(t) PROVE Truthful'
<1>1. /\ UNCHANGED <<setup, consumer, last, log>> /\ t.pc = "answer"
      /\ t.req.ask.op \notin WriteTools /\ t.req.session \in Ids
  BY DEF Query, catalog, around, Truthful, Shaped, ThreadSet, Requests, ThreadFits
<1>2. CASE Refuse(t)
  BY <1>1, <1>2, Refusing
<1>3. CASE Replied(t, TRUE, Answer(t.req.ask), t.req.session)
  BY <1>1, <1>3, Replying DEF Writes
<1> QED BY <1>2, <1>3 DEF Query

LEMMA RespondTrue ==
  ASSUME Truthful, NEW t \in threads, Respond(t) PROVE Truthful'
<1>1. /\ UNCHANGED <<setup, consumer, last, log>> /\ t.pc = "written"
      /\ t.req.ask.op \in WriteTools /\ t.req.session \in Ids
      /\ Replied(t, TRUE, None, t.req.session)
  BY DEF Respond, catalog, around, Truthful, Shaped, ThreadSet, Requests, ThreadFits, Writes
<1> QED BY <1>1, Replying DEF Writes

\* What the gate lets through is committed once, in the name of its consumer.
LEMMA WriteTrue ==
  ASSUME Truthful, NEW t \in threads, Write(t) PROVE Truthful'
<1>1. CASE Refuse(t) /\ log' = log
  <2>1. UNCHANGED <<setup, consumer, last, log>> /\ t.pc = "write"
    BY <1>1 DEF Write, around
  <2> QED BY <1>1, <2>1, Refusing
<1>2. CASE Goto(t, "written") /\ log' = Append(log, [call |-> t.req.call, by |-> t.by])
  <2> DEFINE id == t.req.call
             c == t.req.c
  <2>1. PICK s : s = [t EXCEPT !.pc = "written"]
    OBVIOUS
  <2>2. PICK row : row = [call |-> id, by |-> t.by]
    OBVIOUS
  <2>3. /\ UNCHANGED <<setup, consumer, last, net>> /\ t.pc = "write"
        /\ t \in ThreadSet /\ t.req \in Requests /\ ThreadFits(t) /\ RequestFits(t.req)
        /\ Writes(t.req) /\ t.by = t.req.who /\ ~InLog(id)
        /\ log' = Append(log, row) /\ threads' = (threads \ {t}) \union {s}
    BY <1>2, <2>1, <2>2 DEF Write, around, Goto, Truthful, Shaped, ThreadSet, ThreadFits
  <2>4. s \in ThreadSet /\ s.req = t.req /\ s.pc = "written" /\ s.by = t.by
    BY <2>1, <2>3 DEF ThreadSet, Requests
  <2>5. /\ id \in CallIds /\ id # None /\ c \in Consumers /\ id[1] = c
        /\ id[2] <= consumer[c].calls /\ setup[c].url /\ t.req.who = setup[c].who
    BY <2>3, RemoteAssumption DEF Requests, CallIds, RequestFits
  <2>6. row \in RowSet /\ row.call = id /\ row.by = Name(c)
    BY <2>2, <2>3, <2>5 DEF RowSet, Ids, Requests, Name
  <2>7. /\ log' \in Seq(RowSet) /\ Len(log) \in Nat /\ Len(log') = Len(log) + 1
        /\ \A x : InLog(x)' <=> InLog(x) \/ id = x
    BY <2>3, <2>6, Appended DEF Truthful
  <2>8. \A x : Gone(x) => Gone(x)' /\ x # id
    BY <2>3, <2>4 DEF Gone, Writes
  <2>9. Shaped'
    BY <2>3, <2>4, <2>7 DEF Truthful, Shaped, Replies
  <2>10. OneWrite'
    BY <2>3, <2>4 DEF Truthful, OneWrite, Writes
  <2>11. LogFits'
    <3>1. \A d \in Consumers : consumer[d].calls \in Nat
      BY Live
    <3> QED BY <2>3, <2>5, <2>6, <3>1, LogGrows
  <2>12. ASSUME NEW d \in Consumers PROVE CallFits(d)' /\ ToldFits(d)'
    <3>1. CallFits(d) /\ ToldFits(d) /\ Id(d)' = Id(d)
      BY <2>3 DEF Truthful, Id
    <3>2. Asking(d) => consumer[d].since \in Nat
      BY Live DEF Busy
    <3>3. CallFits(d)'
      BY <2>3, <2>7, <2>8, <3>1, <3>2 DEF CallFits, Asking, At, Sent, StepsOf, Via
    <3>4. ToldFits(d)'
      BY <2>3, <2>7, <2>8, <3>1 DEF ToldFits, Asking
    <3> QED BY <3>3, <3>4
  <2>13. ASSUME NEW q PROVE RequestFits(q)' <=> RequestFits(q)
    BY <2>3 DEF RequestFits, Id, Via, StepsOf, At, Writes
  <2>14. ASSUME NEW m \in net', m.to = "server"
         PROVE  RequestFits(m)' /\ (Writes(m) => ~InLog(m.call)')
    BY <2>3, <2>7, <2>13, <2>14 DEF Truthful, OneWrite
  <2>15. ASSUME NEW m \in net', m.to = "consumer" PROVE ReplyFits(m)'
    <3>1. ReplyFits(m) /\ m.c \in Consumers /\ Id(m.c)' = Id(m.c)
      BY <2>3, <2>15 DEF Truthful, Shaped, Replies, Requests, Id
    <3>2. At(m.c, "wait") => consumer[m.c].since \in Nat
      BY <3>1, Live DEF Busy, Asking, At
    <3> QED BY <2>3, <2>7, <2>8, <3>1, <3>2 DEF ReplyFits, At, StepsOf, Via, Answers
  <2>16. ASSUME NEW x \in threads' PROVE ThreadFits(x)'
    <3>1. CASE x = s
      BY <2>3, <2>4, <2>7, <2>13, <3>1 DEF ThreadFits, Writes
    <3>2. CASE x \in threads \ {t}
      <4>1. x \in threads /\ x # t /\ ThreadFits(x)
        BY <3>2 DEF Truthful
      <4>2. Writes(x.req) => x.req.call # id
        BY <2>3, <4>1 DEF Truthful, OneWrite
      <4> QED BY <2>7, <2>13, <4>1, <4>2 DEF ThreadFits, Writes
    <3> QED BY <2>3, <3>1, <3>2
  <2> QED BY <2>9, <2>10, <2>11, <2>12, <2>14, <2>15, <2>16 DEF Truthful, Writes
<1> QED BY <1>1, <1>2 DEF Write
-----------------------------------------------------------------------------
(* The theorem.                                                             *)

LEMMA InitTrue == Init => Truthful
<1> SUFFICES ASSUME Init PROVE Truthful
  OBVIOUS
<1>1. /\ \A c \in Consumers :
           consumer[c] = [Idle EXCEPT !.pc = IF Via(c) = "bridge" THEN "boot" ELSE "idle"]
      /\ setup \in [Consumers -> Setups] /\ last = [c \in Consumers |-> None]
      /\ net = {} /\ threads = {} /\ log = <<>> /\ DOMAIN consumer = Consumers
      /\ consumer = [c \in Consumers |-> consumer[c]]
  BY DEF Init
<1>2. \A c \in Consumers : /\ consumer[c] \in Quiet /\ consumer[c].calls = 0
                           /\ consumer[c].pc \in {"boot", "idle"}
  BY <1>1 DEF Quiet, Idle, Offered
<1>3. Shaped
  BY <1>1, <1>2 DEF Shaped
<1>4. ~\E i \in DOMAIN log : TRUE
  BY <1>1
<1>5. OneWrite /\ LogFits
  BY <1>1, <1>4 DEF OneWrite, LogFits
<1>6. ASSUME NEW c \in Consumers PROVE CallFits(c) /\ ToldFits(c)
  BY <1>1, <1>2, <1>4 DEF CallFits, ToldFits, Asking, At, Gone, InLog
<1> QED BY <1>1, <1>3, <1>5, <1>6 DEF Truthful

LEMMA NextTrue == ASSUME QuestionsArrive, Truthful, [Next]_vars PROVE Truthful'
<1>1. ASSUME NEW c \in Consumers, Consumes(c) PROVE Truthful'
  BY <1>1, BootTrue, BeginTrue, EndsTrue, LocalTrue, SendTrue, TakeTrue DEF Consumes
<1>2. ASSUME NEW t \in threads,
             Authorize(t) \/ Session(t) \/ Open(t) \/ Query(t) \/ Write(t) \/ Respond(t)
      PROVE  Truthful'
  BY <1>2, AuthorizeTrue, SessionTrue, OpenTrue, QueryTrue, WriteTrue, RespondTrue
<1>3. CASE Lose \/ Stop \/ Start \/ Expire \/ Toggle \/ Rival \/ UNCHANGED vars
  <2>1. /\ UNCHANGED <<setup, consumer, last>>
        /\ log' = log \/ log' = Append(log, [call |-> None, by |-> None])
        /\ net' \subseteq net /\ threads' \subseteq threads
    BY <1>3 DEF Lose, Stop, Start, Expire, Toggle, Rival, Mishap, catalog, around, vars
  <2> QED BY <2>1, Shrinks
<1> QED BY <1>1, <1>2, <1>3, AcceptTrue DEF Next, Serves

LEMMA TrueIsTold == Truthful => AnswersTrue
<1> SUFFICES ASSUME Truthful, NEW c \in Consumers, last[c] # None
             PROVE  LET l == last[c]
                        mine == {i \in DOMAIN log : log[i].call = l.call} IN
                    /\ Cardinality(mine) <= 1 /\ \A i \in mine : log[i].by = Name(c)
                    /\ l.how = "ok" /\ l.ask.op \in WriteTools => mine # {}
                    /\ l.how = "refused" => mine = {}
                    /\ l.how = "ok" /\ l.ask.op \notin WriteTools =>
                         /\ <<l.body.op, l.body.args>> = <<l.ask.op, l.ask.args>>
                         /\ l.body.at \in l.since..l.until
  BY DEF AnswersTrue
<1> DEFINE l == last[c]
           mine == {i \in DOMAIN log : log[i].call = l.call}
<1>1. ToldFits(c) /\ LogFits
  BY DEF Truthful
<1>2. PICK k \in Nat : l.call = <<c, k>>
  BY <1>1 DEF ToldFits
<1>3. l.call # None /\ l.call[1] = c
  BY <1>2, RemoteAssumption
<1>4. \A i, j \in mine : i = j
  BY <1>1, <1>3 DEF LogFits
<1>5. Cardinality(mine) <= 1
  <2> HIDE DEF mine
  <2>1. CASE mine = {}
    <3>1. Cardinality({}) = 0
      BY FS_EmptySet
    <3> QED BY <2>1, <3>1
  <2>2. CASE mine # {}
    <3>1. PICK i : mine = {i}
      BY <1>4, <2>2
    <3>2. Cardinality({i}) = 1
      BY FS_Singleton
    <3> QED BY <3>1, <3>2
  <2> QED BY <2>1, <2>2
<1>6. \A i \in mine : log[i].by = Name(c)
  BY <1>1, <1>3 DEF LogFits
<1>7. InLog(l.call) <=> mine # {}
  BY DEF InLog
<1> QED BY <1>1, <1>5, <1>6, <1>7 DEF ToldFits

\* What a consumer is told is true of the catalog, whatever is lost or delayed,
\* whoever dies and whatever expires, provided that the stdio server is asked
\* only what its requests can say (adapters/client.py, adapters/http.py).
THEOREM ToldTrue == QuestionsArrive /\ Spec => []AnswersTrue
<1> SUFFICES ASSUME QuestionsArrive PROVE Spec => []AnswersTrue
  OBVIOUS
<1>1. Init => Truthful
  BY InitTrue
<1>2. Truthful /\ [Next]_vars => Truthful'
  BY NextTrue
<1>3. Truthful => AnswersTrue
  BY TrueIsTold
<1> QED BY <1>1, <1>2, <1>3, PTL DEF Spec
=============================================================================
