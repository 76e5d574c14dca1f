---------------------------- MODULE McpServerProofs ----------------------------
(***************************************************************************)
(* Machine-checked theorems about McpServer, for any number of request     *)
(* threads, sessions, principals and requests, and any limits.             *)
(***************************************************************************)
EXTENDS McpServer, FiniteSetTheorems, TLAPS

LEMMA Bounds ==
  /\ Ttl \in Nat /\ Window \in Nat /\ Limit \in Nat /\ Stall \in Nat
  /\ MaxClock \in Nat /\ MaxRequests \in Nat
  /\ Time \subseteq Nat /\ 0 \in Time /\ Never \notin Time
BY ServerAssumption DEF Time, Never

LEMMA IdleType ==
  /\ Idle \in Thread /\ Idle.pc = "idle" /\ Idle.req.sid = NoSession
  /\ Idle.principal = Anonymous
BY Bounds DEF Idle, Thread, NoRequest, Request, Kind, Who

-----------------------------------------------------------------------------
(* Sessions: every session a thread works on was minted, and one that is    *)
(* about to lose its entry is no longer accepted.                           *)

Placed(t) ==
  /\ Req(t).sid \in minted \union {NoSession}
  /\ thread[t].pc \in {"stamp", "age", "judge", "discard", "pop"} =>
       Req(t).sid \in minted
  /\ At(t, "pop") => Req(t).sid \notin sessions
  /\ At(t, "limit") => thread[t].now <= clock /\ clock - thread[t].now <= Stall

Orderly == TypeOK /\ (\A t \in Threads : Placed(t)) /\ AcceptedHaveAge

\* The thread t goes on as q; what it and the others rely on still holds.
LEMMA ThreadMoves ==
  ASSUME Orderly, NEW t \in Threads, NEW q \in Thread,
         thread' = [thread EXCEPT ![t] = q], clock' = clock,
         minted \subseteq minted', sessions' \intersect minted \subseteq sessions,
         q.req.sid \in minted' \union {NoSession},
         q.pc \in {"stamp", "age", "judge", "discard", "pop"} => q.req.sid \in minted',
         q.pc = "pop" => q.req.sid \notin sessions',
         q.pc = "limit" => q.now = clock
  PROVE  /\ thread' \in [Threads -> Thread]
         /\ \A u \in Threads : Placed(u)'
<1>1. thread \in [Threads -> Thread] /\ clock \in Nat /\ Stall \in Nat
  BY Bounds DEF Orderly, TypeOK
<1>2. thread' \in [Threads -> Thread] /\ thread'[t] = q
  BY <1>1
<1>3. Placed(t)'
  BY <1>1, <1>2 DEF Placed, Req, At
<1>4. ASSUME NEW u \in Threads, u # t PROVE Placed(u)'
  <2>1. thread'[u] = thread[u] /\ Placed(u)
    BY <1>1, <1>4 DEF Orderly
  <2>2. Req(u)' = Req(u)
    BY <2>1 DEF Req
  <2> QED BY <2>1, <2>2 DEF Placed, At
<1> QED BY <1>2, <1>3, <1>4

\* A session is accepted and has its age, unless a thread that is making it moves.
LEMMA AgesKept ==
  ASSUME Orderly, NEW t \in Threads, NEW q, thread' = [thread EXCEPT ![t] = q],
         ~At(t, "stamp"), sessions' \subseteq sessions,
         \A s \in sessions' : seen[s] # Never => seen'[s] # Never
  PROVE  AcceptedHaveAge'
<1> SUFFICES ASSUME NEW s \in sessions', ~(seen'[s] # Never)
             PROVE  Making(s)'
  BY DEF AcceptedHaveAge
<1>1. Making(s)
  BY DEF Orderly, AcceptedHaveAge
<1>2. PICK u \in Threads : At(u, "stamp") /\ Req(u).sid = s
  BY <1>1 DEF Making
<1>3. u # t
  BY <1>2
<1>4. thread'[u] = thread[u]
  BY <1>3 DEF Orderly, TypeOK
<1> QED BY <1>2, <1>4 DEF Making, At, Req

\* The thread t answers or only goes on, and no session, entry or clock moves.
LEMMA ThreadOnly ==
  ASSUME Orderly, NEW t \in Threads, NEW q \in Thread,
         thread' = [thread EXCEPT ![t] = q], ~At(t, "stamp"),
         UNCHANGED <<clock, options, sessions, seen, minted, used>>,
         q.req.sid \in minted \union {NoSession},
         q.pc \in {"stamp", "age", "judge", "discard", "pop"} => q.req.sid \in minted,
         q.pc = "pop" => q.req.sid \notin sessions,
         q.pc = "limit" => q.now = clock,
         requests' \in 0..MaxRequests,
         allowed' \in [Who -> Nat], written' \in [Who -> Nat],
         admitted' \in Seq(Entry),
         events' \subseteq DOMAIN admitted'
  PROVE  Orderly'
<1>1. thread' \in [Threads -> Thread] /\ \A u \in Threads : Placed(u)'
  BY ThreadMoves
<1>2. AcceptedHaveAge'
  BY AgesKept
<1>3. TypeOK'
  BY <1>1 DEF Orderly, TypeOK
<1> QED BY <1>1, <1>2, <1>3 DEF Orderly

\* ... as it does when its request is answered.
LEMMA Answers ==
  ASSUME Orderly, NEW t \in Threads, Answer(t), ~At(t, "stamp"),
         UNCHANGED <<clock, options, sessions, seen, minted, used, requests>>,
         allowed' \in [Who -> Nat], written' \in [Who -> Nat],
         admitted' \in Seq(Entry),
         events' \subseteq DOMAIN admitted'
  PROVE  Orderly'
<1>1. thread' = [thread EXCEPT ![t] = Idle] /\ requests' \in 0..MaxRequests
  BY DEF Answer, Orderly, TypeOK
<1> QED BY <1>1, IdleType, ThreadOnly

LEMMA ThreadType ==
  ASSUME Orderly, NEW t \in Threads
  PROVE  /\ thread[t] \in Thread /\ thread[t].req = Req(t) /\ Req(t) \in Request
         /\ Req(t).sid \in minted \union {NoSession}
         /\ minted \subseteq SessionIds /\ sessions \subseteq minted
         /\ NoSession \notin sessions
BY ServerAssumption DEF Orderly, TypeOK, Thread, Req, Placed

LEMMA ArriveOrderly ==
  ASSUME Orderly, NEW t \in Threads, Arrive(t)
  PROVE  Orderly'
<1>1. PICK k \in Requests, s \in Known \union {NoSession} :
        thread' = [thread EXCEPT ![t] = [Idle EXCEPT !.pc = "limit", !.now = clock,
                      !.req = [kind |-> k[1], sid |-> s, who |-> k[2]]]]
  BY DEF Arrive
<1> DEFINE req == [kind |-> k[1], sid |-> s, who |-> k[2]]
           q   == [Idle EXCEPT !.pc = "limit", !.now = clock, !.req = req]
<1>2. s \in minted \union {NoSession} /\ minted \subseteq SessionIds /\ clock \in Time
  BY DEF Known, Orderly, TypeOK
<1>3. req \in Request
  BY <1>2, ServerAssumption DEF Request, Kind, Who
<1>4. q \in Thread /\ q.pc = "limit" /\ q.now = clock /\ q.req = req
  <2> HIDE DEF req
  <2> QED BY <1>2, <1>3, IdleType DEF Thread
<1>5. requests' \in 0..MaxRequests
  BY Bounds DEF Arrive, Orderly, TypeOK
<1>6. ~At(t, "stamp")
  BY DEF Arrive, At
<1>7. q.req.sid = s
  BY <1>4
<1>8. UNCHANGED <<clock, options, sessions, seen, minted, used>>
      /\ UNCHANGED <<events, record, admitted>>
  BY DEF Arrive, server
<1>9. allowed' \in [Who -> Nat] /\ written' \in [Who -> Nat]
      /\ admitted' \in Seq(Entry) /\ events' \subseteq DOMAIN admitted'
  BY <1>8 DEF record, Orderly, TypeOK
<1> HIDE DEF q
<1>10. thread' = [thread EXCEPT ![t] = q]
  BY <1>1 DEF q
<1> QED BY <1>2, <1>4, <1>5, <1>6, <1>7, <1>8, <1>9, <1>10, ThreadOnly

\* One more request is let in; the list keeps the recent ones and this.
LEMMA AdmittedType ==
  ASSUME TypeOK, NEW now \in Time, admitted' = Append(admitted, [now |-> now, at |-> clock]),
         events' = Recent(now) \union {Len(admitted')}
  PROVE  /\ admitted' \in Seq(Entry)
         /\ events' \subseteq DOMAIN admitted'
         /\ Len(admitted') = Len(admitted) + 1
         /\ DOMAIN admitted' = DOMAIN admitted \union {Len(admitted')}
         /\ Len(admitted') \notin DOMAIN admitted
         /\ \A e \in DOMAIN admitted : admitted'[e] = admitted[e]
         /\ admitted'[Len(admitted')] = [now |-> now, at |-> clock]
<1>1. admitted \in Seq(Entry) /\ events \subseteq DOMAIN admitted
      /\ clock \in Time
  BY DEF TypeOK
<1>2. admitted' \in Seq(Entry) /\ Len(admitted') = Len(admitted) + 1
      /\ Len(admitted) \in Nat
  <2>1. [now |-> now, at |-> clock] \in Entry
    BY <1>1 DEF Entry
  <2> QED BY <1>1, <2>1
<1>3. DOMAIN admitted = 1..Len(admitted) /\ DOMAIN admitted' = 1..(Len(admitted) + 1)
  BY <1>1, <1>2
<1>4. DOMAIN admitted' = DOMAIN admitted \union {Len(admitted')}
      /\ Len(admitted') \notin DOMAIN admitted
  BY <1>2, <1>3
<1>5. Recent(now) \subseteq DOMAIN admitted
  BY <1>1 DEF Recent
<1>6. \A e \in DOMAIN admitted : admitted'[e] = admitted[e]
  BY <1>1, <1>3
<1>7. admitted'[Len(admitted')] = [now |-> now, at |-> clock]
  BY <1>1, <1>2
<1> QED BY <1>2, <1>4, <1>5, <1>6, <1>7

LEMMA AdmitOrderly ==
  ASSUME Orderly, NEW t \in Threads, Admit(t)
  PROVE  Orderly'
<1> DEFINE now == thread[t].now
<1>1. At(t, "limit") /\ ~At(t, "stamp") /\ now \in Time
  BY ThreadType DEF Admit, At, Thread
<1>2. UNCHANGED <<clock, options, sessions, seen, minted, requests, record, used>>
      /\ allowed' \in [Who -> Nat] /\ written' \in [Who -> Nat]
      /\ requests' \in 0..MaxRequests
  BY DEF Admit, record, Orderly, TypeOK
<1>3. CASE Cardinality(Recent(now)) >= Limit
  <2>1. events' = Recent(now) /\ Answer(t) /\ admitted' = admitted
    BY <1>3 DEF Admit
  <2>2. events' \subseteq DOMAIN admitted' /\ admitted' \in Seq(Entry)
    BY <2>1 DEF Recent, Orderly, TypeOK
  <2> QED BY <1>1, <1>2, <2>1, <2>2, Answers
<1>4. CASE ~(Cardinality(Recent(now)) >= Limit)
  <2> DEFINE q == [thread[t] EXCEPT !.pc = "auth"]
  <2>1. /\ admitted' = Append(admitted, [now |-> now, at |-> clock])
        /\ events' = Recent(now) \union {Len(admitted')}
        /\ thread' = [thread EXCEPT ![t].pc = "auth"]
    BY <1>4 DEF Admit, Goto
  <2>2. thread' = [thread EXCEPT ![t] = q] /\ q \in Thread /\ q.pc = "auth"
        /\ q.req = Req(t)
    BY <2>1, ThreadType DEF Orderly, TypeOK, Thread
  <2>3. admitted' \in Seq(Entry) /\ events' \subseteq DOMAIN admitted'
    BY <1>1, <2>1, AdmittedType DEF Orderly
  <2> HIDE DEF q, now
  <2> QED BY <1>1, <1>2, <2>2, <2>3, ThreadType, ThreadOnly
<1> QED BY <1>3, <1>4

LEMMA AuthorizeOrderly ==
  ASSUME Orderly, NEW t \in Threads, Authorize(t)
  PROVE  Orderly'
<1> DEFINE p == IF Valid(Req(t).who) THEN Req(t).who ELSE Anonymous
<1>1. At(t, "auth") /\ ~At(t, "stamp")
      /\ UNCHANGED <<clock, server, requests, record, admitted, used>>
  BY DEF Authorize, At
<1>2. allowed' \in [Who -> Nat] /\ written' \in [Who -> Nat]
      /\ admitted' \in Seq(Entry) /\ events' \subseteq DOMAIN admitted'
      /\ requests' \in 0..MaxRequests
  BY <1>1 DEF server, record, Orderly, TypeOK
<1>3. CASE Answer(t)
  BY <1>1, <1>2, <1>3, Answers DEF server
<1>4. CASE thread' = [thread EXCEPT ![t].principal = p,
             ![t].pc = IF Req(t).kind = "initialize" THEN "add" ELSE "find"]
  <2> DEFINE next == IF Req(t).kind = "initialize" THEN "add" ELSE "find"
             q == [thread[t] EXCEPT !.principal = p, !.pc = next]
  <2>1. p \in Who
    BY ThreadType DEF Request, Who
  <2>2. next \in {"add", "find"}
    OBVIOUS
  <2> HIDE DEF p
  <2>3. thread' = [thread EXCEPT ![t] = q]
    BY <1>4 DEF Orderly, TypeOK, p
  <2> HIDE DEF next
  <2>4. q \in Thread /\ q.pc = next /\ q.req = Req(t)
    BY <2>1, <2>2, ThreadType DEF Thread
  <2> HIDE DEF q
  <2> QED BY <1>1, <1>2, <2>2, <2>3, <2>4, ThreadType, ThreadOnly DEF server
<1> QED BY <1>3, <1>4 DEF Authorize

LEMMA AddSessionOrderly ==
  ASSUME Orderly, NEW t \in Threads, AddSession(t)
  PROVE  Orderly'
<1>1. PICK s \in SessionIds \ minted :
        /\ minted' = minted \union {s} /\ sessions' = sessions \union {s}
        /\ thread' = [thread EXCEPT ![t].pc = "stamp", ![t].req.sid = s]
  BY DEF AddSession
<1> DEFINE q == [thread[t] EXCEPT !.pc = "stamp", !.req = [Req(t) EXCEPT !.sid = s]]
<1>2. thread' = [thread EXCEPT ![t] = q]
  BY <1>1, ThreadType DEF Orderly, TypeOK, Thread, Request
<1>3. q \in Thread /\ q.pc = "stamp" /\ q.req.sid = s
  BY ThreadType DEF Thread, Request
<1> HIDE DEF q
<1>4. At(t, "add") /\ ~At(t, "stamp")
      /\ UNCHANGED <<clock, options, seen, events, requests, record, admitted, used>>
  BY DEF AddSession, At
<1>5. sessions' \intersect minted \subseteq sessions
  BY <1>1
<1>6. thread' \in [Threads -> Thread] /\ \A u \in Threads : Placed(u)'
  BY <1>1, <1>2, <1>3, <1>4, <1>5, ThreadMoves
<1>7. TypeOK'
  BY <1>1, <1>4, <1>6 DEF Orderly, TypeOK, record
<1>8. AcceptedHaveAge'
  <2> SUFFICES ASSUME NEW x \in sessions', ~(seen'[x] # Never) PROVE Making(x)'
    BY DEF AcceptedHaveAge
  <2>1. thread'[t] = q
    BY <1>2 DEF Orderly, TypeOK
  <2>2. CASE x = s
    BY <1>3, <2>1, <2>2 DEF Making, At, Req
  <2>3. CASE x # s
    <3>1. Making(x)
      BY <1>1, <1>4, <2>3 DEF Orderly, AcceptedHaveAge
    <3>2. PICK u \in Threads : At(u, "stamp") /\ Req(u).sid = x
      BY <3>1 DEF Making
    <3>3. u # t
      BY <1>4, <3>2
    <3>4. thread'[u] = thread[u]
      BY <1>2, <3>3 DEF Orderly, TypeOK
    <3> QED BY <3>2, <3>4 DEF Making, At, Req
  <2> QED BY <2>2, <2>3
<1> QED BY <1>6, <1>7, <1>8 DEF Orderly

LEMMA StampOrderly ==
  ASSUME Orderly, NEW t \in Threads, Stamp(t)
  PROVE  Orderly'
<1> DEFINE s == Req(t).sid
<1>1. At(t, "stamp") /\ thread' = [thread EXCEPT ![t] = Idle]
      /\ seen' = [seen EXCEPT ![s] = clock] /\ used' = [used EXCEPT ![s] = clock]
      /\ UNCHANGED <<clock, options, sessions, events, minted, requests, record, admitted>>
  BY DEF Stamp, Answer
<1>2. s \in SessionIds /\ clock \in Time
  BY <1>1, ThreadType DEF Orderly, TypeOK, Placed, At
<1>3. thread' \in [Threads -> Thread] /\ \A u \in Threads : Placed(u)'
  BY <1>1, IdleType, ThreadMoves
<1>4. TypeOK'
  BY <1>1, <1>2, <1>3 DEF Orderly, TypeOK, record
<1>5. AcceptedHaveAge'
  <2> SUFFICES ASSUME NEW x \in sessions, seen'[x] = Never PROVE Making(x)'
    BY <1>1 DEF AcceptedHaveAge
  <2>1. x # s
    BY <1>1, <1>2, Bounds DEF Orderly, TypeOK
  <2>2. seen[x] = Never
    BY <1>1, <1>2, <2>1, ThreadType DEF Orderly, TypeOK
  <2>3. PICK u \in Threads : At(u, "stamp") /\ Req(u).sid = x
    BY <2>2 DEF Orderly, AcceptedHaveAge, Making
  <2>4. thread'[u] = thread[u]
    BY <1>1, <2>1, <2>3 DEF Orderly, TypeOK
  <2> QED BY <2>3, <2>4 DEF Making, At, Req
<1> QED BY <1>3, <1>4, <1>5 DEF Orderly

\* Reading and judging an age moves entries, but drops none.
LEMMA EntryOrderly ==
  ASSUME Orderly, NEW t \in Threads, NEW q \in Thread, NEW s \in SessionIds,
         NEW age \in Time, thread' = [thread EXCEPT ![t] = q], ~At(t, "stamp"),
         q.req.sid \in minted, q.pc \notin {"limit", "pop"},
         seen' = [seen EXCEPT ![s] = age], used' \in [SessionIds -> Time],
         UNCHANGED <<clock, options, sessions, events, minted, requests, record, admitted>>
  PROVE  Orderly'
<1>1. thread' \in [Threads -> Thread] /\ \A u \in Threads : Placed(u)'
  BY ThreadMoves
<1>2. TypeOK'
  BY <1>1 DEF Orderly, TypeOK, record
<1>3. \A x \in sessions : seen[x] # Never => seen'[x] # Never
  BY Bounds DEF Orderly, TypeOK
<1>4. AcceptedHaveAge'
  BY <1>3, AgesKept
<1> QED BY <1>1, <1>2, <1>4 DEF Orderly

LEMMA PlacedSession ==
  ASSUME Orderly, NEW t \in Threads,
         thread[t].pc \in {"stamp", "age", "judge", "discard", "pop"}
  PROVE  Req(t).sid \in minted /\ Req(t).sid \in SessionIds
BY DEF Orderly, TypeOK, Placed

\* A thread that goes on to another label keeps its request.
LEMMA GotoType ==
  ASSUME Orderly, NEW t \in Threads, NEW pc \in {"auth", "age", "judge", "discard",
         "pop", "call", "recheck"}, Goto(t, pc)
  PROVE  \E q \in Thread : /\ thread' = [thread EXCEPT ![t] = q]
                           /\ q.pc = pc /\ q.req = Req(t)
                           /\ q.principal = thread[t].principal
<1> DEFINE q == [thread[t] EXCEPT !.pc = pc]
<1>1. thread' = [thread EXCEPT ![t] = q]
  BY DEF Goto, Orderly, TypeOK
<1>2. q \in Thread /\ q.pc = pc /\ q.req = Req(t) /\ q.principal = thread[t].principal
  BY ThreadType DEF Thread
<1> QED BY <1>1, <1>2

LEMMA FindOrderly ==
  ASSUME Orderly, NEW t \in Threads, Find(t)
  PROVE  Orderly'
<1>1. ~At(t, "stamp") /\ UNCHANGED <<clock, server, requests, record, admitted, used>>
  BY DEF Find, At
<1>2. allowed' \in [Who -> Nat] /\ written' \in [Who -> Nat]
      /\ admitted' \in Seq(Entry) /\ events' \subseteq DOMAIN admitted'
      /\ requests' \in 0..MaxRequests
  BY <1>1 DEF server, record, Orderly, TypeOK
<1>3. CASE Answer(t)
  BY <1>1, <1>2, <1>3, Answers DEF server
<1>4. ASSUME NEW pc \in {"discard", "age"}, Goto(t, pc), Req(t).sid \in sessions
      PROVE  Orderly'
  <2>1. PICK q \in Thread : /\ thread' = [thread EXCEPT ![t] = q]
                            /\ q.pc = pc /\ q.req = Req(t)
    BY <1>4, GotoType
  <2> QED BY <1>1, <1>2, <1>4, <2>1, ThreadType, ThreadOnly DEF server
<1> QED BY <1>3, <1>4 DEF Find

LEMMA ReadSeenOrderly ==
  ASSUME Orderly, NEW t \in Threads, ReadSeen(t)
  PROVE  Orderly'
<1> DEFINE s   == Req(t).sid
           age == IF seen[s] = Never THEN clock ELSE seen[s]
           q   == [thread[t] EXCEPT !.pc = "judge", !.seen = age]
<1>1. At(t, "age") /\ s \in minted /\ s \in SessionIds
  BY PlacedSession DEF ReadSeen, At
<1>2. age \in Time
  BY <1>1 DEF Orderly, TypeOK
<1>3. seen' = [seen EXCEPT ![s] = age]
      /\ thread' = [thread EXCEPT ![t].pc = "judge", ![t].seen = age]
  BY DEF ReadSeen
<1> HIDE DEF age
<1>4. thread' = [thread EXCEPT ![t] = q]
  BY <1>3 DEF Orderly, TypeOK
<1>5. q \in Thread /\ q.pc = "judge" /\ q.req = Req(t)
  BY <1>2, ThreadType DEF Thread
<1>6. ~At(t, "stamp") /\ used' \in [SessionIds -> Time]
      /\ UNCHANGED <<clock, options, sessions, events, minted, requests, record, admitted>>
  BY <1>1 DEF ReadSeen, Orderly, TypeOK, At
<1> HIDE DEF q
<1> QED BY <1>1, <1>2, <1>3, <1>4, <1>5, <1>6, EntryOrderly

LEMMA JudgeOrderly ==
  ASSUME Orderly, NEW t \in Threads, Judge(t)
  PROVE  Orderly'
<1> DEFINE s == Req(t).sid
<1>1. At(t, "judge") /\ ~At(t, "stamp") /\ s \in minted /\ s \in SessionIds
      /\ clock \in Time
  BY PlacedSession DEF Judge, At, Orderly, TypeOK
<1>2. UNCHANGED <<clock, options, sessions, events, minted, requests, record, admitted>>
  BY DEF Judge
<1>3. CASE Goto(t, "discard") /\ UNCHANGED <<seen, used>>
  <2>1. PICK q \in Thread : /\ thread' = [thread EXCEPT ![t] = q]
                            /\ q.pc = "discard" /\ q.req = Req(t)
    BY <1>3, GotoType
  <2> QED BY <1>1, <1>2, <1>3, <2>1, ThreadOnly DEF record, Orderly, TypeOK
<1>4. CASE Goto(t, "call") /\ seen' = [seen EXCEPT ![s] = clock]
           /\ used' = [used EXCEPT ![s] = clock]
  <2>1. PICK q \in Thread : /\ thread' = [thread EXCEPT ![t] = q]
                            /\ q.pc = "call" /\ q.req = Req(t)
    BY <1>4, GotoType
  <2>2. used' \in [SessionIds -> Time]
    BY <1>1, <1>4 DEF Orderly, TypeOK
  <2> QED BY <1>1, <1>2, <1>4, <2>1, <2>2, EntryOrderly
<1> QED BY <1>3, <1>4 DEF Judge

LEMMA DiscardOrderly ==
  ASSUME Orderly, NEW t \in Threads, Discard(t)
  PROVE  Orderly'
<1>1. At(t, "discard") /\ ~At(t, "stamp") /\ Req(t).sid \in minted
  BY PlacedSession DEF Discard, At
<1>2. sessions' = sessions \ {Req(t).sid}
      /\ UNCHANGED <<clock, options, seen, events, minted, requests, record, admitted, used>>
  BY DEF Discard
<1>3. PICK q \in Thread : /\ thread' = [thread EXCEPT ![t] = q]
                          /\ q.pc = "pop" /\ q.req = Req(t)
  BY GotoType DEF Discard
<1>4. thread' \in [Threads -> Thread] /\ \A u \in Threads : Placed(u)'
  BY <1>1, <1>2, <1>3, ThreadMoves
<1>5. TypeOK'
  BY <1>2, <1>4 DEF Orderly, TypeOK, record
<1>6. AcceptedHaveAge'
  BY <1>1, <1>2, <1>3, AgesKept
<1> QED BY <1>4, <1>5, <1>6 DEF Orderly

LEMMA PopOrderly ==
  ASSUME Orderly, NEW t \in Threads, Pop(t)
  PROVE  Orderly'
<1> DEFINE s == Req(t).sid
<1>1. At(t, "pop") /\ ~At(t, "stamp") /\ s \in SessionIds /\ s \notin sessions
  BY PlacedSession DEF Pop, At, Orderly, Placed
<1>2. seen' = [seen EXCEPT ![s] = Never] /\ thread' = [thread EXCEPT ![t] = Idle]
      /\ UNCHANGED <<clock, options, sessions, events, minted, requests, record,
                     admitted, used>>
  BY DEF Pop, Answer
<1>3. thread' \in [Threads -> Thread] /\ \A u \in Threads : Placed(u)'
  BY <1>2, IdleType, ThreadMoves
<1>4. TypeOK'
  BY <1>1, <1>2, <1>3 DEF Orderly, TypeOK, record
<1>5. \A x \in sessions : seen'[x] = seen[x]
  BY <1>1, <1>2, ThreadType DEF Orderly, TypeOK
<1>6. AcceptedHaveAge'
  BY <1>1, <1>2, <1>5, AgesKept
<1> QED BY <1>3, <1>4, <1>6 DEF Orderly

\* tools/call touches no session.
LEMMA CallOrderly ==
  ASSUME Orderly, NEW t \in Threads, Read(t) \/ AuditWrite(t) \/ Write(t)
  PROVE  Orderly'
<1>1. ~At(t, "stamp")
      /\ UNCHANGED <<clock, options, sessions, seen, minted, used, requests>>
      /\ admitted' \in Seq(Entry) /\ events' \subseteq DOMAIN admitted'
      /\ requests' \in 0..MaxRequests
  BY DEF Read, AuditWrite, Write, At, server, Orderly, TypeOK
<1>2. thread[t].principal \in Who
  BY ThreadType DEF Thread
<1>3. allowed' \in [Who -> Nat] /\ written' \in [Who -> Nat]
  <2>1. allowed \in [Who -> Nat] /\ written \in [Who -> Nat]
    BY DEF Orderly, TypeOK
  <2>2. Read(t) => UNCHANGED record
    BY DEF Read
  <2>3. AuditWrite(t) => allowed' \in [Who -> Nat] /\ written' = written
    BY <1>2, <2>1 DEF AuditWrite
  <2>4. Write(t) => written' \in [Who -> Nat] /\ allowed' = allowed
    BY <1>2, <2>1 DEF Write
  <2> QED BY <2>1, <2>2, <2>3, <2>4 DEF record
<1>4. CASE Answer(t)
  BY <1>1, <1>3, <1>4, Answers
<1>5. CASE Goto(t, "recheck")
  <2>1. PICK q \in Thread : /\ thread' = [thread EXCEPT ![t] = q]
                            /\ q.pc = "recheck" /\ q.req = Req(t)
    BY <1>5, GotoType
  <2> QED BY <1>1, <1>3, <2>1, ThreadType, ThreadOnly
<1> QED BY <1>4, <1>5 DEF Read, AuditWrite, Write

LEMMA TickOrderly ==
  ASSUME Orderly, Tick
  PROVE  Orderly'
<1>1. clock' = clock + 1 /\ clock < MaxClock /\ clock \in Nat
      /\ UNCHANGED <<server, thread, requests, record, admitted, used>>
  BY Bounds DEF Tick, Orderly, TypeOK
<1>2. clock' \in Time
  BY <1>1, Bounds DEF Time
<1>3. TypeOK'
  BY <1>1, <1>2 DEF Orderly, TypeOK, server, record
<1>4. ASSUME NEW t \in Threads PROVE Placed(t)'
  <2>1. Placed(t) /\ thread[t].now \in Nat
    BY ThreadType, Bounds DEF Orderly, Thread
  <2>2. At(t, "limit") => clock - thread[t].now < Stall
    BY DEF Tick
  <2>3. Req(t)' = Req(t)
    BY <1>1 DEF Req
  <2> QED BY <1>1, <2>1, <2>2, <2>3, Bounds DEF Placed, At, server
<1>5. AcceptedHaveAge'
  BY <1>1 DEF Orderly, AcceptedHaveAge, Making, At, Req, server
<1> QED BY <1>3, <1>4, <1>5 DEF Orderly

LEMMA RestartOrderly ==
  ASSUME Orderly, Restart
  PROVE  Orderly'
<1>1. \A t \in Threads : thread'[t] = Idle
  BY DEF Restart
<1>2. thread' \in [Threads -> Thread]
  BY <1>1, IdleType DEF Restart
<1>3. TypeOK'
  BY <1>2 DEF Restart, Orderly, TypeOK, record
<1>4. \A t \in Threads : Placed(t)'
  BY <1>1, IdleType DEF Placed, At, Req
<1>5. AcceptedHaveAge'
  BY DEF Restart, AcceptedHaveAge
<1> QED BY <1>3, <1>4, <1>5 DEF Orderly

LEMMA OrderlyStep ==
  ASSUME Orderly, [Next]_vars
  PROVE  Orderly'
<1>1. ASSUME NEW t \in Threads, Handle(t) PROVE Orderly'
  BY <1>1, ArriveOrderly, AdmitOrderly, AuthorizeOrderly, AddSessionOrderly,
     StampOrderly, FindOrderly, ReadSeenOrderly, JudgeOrderly, DiscardOrderly,
     PopOrderly, CallOrderly DEF Handle
<1>2. ASSUME UNCHANGED vars PROVE Orderly'
  <2>1. TypeOK' /\ \A t \in Threads : Placed(t)'
    BY <1>2 DEF vars, server, record, Orderly, TypeOK, Placed, At, Req
  <2>2. AcceptedHaveAge'
    BY <1>2 DEF vars, server, Orderly, AcceptedHaveAge, Making, At, Req
  <2> QED BY <2>1, <2>2 DEF Orderly
<1> QED BY <1>1, <1>2, TickOrderly, RestartOrderly DEF Next

LEMMA InitOrderly == Init => Orderly
<1> SUFFICES ASSUME Init PROVE Orderly
  OBVIOUS
<1>1. \A t \in Threads : thread[t] = Idle
  BY DEF Init
<1>2. TypeOK
  BY IdleType, Bounds, ServerAssumption DEF Init, TypeOK
<1>3. \A t \in Threads : Placed(t)
  BY <1>1, IdleType DEF Placed, At, Req
<1> QED BY <1>2, <1>3 DEF Orderly, AcceptedHaveAge, Init

LEMMA AlwaysOrderly == Spec => []Orderly
BY InitOrderly, OrderlyStep, PTL DEF Spec

\* Every variable keeps its type.
THEOREM TypeCorrect == Spec => []TypeOK
<1>1. Orderly => TypeOK
  BY DEF Orderly
<1> QED BY <1>1, AlwaysOrderly, PTL

\* A session the server accepts has an entry that says how old it is.
THEOREM SessionsHaveAge == Spec => []AcceptedHaveAge
<1>1. Orderly => AcceptedHaveAge
  BY DEF Orderly
<1> QED BY <1>1, AlwaysOrderly, PTL

-----------------------------------------------------------------------------
(* The audit log.  A thread that is past the sink either has its row, or may *)
(* not write and will not be able to: tokens expire and scopes stay.         *)

Pending(p) == {t \in Threads : At(t, "recheck") /\ thread[t].principal = p}

Audited ==
  /\ written[Anonymous] = 0
  /\ \A p \in Who :
       /\ written[p] <= allowed[p]
       /\ MayWrite(p) => written[p] + Cardinality(Pending(p)) <= allowed[p]

LEMMA PendingCount ==
  ASSUME NEW p
  PROVE  IsFiniteSet(Pending(p)) /\ Cardinality(Pending(p)) \in Nat
BY ServerAssumption, FS_Subset, FS_CardinalityType DEF Pending

\* The counts are as they were, and nobody new is past the sink.
LEMMA AuditedKept ==
  ASSUME TypeOK, Audited, UNCHANGED record,
         \A p \in Who : MayWrite(p)' => MayWrite(p),
         \A p \in Who : Pending(p)' \subseteq Pending(p)
  PROVE  Audited'
<1> SUFFICES ASSUME NEW p \in Who, MayWrite(p)'
             PROVE  written[p] + Cardinality(Pending(p)') <= allowed[p]
  BY DEF Audited, record
<1>1. Cardinality(Pending(p)') <= Cardinality(Pending(p))
      /\ Cardinality(Pending(p)') \in Nat
  BY PendingCount, FS_Subset, FS_CardinalityType
<1>2. written[p] + Cardinality(Pending(p)) <= allowed[p]
  BY DEF Audited
<1>3. written[p] \in Nat /\ allowed[p] \in Nat /\ Cardinality(Pending(p)) \in Nat
  BY PendingCount DEF TypeOK
<1> QED BY <1>1, <1>2, <1>3

LEMMA SameMayWrite ==
  ASSUME UNCHANGED <<clock, options>>, NEW p \in Who
  PROVE  MayWrite(p)' <=> MayWrite(p)
BY DEF MayWrite, Permits, Valid

\* Only AuditWrite takes a thread past the sink.
LEMMA OtherStepsAudited ==
  ASSUME TypeOK, Audited, NEW t \in Threads,
         Arrive(t) \/ Admit(t) \/ Authorize(t) \/ AddSession(t) \/ Stamp(t) \/ Find(t)
         \/ ReadSeen(t) \/ Judge(t) \/ Discard(t) \/ Pop(t) \/ Read(t)
  PROVE  Audited'
<1>1. UNCHANGED <<clock, options, record>>
  BY DEF Arrive, Admit, Authorize, AddSession, Stamp, Find, ReadSeen, Judge, Discard,
         Pop, Read, server
<1>2. \A u \in Threads : u # t => thread'[u] = thread[u]
  BY DEF Arrive, Admit, Authorize, AddSession, Stamp, Find, ReadSeen, Judge, Discard,
         Pop, Read, Answer, Goto, TypeOK
<1>3. thread'[t].pc # "recheck"
  <2>1. thread \in [Threads -> Thread]
    BY DEF TypeOK
  <2>2. Answer(t) => thread'[t].pc # "recheck"
    BY <2>1 DEF Answer, Idle
  <2>3. \A pc \in {"auth", "age", "judge", "discard", "pop", "call"} :
          Goto(t, pc) => thread'[t].pc = pc
    BY <2>1 DEF Goto, Thread
  <2>4. Arrive(t) => thread'[t].pc # "recheck"
    BY <2>1 DEF Arrive, Idle
  <2>5. Authorize(t) => thread'[t].pc # "recheck"
    BY <2>1, <2>2 DEF Authorize, Thread
  <2>6. AddSession(t) \/ ReadSeen(t) => thread'[t].pc # "recheck"
    BY <2>1 DEF AddSession, ReadSeen, Thread
  <2> QED BY <2>2, <2>3, <2>4, <2>5, <2>6
          DEF Admit, Stamp, Find, Judge, Discard, Pop, Read
<1>4. \A p \in Who : Pending(p)' \subseteq Pending(p)
  BY <1>2, <1>3 DEF Pending, At
<1> QED BY <1>1, <1>4, SameMayWrite, AuditedKept

LEMMA AuditWriteAudited ==
  ASSUME TypeOK, Audited, NEW t \in Threads, AuditWrite(t)
  PROVE  Audited'
<1>0. PICK who \in Who : who = thread[t].principal
  BY DEF TypeOK, Thread
<1>1. ~At(t, "recheck") /\ written' = written /\ UNCHANGED <<clock, options>>
  BY DEF AuditWrite, At, server
<1>2. CASE Answer(t) /\ UNCHANGED allowed
  <2>1. \A p \in Who : Pending(p)' \subseteq Pending(p)
    BY <1>2 DEF Answer, Pending, At, TypeOK, Idle
  <2> QED BY <1>1, <1>2, <2>1, SameMayWrite, AuditedKept DEF record
<1>3. CASE /\ allowed' = IF MayWrite(who) THEN [allowed EXCEPT ![who] = @ + 1] ELSE allowed
           /\ Goto(t, "recheck")
  <2>1. \A u \in Threads : u # t => thread'[u] = thread[u]
    BY <1>3 DEF Goto, TypeOK
  <2>2. thread'[t].pc = "recheck" /\ thread'[t].principal = who
    BY <1>0, <1>3 DEF Goto, TypeOK, Thread
  <2>3. \A p \in Who : p # who => Pending(p)' = Pending(p)
    BY <1>1, <2>1, <2>2 DEF Pending, At
  <2>4. Pending(who)' = Pending(who) \union {t} /\ t \notin Pending(who)
    BY <1>1, <2>1, <2>2 DEF Pending, At
  <2>5. Cardinality(Pending(who)') = Cardinality(Pending(who)) + 1
    BY <2>4, PendingCount, FS_AddElement
  <2>6. ASSUME NEW p \in Who
        PROVE  /\ written'[p] <= allowed'[p]
               /\ MayWrite(p) => written'[p] + Cardinality(Pending(p)') <= allowed'[p]
    <3>1. /\ written[p] \in Nat /\ allowed[p] \in Nat /\ Cardinality(Pending(p)) \in Nat
          /\ written[p] <= allowed[p]
          /\ MayWrite(p) => written[p] + Cardinality(Pending(p)) <= allowed[p]
      BY PendingCount DEF TypeOK, Audited
    <3>2. CASE p = who /\ MayWrite(who)
      <4>1. allowed'[p] = allowed[p] + 1
        BY <1>1, <1>3, <3>2 DEF TypeOK
      <4> QED BY <1>1, <2>5, <3>1, <3>2, <4>1
    <3>3. CASE p = who /\ ~MayWrite(who)
      BY <1>1, <1>3, <3>1, <3>3
    <3>4. CASE p # who
      <4>1. allowed'[p] = allowed[p]
        BY <1>3, <3>4 DEF TypeOK
      <4> QED BY <1>1, <2>3, <3>1, <3>4, <4>1
    <3> QED BY <3>2, <3>3, <3>4
  <2> QED BY <1>1, <2>6, SameMayWrite DEF Audited
<1> QED BY <1>0, <1>2, <1>3 DEF AuditWrite

LEMMA WriteAudited ==
  ASSUME TypeOK, Audited, NEW t \in Threads, Write(t)
  PROVE  Audited'
<1>0. PICK who \in Who : who = thread[t].principal
  BY DEF TypeOK, Thread
<1>1. t \in Pending(who) /\ allowed' = allowed /\ UNCHANGED <<clock, options>>
  BY <1>0 DEF Write, At, Pending, server
<1>2. thread' = [thread EXCEPT ![t] = Idle] /\ thread \in [Threads -> Thread]
  BY DEF Write, Answer, TypeOK
<1>3. \A p \in Who : Pending(p)' \subseteq Pending(p)
  BY <1>2 DEF Pending, At, Idle
<1>4. CASE UNCHANGED written
  BY <1>1, <1>3, <1>4, SameMayWrite, AuditedKept DEF record
<1>5. CASE MayWrite(who) /\ written' = [written EXCEPT ![who] = @ + 1]
  <2>1. Pending(who)' = Pending(who) \ {t}
    BY <1>1, <1>2 DEF Pending, At, Idle
  <2>2. Cardinality(Pending(who)') = Cardinality(Pending(who)) - 1
        /\ Cardinality(Pending(who)') \in Nat
    BY <1>1, <2>1, PendingCount, FS_RemoveElement, FS_CardinalityType
  <2>3. who # Anonymous /\ Anonymous \in Who
    BY <1>5 DEF MayWrite, Who
  <2>4. ASSUME NEW p \in Who
        PROVE  /\ written'[p] <= allowed'[p]
               /\ MayWrite(p) => written'[p] + Cardinality(Pending(p)') <= allowed'[p]
    <3>1. /\ written[p] \in Nat /\ allowed[p] \in Nat /\ Cardinality(Pending(p)) \in Nat
          /\ written[p] <= allowed[p]
          /\ MayWrite(p) => written[p] + Cardinality(Pending(p)) <= allowed[p]
      BY PendingCount DEF TypeOK, Audited
    <3>2. CASE p = who
      <4>1. written'[p] = written[p] + 1
        BY <1>5, <3>2 DEF TypeOK
      <4> QED BY <1>1, <1>5, <2>2, <3>1, <3>2, <4>1
    <3>3. CASE p # who
      <4>1. written'[p] = written[p]
        BY <1>5, <3>3 DEF TypeOK
      <4>2. Cardinality(Pending(p)') <= Cardinality(Pending(p))
            /\ Cardinality(Pending(p)') \in Nat
        BY <1>3, PendingCount, FS_Subset, FS_CardinalityType
      <4> QED BY <1>1, <3>1, <4>1, <4>2
    <3> QED BY <3>2, <3>3
  <2>5. written'[Anonymous] = written[Anonymous]
    BY <1>5, <2>3 DEF TypeOK
  <2> QED BY <1>1, <2>4, <2>5, SameMayWrite DEF Audited
<1> QED BY <1>0, <1>4, <1>5 DEF Write

LEMMA TickAudited ==
  ASSUME TypeOK, Audited, Tick
  PROVE  Audited'
<1>1. clock' = clock + 1 /\ clock \in Nat
      /\ UNCHANGED <<options, thread, record>>
  BY Bounds DEF Tick, TypeOK, server
<1>2. ASSUME NEW p \in Who, MayWrite(p)' PROVE MayWrite(p)
  <2>1. CASE p \in Principals
    <3>1. Expires[p] \in Nat
      BY <2>1, ServerAssumption
    <3> QED BY <1>1, <1>2, <3>1 DEF MayWrite, Permits, Valid
  <2>2. CASE p = Anonymous
    BY <1>2, <2>2 DEF MayWrite
  <2> QED BY <2>1, <2>2 DEF Who
<1>3. \A p \in Who : Pending(p)' \subseteq Pending(p)
  BY <1>1 DEF Pending, At
<1> QED BY <1>1, <1>2, <1>3, AuditedKept

\* A server that is started again has no thread past the sink, whoever may write.
LEMMA RestartAudited ==
  ASSUME TypeOK, Audited, Restart
  PROVE  Audited'
<1>1. \A p \in Who : Pending(p)' = {}
  BY DEF Restart, Pending, At, Idle
<1>2. \A p \in Who : Cardinality(Pending(p)') = 0
  BY <1>1, FS_EmptySet
<1>3. \A p \in Who : written[p] \in Nat /\ allowed[p] \in Nat
  BY DEF TypeOK
<1> QED BY <1>2, <1>3 DEF Restart, Audited, record

LEMMA AuditedStep ==
  ASSUME TypeOK, Audited, [Next]_vars
  PROVE  Audited'
<1>1. ASSUME NEW t \in Threads, Handle(t) PROVE Audited'
  BY <1>1, OtherStepsAudited, AuditWriteAudited, WriteAudited DEF Handle
<1>2. ASSUME UNCHANGED vars PROVE Audited'
  <2>1. \A p \in Who : Pending(p)' \subseteq Pending(p)
    BY <1>2 DEF vars, Pending, At
  <2>2. UNCHANGED <<clock, options>> /\ UNCHANGED record
    BY <1>2 DEF vars, server, record
  <2>3. \A p \in Who : MayWrite(p)' => MayWrite(p)
    BY <2>2, SameMayWrite
  <2> QED BY <2>1, <2>2, <2>3, AuditedKept
<1> QED BY <1>1, <1>2, TickAudited, RestartAudited DEF Next

LEMMA InitAudited == Init => Audited
<1> SUFFICES ASSUME Init PROVE Audited
  OBVIOUS
<1>1. \A p \in Who : Cardinality(Pending(p)) = 0
  <2>1. \A p \in Who : Pending(p) = {}
    BY DEF Init, Pending, At, Idle
  <2> QED BY <2>1, FS_EmptySet
<1> QED BY <1>1 DEF Init, Audited, Who

\* No write is dispatched that the audit log does not allow, with the sink
\* failing, tokens expiring and the server restarting in between.
THEOREM EveryWriteIsAudited == Spec => []WritesAudited
<1>1. TypeOK /\ Audited /\ [Next]_vars => Audited'
  BY AuditedStep
<1>2. Audited => WritesAudited
  BY DEF Audited, WritesAudited, Who
<1> QED BY InitAudited, <1>1, <1>2, TypeCorrect, PTL DEF Spec

-----------------------------------------------------------------------------
(* The limiter.  A thread may reach the lock with a reading that is Stall   *)
(* old, so it may find entries younger than itself, and drop none that are   *)
(* younger than the window less the stall.                                   *)

InWindow(i) == {e \in DOMAIN admitted :
                  admitted[e].at <= i /\ i - admitted[e].at < Window - Stall}

Limited ==
  /\ \A e \in DOMAIN admitted :
       /\ admitted[e].at <= clock
       /\ admitted[e].now <= admitted[e].at
       /\ admitted[e].at - admitted[e].now <= Stall
       /\ clock - admitted[e].at < Window - Stall => e \in events
  /\ \A i \in Time : Cardinality(InWindow(i)) <= Limit

LEMMA AdmittedFacts ==
  ASSUME TypeOK
  PROVE  /\ \A e \in DOMAIN admitted : admitted[e].at \in Nat /\ admitted[e].now \in Nat
         /\ IsFiniteSet(DOMAIN admitted)
         /\ clock \in Nat
<1>1. admitted \in Seq(Entry)
  BY DEF TypeOK
<1>2. DOMAIN admitted = 1..Len(admitted) /\ Len(admitted) \in Nat
  BY <1>1
<1>3. ASSUME NEW e \in DOMAIN admitted
      PROVE  admitted[e].at \in Time /\ admitted[e].now \in Time
  <2>1. admitted \in [1..Len(admitted) -> Entry]
    BY <1>1
  <2>2. admitted[e] \in Entry
    BY <1>2, <2>1
  <2> QED BY <2>2 DEF Entry
<1>4. IsFiniteSet(DOMAIN admitted)
  BY <1>2, FS_Interval
<1> QED BY <1>3, <1>4, Bounds DEF TypeOK

\* What still counts is in the list, and recent by any clock reading of a thread
\* at the lock.
LEMMA RecentEnough ==
  ASSUME Orderly, Limited, NEW t \in Threads, At(t, "limit"),
         NEW e \in DOMAIN admitted, clock - admitted[e].at < Window - Stall
  PROVE  e \in Recent(thread[t].now)
<1>1. /\ thread[t].now \in Nat /\ thread[t].now <= clock /\ clock \in Nat
      /\ admitted[e].at \in Nat /\ admitted[e].now \in Nat
      /\ admitted[e].at - admitted[e].now <= Stall /\ e \in events
      /\ Window \in Nat /\ Stall \in Nat
  BY AdmittedFacts, ThreadType, Bounds DEF Orderly, Placed, Limited, Thread
<1>2. thread[t].now - admitted[e].now < Window
  BY <1>1
<1> QED BY <1>1, <1>2 DEF Recent

LEMMA AdmitLimited ==
  ASSUME Orderly, Limited, NEW t \in Threads, Admit(t)
  PROVE  Limited'
<1>1. PICK now \in Time : /\ now = thread[t].now /\ At(t, "limit")
                          /\ now <= clock /\ clock - now <= Stall
  BY ThreadType DEF Admit, Orderly, Placed, Thread
<1>2. clock' = clock /\ clock \in Nat
  BY AdmittedFacts DEF Admit, Orderly
<1>3. CASE Cardinality(Recent(now)) >= Limit
  <2>1. events' = Recent(now) /\ admitted' = admitted
    BY <1>1, <1>3 DEF Admit
  <2>2. \A e \in DOMAIN admitted :
          clock - admitted[e].at < Window - Stall => e \in events'
    BY <1>1, <2>1, RecentEnough
  <2>3. \A i \in Time : InWindow(i)' = InWindow(i)
    BY <2>1 DEF InWindow
  <2> QED BY <1>2, <2>1, <2>2, <2>3 DEF Limited
<1>4. CASE ~(Cardinality(Recent(now)) >= Limit)
  <2>1. /\ admitted' = Append(admitted, [now |-> now, at |-> clock])
        /\ events' = Recent(now) \union {Len(admitted')}
    BY <1>1, <1>4 DEF Admit
  <2>2. PICK new : /\ new = Len(admitted') /\ new \notin DOMAIN admitted
                   /\ DOMAIN admitted' = DOMAIN admitted \union {new}
                   /\ \A e \in DOMAIN admitted : admitted'[e] = admitted[e]
                   /\ admitted'[new] = [now |-> now, at |-> clock]
    BY <2>1, AdmittedType DEF Orderly
  <2>3. ASSUME NEW e \in DOMAIN admitted'
        PROVE  /\ admitted'[e].at <= clock'
               /\ admitted'[e].now <= admitted'[e].at
               /\ admitted'[e].at - admitted'[e].now <= Stall
               /\ clock' - admitted'[e].at < Window - Stall => e \in events'
    <3>1. CASE e = new
      BY <1>1, <1>2, <2>1, <2>2, <3>1
    <3>2. CASE e \in DOMAIN admitted
      <4>1. admitted'[e] = admitted[e]
        BY <2>2, <3>2
      <4>2. clock - admitted[e].at < Window - Stall => e \in events'
        BY <1>1, <2>1, <3>2, RecentEnough
      <4> QED BY <1>2, <3>2, <4>1, <4>2 DEF Limited
    <3> QED BY <2>2, <3>1, <3>2
  <2>4. ASSUME NEW i \in Time
        PROVE  Cardinality(InWindow(i)') <= Limit
    <3>1. IsFiniteSet(Recent(now)) /\ Cardinality(Recent(now)) \in Nat
          /\ IsFiniteSet(InWindow(i))
      BY AdmittedFacts, FS_Subset, FS_CardinalityType
         DEF Recent, InWindow, Orderly, TypeOK
    <3>2. i \in Nat /\ Window \in Nat /\ Stall \in Nat /\ Limit \in Nat
      BY Bounds
    <3>3. CASE clock <= i /\ i - clock < Window - Stall
      <4>1. InWindow(i)' = InWindow(i) \union {new}
        BY <1>2, <2>2, <3>3 DEF InWindow
      <4>2. ASSUME NEW e \in InWindow(i) PROVE e \in Recent(now)
        <5>1. /\ e \in DOMAIN admitted /\ admitted[e].at \in Nat
              /\ i - admitted[e].at < Window - Stall
          BY AdmittedFacts DEF InWindow, Orderly
        <5>2. clock - admitted[e].at < Window - Stall
          BY <1>2, <3>2, <3>3, <5>1
        <5> QED BY <1>1, <5>1, <5>2, RecentEnough
      <4>3. Cardinality(InWindow(i)) <= Cardinality(Recent(now))
        BY <3>1, <4>2, FS_Subset
      <4>4. Cardinality(InWindow(i)) \in Nat
        BY <3>1, FS_CardinalityType
      <4>5. new \notin InWindow(i)
        BY <2>2 DEF InWindow
      <4>6. Cardinality(InWindow(i)') = Cardinality(InWindow(i)) + 1
        BY <3>1, <4>1, <4>5, FS_AddElement
      <4> QED BY <1>4, <3>1, <3>2, <4>3, <4>4, <4>6
    <3>4. CASE ~(clock <= i /\ i - clock < Window - Stall)
      <4>1. InWindow(i)' = InWindow(i)
        BY <1>2, <2>2, <3>4 DEF InWindow
      <4> QED BY <4>1 DEF Limited
    <3> QED BY <3>3, <3>4
  <2> QED BY <2>3, <2>4 DEF Limited
<1> QED BY <1>3, <1>4

\* Nothing else touches the list; the clock may move on.
LEMMA ListAlone ==
  ASSUME TypeOK, Limited, UNCHANGED <<admitted, events>>, clock' \in Nat,
         clock <= clock'
  PROVE  Limited'
<1>1. \A i \in Time : InWindow(i)' = InWindow(i)
  BY DEF InWindow
<1>2. ASSUME NEW e \in DOMAIN admitted
      PROVE  /\ admitted[e].at <= clock'
             /\ clock' - admitted[e].at < Window - Stall => e \in events
  BY AdmittedFacts, Bounds DEF Limited
<1> QED BY <1>1, <1>2 DEF Limited

LEMMA RestartLimited ==
  ASSUME Restart
  PROVE  Limited'
<1>1. admitted' = <<>>
  BY DEF Restart
<1>2. \A i \in Time : InWindow(i)' = {}
  BY <1>1 DEF InWindow
<1>3. \A e \in DOMAIN admitted' : FALSE
  BY <1>1
<1>4. Cardinality({}) <= Limit
  BY FS_EmptySet, Bounds
<1> QED BY <1>2, <1>3, <1>4 DEF Limited

LEMMA LimitedStep ==
  ASSUME Orderly, Limited, [Next]_vars
  PROVE  Limited'
<1>1. clock \in Nat
  BY AdmittedFacts DEF Orderly
<1>2. ASSUME NEW t \in Threads, Handle(t), ~Admit(t)
      PROVE  UNCHANGED <<clock, admitted, events>>
  BY <1>2 DEF Handle, Arrive, Authorize, AddSession, Stamp, Find, ReadSeen, Judge,
              Discard, Pop, Read, AuditWrite, Write, server
<1>3. ASSUME NEW t \in Threads, Handle(t) PROVE Limited'
  BY <1>1, <1>2, <1>3, AdmitLimited, ListAlone DEF Orderly
<1>4. ASSUME Tick PROVE Limited'
  <2>1. clock' = clock + 1 /\ UNCHANGED <<admitted, events>>
    BY <1>4 DEF Tick, server
  <2> QED BY <1>1, <2>1, ListAlone DEF Orderly
<1>5. ASSUME UNCHANGED vars PROVE Limited'
  <2>1. UNCHANGED <<clock, admitted, events>>
    BY <1>5 DEF vars, server
  <2> QED BY <1>1, <2>1, ListAlone DEF Orderly
<1> QED BY <1>3, <1>4, <1>5, RestartLimited DEF Next

LEMMA InitLimited == Init => Limited
<1> SUFFICES ASSUME Init PROVE Limited
  OBVIOUS
<1>1. admitted = <<>>
  BY DEF Init
<1>2. \A i \in Time : InWindow(i) = {}
  BY <1>1 DEF InWindow
<1>3. DOMAIN admitted = {} /\ \A i \in Time : Cardinality(InWindow(i)) <= Limit
  BY <1>1, <1>2, FS_EmptySet, Bounds
<1> QED BY <1>3 DEF Limited

\* In any interval shorter than the window by the stall, the limiter lets in no
\* more than its limit, whatever threads reach the lock in whatever order.
THEOREM LimiterHolds == Spec => []WindowHolds
<1>1. Orderly /\ Limited /\ [Next]_vars => Limited'
  BY LimitedStep
<1>2. Limited => WindowHolds
  BY DEF Limited, WindowHolds, InWindow
<1> QED BY InitLimited, <1>1, <1>2, AlwaysOrderly, PTL DEF Spec

================================================================================
