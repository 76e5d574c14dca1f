----------------------------- MODULE McpServer -----------------------------
(***************************************************************************)
(* The Streamable HTTP MCP server (mcp/streamable.py) with the limiter, the *)
(* authorizer and the audit log it uses (adapters/security.py).             *)
(*                                                                         *)
(* ThreadingHTTPServer runs each request in a thread of its own.  The       *)
(* threads share the session set, the table of when each session was last   *)
(* seen, and the limiter's list of events; only the limiter takes a lock,   *)
(* and it reads the clock before it does.  All requests are from one        *)
(* address, so the limiter has one list, and an audit log is configured.    *)
(***************************************************************************)
EXTENDS Integers, Sequences, FiniteSets

CONSTANTS
  Threads,       \* requests that can be under way together
  SessionIds,    \* session identifiers the server can mint
  NoSession,     \* a request without one
  Requests,      \* the kinds of request each caller makes
  Principals,    \* who a bearer token can name
  Anonymous,     \* a request without a token, or with one that is not valid
  Scopes,        \* Scopes[p]: what p's token permits
  Expires,       \* Expires[p]: when p's token stops being valid
  Options,       \* ways to start the server: is a token required, may it write
  Ttl,           \* session_ttl_seconds
  Window, Limit, \* the limiter's
  Stall,         \* bound on the time between reading the clock and the lock
  MaxClock,      \* bound on the clock
  MaxRequests    \* bound on the requests

ASSUME ServerAssumption ==
  /\ IsFiniteSet(Threads)
  /\ Options # {} /\ Options \subseteq [auth : BOOLEAN, write : BOOLEAN]
  /\ Scopes \in [Principals -> SUBSET {"mcp", "catalog.write"}]
  /\ Expires \in [Principals -> Nat]
  /\ Requests \subseteq {"initialize", "delete", "read", "write"}
                  \X (Principals \union {Anonymous})
  /\ NoSession \notin SessionIds /\ Anonymous \notin Principals
  /\ {Ttl, Window, Limit, Stall, MaxClock, MaxRequests} \subseteq Nat
  /\ Limit > 0 /\ Stall < Window

Time  == 0..MaxClock
Never == -1
Who   == Principals \union {Anonymous}

Kind    == {"initialize", "delete", "read", "write"}
Request == [kind : Kind, sid : SessionIds \union {NoSession}, who : Who]
NoRequest == [kind |-> "read", sid |-> NoSession, who |-> Anonymous]

VARIABLES
  clock,
  options,   \* how this server was started
  sessions,  \* server.sessions
  seen,      \* server.session_seen; Never where there is no entry
  events,    \* RateLimiter._events of one address: which of `admitted` are listed
  minted,    \* identifiers the server has made
  thread,    \* the request threads
  requests,  \* how many requests there have been
  allowed,   \* rows of the audit log that allow a write, by principal
  written,   \* write operations that were dispatched, by principal
  admitted,  \* the requests the limiter let in: the clock it went by, and when
  used       \* when a session was last initialised or used

server == <<options, sessions, seen, events, minted>>
record == <<allowed, written>>
vars == <<clock, options, sessions, seen, events, minted, thread, requests, allowed,
          written, admitted, used>>

Thread == [pc : {"idle", "limit", "auth", "add", "stamp", "find", "age", "judge",
                 "discard", "pop", "call", "recheck"},
           req : Request, now : Time, seen : Time, principal : Who]
Idle == [pc |-> "idle", req |-> NoRequest, now |-> 0, seen |-> 0,
         principal |-> Anonymous]

\* A request the limiter let in.
Entry == [now : Time, at : Time]

Init ==
  /\ clock = 0 /\ options \in Options /\ sessions = {} /\ seen = [s \in SessionIds |-> Never]
  /\ events = {} /\ minted = {} /\ thread = [t \in Threads |-> Idle]
  /\ requests = 0 /\ admitted = <<>>
  /\ allowed = [p \in Who |-> 0] /\ written = [p \in Who |-> 0]
  /\ used = [s \in SessionIds |-> 0]

At(t, pc) == thread[t].pc = pc
Req(t)    == thread[t].req
Goto(t, pc) == thread' = [thread EXCEPT ![t].pc = pc]
\* The request is answered, with a result or with an error.
Answer(t) == thread' = [thread EXCEPT ![t] = Idle]

-----------------------------------------------------------------------------
(* Admission.                                                              *)

Making(s) == \E t \in Threads : At(t, "stamp") /\ Req(t).sid = s
\* A client learns an identifier from the answer to its initialize.
Known == {s \in minted : ~Making(s)}

\* RateLimiter.allow, up to the lock: `now` is read outside it.
Arrive(t) ==
  /\ At(t, "idle") /\ requests < MaxRequests
  /\ \E q \in Requests, s \in Known \union {NoSession} :
       /\ q[1] = "initialize" => s = NoSession
       /\ thread' = [thread EXCEPT ![t] = [Idle EXCEPT !.pc = "limit", !.now = clock,
                        !.req = [kind |-> q[1], sid |-> s, who |-> q[2]]]]
  /\ requests' = requests + 1
  /\ UNCHANGED <<clock, server, record, admitted, used>>

\* ... and under it.
Recent(now) == {e \in events : now - admitted[e].now < Window}
\* Mutant: one too many.
AdmitOneMore(t) ==
  LET now == thread[t].now IN
  /\ At(t, "limit")
  /\ IF Cardinality(Recent(now)) > Limit
       THEN /\ events' = Recent(now) /\ Answer(t)
            /\ UNCHANGED admitted
       ELSE /\ admitted' = Append(admitted, [now |-> now, at |-> clock])
            /\ events' = Recent(now) \union {Len(admitted')} /\ Goto(t, "auth")
  /\ UNCHANGED <<clock, options, sessions, seen, minted, requests, record, used>>
Admit(t) ==
  LET now == thread[t].now IN
  /\ At(t, "limit")
  /\ IF Cardinality(Recent(now)) >= Limit
       THEN /\ events' = Recent(now) /\ Answer(t)
            /\ UNCHANGED admitted
       ELSE /\ admitted' = Append(admitted, [now |-> now, at |-> clock])
            /\ events' = Recent(now) \union {Len(admitted')} /\ Goto(t, "auth")
  /\ UNCHANGED <<clock, options, sessions, seen, minted, requests, record, used>>

-----------------------------------------------------------------------------
(* Authorization.                                                          *)

Valid(p) == p # Anonymous /\ Expires[p] > clock
Permits(p, scope) == ~options.auth \/ (Valid(p) /\ scope \in Scopes[p])

\* _security after the limiter.  The audit row of the request itself may fail
\* to be written, which ends the request.
Authorize(t) ==
  LET p == IF Valid(Req(t).who) THEN Req(t).who ELSE Anonymous IN
  /\ At(t, "auth")
  /\ \/ Answer(t)
     \/ /\ Permits(p, "mcp")
        /\ thread' = [thread EXCEPT ![t].principal = p,
             ![t].pc = IF Req(t).kind = "initialize" THEN "add" ELSE "find"]
  /\ UNCHANGED <<clock, server, requests, record, admitted, used>>

-----------------------------------------------------------------------------
(* Sessions.                                                               *)

\* initialize, with a version the server knows: a new identifier ...
AddSession(t) ==
  /\ At(t, "add")
  /\ \E s \in SessionIds \ minted :
       /\ minted' = minted \union {s} /\ sessions' = sessions \union {s}
       /\ thread' = [thread EXCEPT ![t].pc = "stamp", ![t].req.sid = s]
  /\ UNCHANGED <<clock, options, seen, events, requests, record, admitted, used>>

\* ... and its first entry.
\* Mutant: the entry is when the session expires.
StampExpiry(t) ==
  LET s == Req(t).sid IN
  /\ At(t, "stamp")
  /\ seen' = [seen EXCEPT ![s] = clock + Ttl] /\ used' = [used EXCEPT ![s] = clock]
  /\ Answer(t)
  /\ UNCHANGED <<clock, options, sessions, events, minted, requests, record, admitted>>
Stamp(t) ==
  LET s == Req(t).sid IN
  /\ At(t, "stamp")
  /\ seen' = [seen EXCEPT ![s] = clock] /\ used' = [used EXCEPT ![s] = clock]
  /\ Answer(t)
  /\ UNCHANGED <<clock, options, sessions, events, minted, requests, record, admitted>>

\* `requested_session not in self.server.sessions`, of POST and DELETE.
Find(t) ==
  /\ At(t, "find")
  /\ IF Req(t).sid \notin sessions THEN Answer(t)
     ELSE Goto(t, IF Req(t).kind = "delete" THEN "discard" ELSE "age")
  /\ UNCHANGED <<clock, server, requests, record, admitted, used>>

\* session_seen.setdefault(session, now)
ReadSeen(t) ==
  LET s == Req(t).sid
      age == IF seen[s] = Never THEN clock ELSE seen[s] IN
  /\ At(t, "age")
  /\ seen' = [seen EXCEPT ![s] = age]
  /\ thread' = [thread EXCEPT ![t].pc = "judge", ![t].seen = age]
  /\ UNCHANGED <<clock, options, sessions, events, minted, requests, record, admitted, used>>

Judge(t) ==
  LET s == Req(t).sid IN
  /\ At(t, "judge")
  /\ IF clock - thread[t].seen > Ttl
       THEN Goto(t, "discard") /\ UNCHANGED <<seen, used>>
       ELSE /\ seen' = [seen EXCEPT ![s] = clock]
            /\ used' = [used EXCEPT ![s] = clock]
            /\ Goto(t, "call")
  /\ UNCHANGED <<clock, options, sessions, events, minted, requests, record, admitted>>

\* Mutant: only the entry is dropped.
DiscardNothing(t) ==
  /\ At(t, "discard") /\ Goto(t, "pop")
  /\ UNCHANGED <<clock, server, requests, record, admitted, used>>
\* DELETE and expiry both discard the session and then drop its entry.
Discard(t) ==
  /\ At(t, "discard")
  /\ sessions' = sessions \ {Req(t).sid}
  /\ Goto(t, "pop")
  /\ UNCHANGED <<clock, options, seen, events, minted, requests, record, admitted, used>>

Pop(t) ==
  /\ At(t, "pop")
  /\ seen' = [seen EXCEPT ![Req(t).sid] = Never]
  /\ Answer(t)
  /\ UNCHANGED <<clock, options, sessions, events, minted, requests, record, admitted, used>>

-----------------------------------------------------------------------------
(* tools/call.                                                             *)

\* A read; of an unknown method or tool, an error.
Read(t) ==
  /\ At(t, "call") /\ Req(t).kind = "read"
  /\ Answer(t)
  /\ UNCHANGED <<clock, server, requests, record, admitted, used>>

MayWrite(p) == options.write /\ p # Anonymous /\ Permits(p, "catalog.write")

\* Mutant: a sink that fails is ignored.
AuditOrNot(t) ==
  LET p == thread[t].principal IN
  /\ At(t, "call") /\ Req(t).kind = "write"
  /\ allowed' \in {allowed, IF MayWrite(p) THEN [allowed EXCEPT ![p] = @ + 1] ELSE allowed}
  /\ Goto(t, "recheck")
  /\ UNCHANGED <<clock, server, requests, written, admitted, used>>
\* _call_tool of a write tool: the decision goes to the audit log, or the
\* sink fails and the request ends there.
AuditWrite(t) ==
  LET p == thread[t].principal IN
  /\ At(t, "call") /\ Req(t).kind = "write"
  /\ \/ Answer(t) /\ UNCHANGED allowed
     \/ /\ allowed' = IF MayWrite(p) THEN [allowed EXCEPT ![p] = @ + 1] ELSE allowed
        /\ Goto(t, "recheck")
  /\ UNCHANGED <<clock, server, requests, written, admitted, used>>

\* The same conditions are tested again, and the operation dispatched; bad
\* arguments end it before that.
Write(t) ==
  LET p == thread[t].principal IN
  /\ At(t, "recheck")
  /\ Answer(t)
  /\ \/ UNCHANGED written
     \/ MayWrite(p) /\ written' = [written EXCEPT ![p] = @ + 1]
  /\ UNCHANGED <<clock, server, requests, allowed, admitted, used>>

-----------------------------------------------------------------------------
(* The clock moves on, but no thread stays at the lock for longer than      *)
(* Stall.                                                                   *)
Tick ==
  /\ clock < MaxClock
  /\ \A t \in Threads : At(t, "limit") => clock - thread[t].now < Stall
  /\ clock' = clock + 1
  /\ UNCHANGED <<server, thread, requests, record, admitted, used>>

\* The process ends, and another is started; what it kept in memory is gone.
\* Bound: only a server that has a session is restarted.
Restart ==
  /\ sessions # {} /\ options' \in Options
  /\ sessions' = {} /\ seen' = [s \in SessionIds |-> Never] /\ events' = {}
  /\ thread' = [t \in Threads |-> Idle]
  /\ admitted' = <<>>
  /\ UNCHANGED <<clock, minted, requests, record, used>>

Handle(t) ==
  \/ Arrive(t) \/ Admit(t) \/ Authorize(t)
  \/ AddSession(t) \/ Stamp(t) \/ Find(t) \/ ReadSeen(t) \/ Judge(t)
  \/ Discard(t) \/ Pop(t)
  \/ Read(t) \/ AuditWrite(t) \/ Write(t)

Next == (\E t \in Threads : Handle(t)) \/ Tick \/ Restart

Spec == Init /\ [][Next]_vars
-----------------------------------------------------------------------------
(* Properties.                                                             *)

\* Every variable has its type.
TypeOK ==
  /\ clock \in Time /\ options \in Options /\ requests \in 0..MaxRequests
  /\ minted \subseteq SessionIds /\ sessions \subseteq minted
  /\ seen \in [SessionIds -> Time \union {Never}]
  /\ used \in [SessionIds -> Time] /\ events \subseteq DOMAIN admitted
  /\ thread \in [Threads -> Thread]
  /\ allowed \in [Who -> Nat] /\ written \in [Who -> Nat]
  /\ admitted \in Seq(Entry)

\* A session the server accepts has an entry that says how old it is, whatever
\* DELETEs and expiries run beside its requests; only one still being made has
\* none (mcp/streamable.py:203-204, 245-246, 265-272).
AcceptedHaveAge ==
  \A s \in sessions : seen[s] # Never \/ Making(s)

\* The limiter holds although its clock reading is stale by the time it has
\* the lock: in any interval shorter than the window by the stall it lets in
\* no more than `limit` requests (adapters/security.py:324-341).
WindowHolds ==
  \A i \in Time :
    Cardinality({e \in DOMAIN admitted :
                   admitted[e].at <= i /\ i - admitted[e].at < Window - Stall}) <= Limit

\* No write is dispatched that the audit log does not allow: there are rows
\* for all of them, for the same principal, even with the sink failing and
\* tokens expiring between the checks ("audit metadata is written before any
\* catalog write result is returned", ARCHITECTURE.md:205).
WritesAudited ==
  /\ written[Anonymous] = 0
  /\ \A p \in Principals : written[p] <= allowed[p]

\* A request that comes when its session has been idle for longer than the
\* time to live is not answered from it (tests/test_streamable.py:190-234).
IdleExpires ==
  [][\A t \in Threads :
       At(t, "judge") /\ thread'[t].pc = "call"
         => thread[t].now - used[Req(t).sid] <= Ttl]_vars
=============================================================================
