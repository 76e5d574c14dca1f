------------------------------- MODULE Remote -------------------------------
(***************************************************************************)
(* A consumer and the server it asks: the stdio MCP server that answers    *)
(* from HTTP or from its own catalog (mcp/server.py), the bridge that      *)
(* forwards every tool to a Streamable HTTP endpoint (mcp/remote.py), the  *)
(* client both use (adapters/client.py), a network that loses and delays,  *)
(* the HTTP adapter (adapters/http.py) and the MCP endpoint with a thread  *)
(* for each request, the application services, and the catalog, which is   *)
(* here the list of what was committed.  McpServer.tla has the sessions    *)
(* and the limiter of the endpoint, CatalogStore.tla the commit.           *)
(***************************************************************************)
EXTENDS Integers, Sequences, FiniteSets

CONSTANTS
  None,
  Consumers,
  Setups,     \* ways to configure a consumer, [via, url, secure, only, who]: a
              \*   stdio server or a bridge, whether it has an endpoint, whether
              \*   that is https or local, CADASTRE_REMOTE_ONLY, whose token
  Asks,       \* stdio or bridge -> what is asked of it, [op, args]
  Spelling,   \* id -> what stands for it in the path of a request, where that
              \*   differs: percent-encoded, and cut at a "?"
  Decoding,   \* text of a path -> what it decodes to, where that differs
  Scopes,     \* principal -> what its token permits
  Options,    \* ways to start the server, [auth, write]
  MaxCalls,   \* bound on the calls of a consumer
  MaxMishaps  \* bound on what happens around them

ASSUME RemoteAssumption ==
  /\ None \notin Consumers \X Nat
  /\ \A s \in Setups : s.via \in {"stdio", "bridge"}
  /\ \A ask \in Asks["stdio"] \union Asks["bridge"] :
       ask = [op |-> ask.op, args |-> ask.args] /\ ask.op # "tools/list"

VARIABLES
  setup,    \* how each consumer is configured
  consumer, \* the process of each consumer
  last,     \* how its last call ended
  net,      \* requests and replies under way
  threads,  \* the request threads of the server
  server,   \* [up, options, sessions]
  expired,  \* principals whose token has expired
  manifest, \* whether the Manifest module is enabled
  log,      \* what was committed to the catalog: [call, by]
  mishaps

vars == <<setup, consumer, last, net, threads, server, expired, manifest, log, mishaps>>
catalog == <<manifest, log>>
around == <<setup, expired, mishaps>>

-----------------------------------------------------------------------------
(* The operations (api/registry.py) and who serves them.                   *)

BaseTools == {"brief", "version", "context_for", "check", "lookup", "credential_for",
              "dns_chain", "secret_describe", "drift", "question", "observations"}
ManifestTools == {"manifest_brief", "manifest_projects", "manifest_backlog", "manifest_next",
                  "manifest_drift", "manifest_repo", "manifest_why"}
WriteTools == {"add", "update", "annotate", "accept", "leave_contested", "acknowledge"}
\* The bridge has no function for the list of projects.
BridgeTools == (ManifestTools \ {"manifest_projects"}) \union WriteTools

ScopeOf(op) == CASE op \in WriteTools -> "catalog.write"
                 [] op = "check"      -> "catalog.check"
                 [] OTHER             -> "catalog.read"

\* What reaches the service of the arguments.  The bridge sends them all as
\* JSON, and the stdio server does so for a check or a write.  Its other
\* requests are GETs: an id stands in the path, which only /lookup decodes;
\* the rest is a query, where a blank is as good as nothing; /drift takes none.
InBody == WriteTools \union {"check"}
Spelt(text)   == IF text \in DOMAIN Spelling THEN Spelling[text] ELSE text
Decoded(text) == IF text \in DOMAIN Decoding THEN Decoding[text] ELSE text
Received(op, args) ==
  CASE op = "drift"                            -> None
    [] op = "lookup"                           -> Decoded(Spelt(args))
    [] op \in {"manifest_repo", "manifest_why"} -> Spelt(args)
    [] OTHER                                   -> IF args = "" THEN None ELSE args
Forwarded(via, ask) ==
  IF via = "bridge" \/ ask.op \in InBody THEN ask
  ELSE [ask EXCEPT !.args = Received(ask.op, @)]

Principal(who) == IF who = None \/ who \in expired THEN None ELSE who
Permits(p, scope) ==
  ~server.options.auth \/ (p # None /\ p \notin expired /\ scope \in Scopes[p])
MayWrite(p) == server.options.write /\ p # None /\ Permits(p, "catalog.write")

\* _tools: what the endpoint lists.
Served(p) == BaseTools \union (IF manifest THEN ManifestTools ELSE {})
                       \union (IF MayWrite(p) THEN WriteTools ELSE {})

-----------------------------------------------------------------------------
Via(c) == setup[c].via
\* validate_endpoint, and mcp_endpoint for the bridge.
ValidEndpoint(c) == setup[c].secure \/ ~(setup[c].only \/ Via(c) = "bridge")
\* StreamableClient.tool opens a session for each call.
StepsOf(c) == IF Via(c) = "stdio" THEN <<"call">> ELSE <<"initialize", "initialized", "call">>

Idle == [pc |-> "idle", n |-> 0, calls |-> 0, offered |-> BaseTools]
Init ==
  /\ setup \in [Consumers -> Setups]
  /\ consumer = [c \in Consumers |->
                   [Idle EXCEPT !.pc = IF Via(c) = "bridge" THEN "boot" ELSE "idle"]]
  /\ last = [c \in Consumers |-> None]
  /\ net = {} /\ threads = {} /\ expired = {} /\ manifest \in BOOLEAN /\ log = <<>>
  /\ \E o \in Options : server = [up |-> TRUE, options |-> o, sessions |-> {}]
  /\ mishaps = 0

-----------------------------------------------------------------------------
(* The consumer.                                                           *)

At(c, pc) == consumer[c].pc = pc
Calling(c, ask, pc) ==
  [pc |-> pc, n |-> consumer[c].n, calls |-> consumer[c].calls + 1, booted |-> ~At(c, "boot"),
   offered |-> consumer[c].offered, ask |-> ask, step |-> 1, session |-> None, since |-> Len(log)]
\* A call is over.  At its start the bridge asks for the list of tools and
\* then for the version, and swallows whatever becomes of that.
Ending(c, how, body) ==
  LET me == consumer[c]
      offered == IF me.ask.op # "tools/list" THEN me.offered
                 ELSE BaseTools \union (IF how = "ok" THEN body \intersect BridgeTools ELSE {})
      after == [pc |-> "idle", n |-> me.n, calls |-> me.calls, offered |-> offered]
  IN /\ consumer' = [consumer EXCEPT ![c] =
          IF me.ask.op = "tools/list"
            THEN [me EXCEPT !.pc = "send", !.offered = offered, !.step = 1, !.session = None,
                            !.ask = [op |-> "version", args |-> None], !.since = Len(log)]
            ELSE after]
     /\ last' = [last EXCEPT ![c] = IF ~me.booted THEN @ ELSE
          [call |-> <<c, me.calls>>, ask |-> me.ask, how |-> how, body |-> body,
           since |-> me.since, until |-> Len(log)]]

\* build_server of the bridge; without a valid endpoint it does not start.
Boot(c) ==
  /\ At(c, "boot")
  /\ consumer' = [consumer EXCEPT ![c] =
       IF ValidEndpoint(c)
         THEN [Calling(c, [op |-> "tools/list", args |-> None], "send") EXCEPT !.calls = 0]
         ELSE [@ EXCEPT !.pc = "exited"]]
  /\ UNCHANGED <<last, net, threads, server, catalog, around>>

\* A tool is called.  _answer: with an endpoint, from there; else from the
\* catalog at hand, unless only a remote one will do.
Begin(c) ==
  /\ At(c, "idle") /\ consumer[c].calls < MaxCalls
  /\ \E ask \in Asks[Via(c)] :
       LET how == CASE setup[c].url /\ ValidEndpoint(c) -> "send"
                    [] ~setup[c].url /\ ~setup[c].only  -> "local"
                    [] OTHER                            -> "barred" IN
       /\ Via(c) = "bridge" => ask.op \in consumer[c].offered
       /\ consumer' = [consumer EXCEPT ![c] = Calling(c, ask, how)]
  /\ UNCHANGED <<last, net, threads, server, catalog, around>>
Barred(c) ==
  /\ At(c, "barred") /\ Ending(c, "refused", None)
  /\ UNCHANGED <<net, threads, server, catalog, around>>

\* _safely(local): the services on the catalog at hand, as `agent`.
Answer(ask) == [op |-> ask.op, args |-> ask.args, at |-> Len(log)]
Local(c) ==
  LET ask == consumer[c].ask IN
  /\ At(c, "local")
  /\ \/ Ending(c, "refused", None) /\ log' = log
     \/ /\ ask.op \in WriteTools
        /\ log' = Append(log, [call |-> <<c, consumer[c].calls>>, by |-> "agent"])
        /\ Ending(c, "ok", None)
     \/ /\ ask.op \notin WriteTools /\ (ask.op \in ManifestTools => manifest)
        /\ Ending(c, "ok", Answer(ask)) /\ log' = log
  /\ UNCHANGED <<net, threads, server, manifest, around>>

\* One request of the call.  Where nothing listens it fails at once.
Request(c) ==
  LET me == consumer[c] IN
  [to |-> "server", c |-> c, n |-> me.n + 1, step |-> StepsOf(c)[me.step],
   ask |-> Forwarded(Via(c), me.ask), call |-> <<c, me.calls>>, session |-> me.session,
   who |-> setup[c].who, via |-> Via(c)]
Send(c) ==
  /\ At(c, "send")
  /\ IF server.up
       THEN /\ net' = net \union {Request(c)}
            /\ consumer' = [consumer EXCEPT ![c].pc = "wait", ![c].n = @ + 1]
            /\ last' = last
       ELSE Ending(c, "unreachable", None) /\ net' = net
  /\ UNCHANGED <<threads, server, catalog, around>>

\* Mutant: a request that timed out is sent again.
SendsAgain(c) ==
  /\ At(c, "wait")
  /\ consumer' = [consumer EXCEPT ![c].pc = "send"]
  /\ UNCHANGED <<last, net, threads, server, catalog, around>>
\* Mutant: there is no timeout.
WaitsForever(c) == FALSE /\ UNCHANGED vars
\* urlopen's timeout, or the connection breaks: the call ends, and a write that
\* was sent is still on its way; a question nobody waits for is dropped here.
Writes(m) == m.to = "server" /\ m.step = "call" /\ m.ask.op \in WriteTools
Reply(c) == {m \in net : m.to = "consumer" /\ m.c = c /\ m.n = consumer[c].n}
GiveUp(c) ==
  /\ At(c, "wait")
  /\ Ending(c, "unreachable", None)
  /\ net' = {m \in net : m.c # c \/ Writes(m)}
  /\ threads' = {t \in threads : t.req.c # c \/ Writes(t.req)}
  /\ UNCHANGED <<server, catalog, around>>

Take(c) ==
  /\ At(c, "wait")
  /\ \E m \in Reply(c) :
       /\ net' = net \ {m}
       /\ CASE ~m.ok -> Ending(c, "refused", None)
            [] m.ok /\ consumer[c].step = Len(StepsOf(c)) -> Ending(c, "ok", m.body)
            [] OTHER -> /\ consumer' = [consumer EXCEPT ![c].pc = "send", ![c].step = @ + 1,
                             ![c].session = IF m.session = None THEN @ ELSE m.session]
                        /\ last' = last
  /\ UNCHANGED <<threads, server, catalog, around>>

Consumes(c) == Boot(c) \/ Begin(c) \/ Barred(c) \/ Local(c) \/ Send(c) \/ GiveUp(c) \/ Take(c)

-----------------------------------------------------------------------------
(* A request thread.                                                       *)

\* A reply goes nowhere once the consumer no longer waits for it.
Replied(t, ok, body, session) ==
  /\ threads' = threads \ {t}
  /\ net' = IF At(t.req.c, "wait") /\ consumer[t.req.c].n = t.req.n
              THEN net \union {[to |-> "consumer", c |-> t.req.c, n |-> t.req.n, ok |-> ok,
                                body |-> body, session |-> session]}
              ELSE net
Refuse(t) == Replied(t, FALSE, None, None)
Goto(t, pc) == threads' = (threads \ {t}) \union {[t EXCEPT !.pc = pc]} /\ net' = net

Accept ==
  /\ server.up
  /\ \E m \in net : /\ m.to = "server"
                    /\ net' = net \ {m}
                    /\ threads' = threads \union {[req |-> m, pc |-> "auth", by |-> None]}
  /\ UNCHANGED <<consumer, last, server, catalog, around>>

\* _security: the limiter, Host and Origin, the scope, and the row of the
\* audit log, any of which may end the request.
Authorize(t) ==
  LET p == Principal(t.req.who)
      scope == IF t.req.via = "bridge" THEN "mcp" ELSE ScopeOf(t.req.ask.op) IN
  /\ t.pc = "auth"
  /\ \/ Refuse(t)
     \/ /\ Permits(p, scope)
        /\ threads' = (threads \ {t}) \union
             {[t EXCEPT !.by = p, !.pc = IF t.req.via = "bridge" THEN "session" ELSE "open"]}
        /\ net' = net
  /\ UNCHANGED <<consumer, last, server, catalog, around>>

\* The MCP endpoint: initialize, then whatever names a session it has.
Session(t) ==
  LET id == <<t.req.c, t.req.n>> op == t.req.ask.op IN
  /\ t.pc = "session"
  /\ CASE t.req.step = "initialize" ->
            /\ server' = [server EXCEPT !.sessions = @ \union {id}]
            /\ Replied(t, TRUE, None, id)
       [] t.req.step # "initialize" /\ t.req.session \notin server.sessions ->
            Refuse(t) /\ server' = server
       [] t.req.step = "initialized" /\ t.req.session \in server.sessions ->
            Replied(t, TRUE, None, None) /\ server' = server
       [] OTHER ->
            /\ server' = server
            /\ CASE op = "tools/list" -> Replied(t, TRUE, Served(t.by), t.req.session)
                 [] op \in WriteTools -> IF MayWrite(t.by) THEN Goto(t, "write") ELSE Refuse(t)
                 [] op \in ManifestTools /\ ~manifest -> Refuse(t)
                 [] OTHER -> Goto(t, "answer")
  /\ UNCHANGED <<consumer, last, catalog, around>>

\* do_GET and do_POST: a session is opened to see which routes there are.
\* For a write the caller's token is looked at once more.
Open(t) ==
  LET op == t.req.ask.op IN
  /\ t.pc = "open"
  /\ CASE op \in WriteTools ->
            IF server.options.write /\ Principal(t.req.who) # None
              THEN /\ threads' = (threads \ {t}) \union
                        {[t EXCEPT !.pc = "write", !.by = Principal(t.req.who)]}
                   /\ net' = net
              ELSE Refuse(t)
       [] op \in ManifestTools /\ ~manifest -> Refuse(t)
       [] OTHER -> Goto(t, "answer")
  /\ UNCHANGED <<consumer, last, server, catalog, around>>

\* QueryService and CheckService open the session they answer from.
Query(t) ==
  /\ t.pc = "answer"
  /\ \/ Refuse(t)
     \/ /\ t.req.ask.op \in ManifestTools => manifest
        /\ Replied(t, TRUE, Answer(t.req.ask), t.req.session)
  /\ UNCHANGED <<consumer, last, server, catalog, around>>

\* WriteService: the gate refuses, or it is committed; then the reply.
Write(t) ==
  /\ t.pc = "write"
  /\ \/ Refuse(t) /\ log' = log
     \/ Goto(t, "written") /\ log' = Append(log, [call |-> t.req.call, by |-> t.by])
  /\ UNCHANGED <<consumer, last, server, manifest, around>>
Respond(t) ==
  /\ t.pc = "written" /\ Replied(t, TRUE, None, t.req.session)
  /\ UNCHANGED <<consumer, last, server, catalog, around>>

Serves == \E t \in threads : Authorize(t) \/ Session(t) \/ Open(t) \/ Query(t) \/ Write(t)
                             \/ Respond(t)

-----------------------------------------------------------------------------
(* Around them.                                                            *)

Mishap == mishaps < MaxMishaps /\ mishaps' = mishaps + 1 /\ UNCHANGED <<setup, consumer, last>>
Lose ==
  /\ Mishap /\ \E m \in net : net' = net \ {m}
  /\ UNCHANGED <<threads, server, catalog, expired>>
\* The server dies with its threads and sessions; it comes back, perhaps with
\* other options.
Stop ==
  /\ Mishap /\ server.up
  /\ server' = [server EXCEPT !.up = FALSE, !.sessions = {}] /\ threads' = {}
  /\ UNCHANGED <<net, catalog, expired>>
Start ==
  /\ ~server.up
  /\ \E o \in Options : server' = [server EXCEPT !.up = TRUE, !.options = o]
  /\ UNCHANGED <<consumer, last, net, threads, catalog, around>>
Expire ==
  /\ Mishap /\ \E p \in DOMAIN Scopes \ expired : expired' = expired \union {p}
  /\ UNCHANGED <<net, threads, server, catalog>>
Toggle ==
  /\ Mishap /\ manifest' = ~manifest
  /\ UNCHANGED <<net, threads, server, log, expired>>
\* Somebody else commits.
Rival ==
  /\ Mishap /\ log' = Append(log, [call |-> None, by |-> None])
  /\ UNCHANGED <<net, threads, server, manifest, expired>>

Next == (\E c \in Consumers : Consumes(c)) \/ Accept \/ Serves
        \/ Lose \/ Stop \/ Start \/ Expire \/ Toggle \/ Rival

\* A consumer is a process of its own that goes on while it can: its timeout
\* ends a wait.  Nothing is assumed of the network or of the server.
Goes(c) == Boot(c) \/ Barred(c) \/ Local(c) \/ Send(c) \/ GiveUp(c) \/ Take(c)
Spec == Init /\ [][Next]_vars /\ \A c \in Consumers : WF_vars(Goes(c))

-----------------------------------------------------------------------------
(* Properties.                                                             *)

\* A consumer may believe what it is told.  A write it hears is done was
\* committed, once and in its own name; of one that was refused nothing was;
\* one whose outcome it did not hear was committed at most once.  An answer is
\* to what was asked, from the catalog as it was during the call.  So no lost
\* reply, expired token or restart makes it write twice, for another, or from
\* a catalog that is no longer there (adapters/client.py:1-6, 84-92).
Name(c) == IF setup[c].url THEN setup[c].who ELSE "agent"
AnswersTrue ==
  \A c \in Consumers : last[c] # None =>
    LET l == last[c]
        mine == {i \in DOMAIN log : log[i].call = l.call} IN
    /\ Cardinality(mine) <= 1 /\ \A i \in mine : log[i].by = Name(c)
    /\ l.how = "ok" /\ l.ask.op \in WriteTools => mine # {}
    /\ l.how = "refused" => mine = {}
    /\ l.how = "ok" /\ l.ask.op \notin WriteTools =>
         /\ <<l.body.op, l.body.args>> = <<l.ask.op, l.ask.args>>
         /\ l.body.at \in l.since..l.until

\* Every call ends, whatever is lost and whoever dies: the client waits for a
\* limited time and never asks a second time (adapters/client.py:81, 145).
CallsEnd == \A c \in Consumers : consumer[c].pc \notin {"idle", "exited"} ~> At(c, "idle") \/ At(c, "exited")
=============================================================================
