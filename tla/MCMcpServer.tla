---------------------------- MODULE MCMcpServer ----------------------------
(* Small instances of McpServer.                                            *)
EXTENDS McpServer, TLC

CONSTANTS agent, editor, t1, t2, sA, sB

\* The agent only reads; the editor's token expires while it is in use.
MCScopes  == [p \in Principals |-> IF p = agent THEN {"mcp"} ELSE {"mcp", "catalog.write"}]
MCExpires == [p \in Principals |-> IF p = agent THEN MaxClock + 1 ELSE 2]
Secured   == [auth |-> TRUE, write |-> TRUE]
Loopback  == [auth |-> FALSE, write |-> TRUE]
MCOptions == {Secured, Loopback}
OneOption == {Secured}
\* One caller of each kind: who may, who may not, and who is not known.
MCRequests == {<<"initialize", editor>>, <<"delete", agent>>, <<"read", agent>>,
               <<"write", editor>>, <<"write", agent>>, <<"write", Anonymous>>}
SessionRequests == {<<"initialize", agent>>, <<"read", agent>>}

Symmetry == Permutations({t1, t2}) \union Permutations({sA, sB})
=============================================================================
