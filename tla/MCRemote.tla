------------------------------ MODULE MCRemote ------------------------------
(* A bridge, a stdio server with an endpoint and one with a catalog of its   *)
(* own, and the same where they may not ask; what the others do is Rival's.  *)
EXTENDS Remote, TLC

Has(via, url, secure, only, who) ==
  [via |-> via, url |-> url, secure |-> secure, only |-> only, who |-> who]
MCSetups ==
  {Has("bridge", TRUE, TRUE, TRUE, "editor"), Has("stdio", TRUE, TRUE, FALSE, "editor"),
   Has("stdio", TRUE, TRUE, TRUE, "agent"), Has("stdio", FALSE, FALSE, FALSE, None),
   Has("bridge", TRUE, FALSE, TRUE, "editor"), Has("stdio", TRUE, FALSE, TRUE, "agent"),
   Has("stdio", FALSE, FALSE, TRUE, None)}

Plain(op) == [op |-> op, args |-> None]
Only(op, arg) == [op |-> op, args |-> arg]
\* Filtered drift through the bridge; an id that has to be encoded is looked up.
MCAsks ==
  [bridge |-> {Only("drift", "host"), Plain("add"), Only("manifest_repo", "tag:llm")},
   stdio  |-> {Only("lookup", "tag:llm"), Plain("check"), Plain("add"),
               Only("manifest_repo", "alpha")}]
\* Drift of one kind, also through the HTTP adapter.
DriftAsks == [bridge |-> {Only("drift", "host")}, stdio |-> {Only("drift", "host")}]
\* The work of one repository, whose id has to be encoded.
RepoAsks == [bridge |-> {Only("manifest_repo", "tag:llm")},
             stdio  |-> {Only("manifest_repo", "tag:llm")}]
MCSpelling == "tag:llm" :> "tag%3Allm"
MCDecoding == "tag%3Allm" :> "tag:llm"
MCScopes == [editor |-> {"mcp", "catalog.read", "catalog.check", "catalog.write"},
             agent  |-> {"catalog.read"}]
MCOptions == {[auth |-> TRUE, write |-> TRUE], [auth |-> TRUE, write |-> FALSE],
              [auth |-> FALSE, write |-> TRUE]}
=============================================================================
