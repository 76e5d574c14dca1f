------------------------------ MODULE MCEstate ------------------------------
(* Two agents, two hosts and the files they bring.                         *)
EXTENDS Estate, TLC

Net(n) == n
Role(r) == [role |-> r, nets |-> {}, tags |-> {}, gpu |-> FALSE,
            size |-> [cpu |-> 4, memory |-> None, disk |-> None]]

MCBase ==
  [nets |-> [lan |-> "internal", edge |-> "internal"],
   hosts |-> [h1 |-> [Role("docker") EXCEPT !.nets = {"lan"}, !.tags = {"ssd"}],
              h2 |-> [Role("docker") EXCEPT !.nets = {"lan", "edge"}]],
   services |-> [proxy |-> [on |-> "h2", tags |-> {"ingress"}, by |-> {}]],
   endpoints |-> {}, names |-> {}, refs |-> {},
   pipelines |-> [p1 |-> [system |-> "ci", repo |-> "r1", deploys |-> {}]],
   repos |-> {"r1"},
   execs |-> [x1 |-> [system |-> "ci", pool |-> "own", selectors |-> {"linux"},
                      caps |-> {}, status |-> "online", ephemeral |-> FALSE,
                      on |-> "h2"]],
   pools |-> [own |-> [public |-> FALSE]],
   tops |-> [t1 |-> [pipeline |-> "p1", repo |-> "r1", node |-> "h2",
                     kind |-> "service", target |-> "proxy", exposure |-> "web"]],
   policy |-> [tiers |-> {[name |-> "web", class |-> "internal", net |-> "edge",
                           ingress |-> TRUE],
                          [name |-> "plain", class |-> "internal", net |-> None,
                           ingress |-> FALSE]},
               hosted |-> {"hosted"}, selfHosted |-> TRUE, allowPublic |-> FALSE,
               excluded |-> {}, grants |-> {}, formed |-> {}, named |-> {"app", "api"}]]

Port(p, proto, addr) == [form |-> "mapping", port |-> p, protocol |-> proto, address |-> addr]
Raw(expose, ports, hostname) ==
  [name |-> None, host |-> None, expose |-> expose, ports |-> ports,
   hostnames |-> {hostname}, fronted |-> None, secrets |-> {}, env |-> {}]
Top == [host |-> None, expose |-> None, fronted |-> None, repo |-> None, topology |-> None]

MCAgents == {"a1", "a2"}
MCWants ==
  [a1 |-> {[intent |-> {"plain", "p80"}, key |-> "app", top |-> Top,
            raw |-> Raw("plain", {Port(80, None, None)}, "app.example")]},
   a2 |-> {[intent |-> {"web", "p80"}, key |-> "api", top |-> Top,
            raw |-> Raw("web", {Port(80, "tcp", "10.0.0.1")}, "api.example")],
           [intent |-> {"plain"}, key |-> "api", top |-> Top,
            raw |-> Raw("plain", {Port(81, "tcp", None)}, "app.example")]}]

MCEndpointIds == [app |-> "nas:app", api |-> "nas:api"]
MCEndings == {<<"nas:app", "app">>, <<"nas:api", "api">>}
MCAsks == [p80 |-> [port |-> 80, name |-> None, hostname |-> None, cpu |-> None,
                    memory |-> None, disk |-> None]]

MCPipelines ==
  {[kind |-> "pipeline", refs |-> {}, system |-> "ci", repo |-> "r1", topology |-> "t1",
    jobs |-> {[id |-> "build", form |-> "labels", expression |-> FALSE,
               labels |-> {"linux"}, pool |-> None, requires |-> None]},
    requires |-> {}, deploys |-> {}]}

\* The estate is one where an agent is promised all it can be.
ASSUME HypothesesAssumption == FileFollowsIntent /\ PortsSpelt /\ ToldApart
=============================================================================
