---------------------------- MODULE MCCollector -----------------------------
(* A hypervisor, a DNS account with two zones, two secret stores, and what  *)
(* may be declared.                                                        *)
EXTENDS Collector

MCFields == [host |-> {"role", "tags"}, domain |-> {"zone", "value", "notes"},
             secret |-> {"ref", "store"}]
MCModuleFields == [repo_checkout |-> {"head_revision"}]
MCTtl == [m \in {"dns.records"} |-> 1]
\* KEY and key are one secret in two stores; OLD is called NEW in the forge.
MCSecretKey == [r \in {"vault/KEY", "vault/OLD", "key", "new"} |->
                  CASE r \in {"vault/KEY", "key"} -> "key" [] r = "vault/OLD" -> "old"
                    [] r = "new" -> "new"]
MCSelects == [keys |-> {"key"}]

Host(id)        == [kind |-> "host", id |-> id, f |-> [role |-> {"server"}]]
Domain(id, z)   == [kind |-> "domain", id |-> id, f |-> [zone |-> {z}]]
Secret(id, st, r) == [kind |-> "secret", id |-> id, f |-> [store |-> {st}, ref |-> {r}]]
MCEstate == {Host("h1"), Domain("d1", "z1"), Domain("d2", "z2")}
MCSecrets == {Secret("s1", "vault", "vault/KEY"), Secret("s2", "vault", "vault/OLD"),
              Secret("s3", "forge", "key"), Secret("s4", "forge", "new")}
MCFickle == {Domain("d2", "z2"), Secret("s3", "forge", "key")}
MCThings == MCEstate \union MCSecrets
MCPlace  == [t \in MCThings |-> CASE t.id = "h1" -> "dc" [] t.id = "d1" -> "z1"
                                  [] t.id = "d2" -> "z2" [] t.id \in {"s1", "s2"} -> "in"
                                  [] OTHER -> "forge"]

Exe(name, extended, kinds, stores) ==
  [name |-> name, extended |-> extended, kinds |-> kinds,
   names |-> [m \in DOMAIN kinds |-> stores]]
MCExes ==
  [pve |-> Exe("hypervisor-proxmox", TRUE, [m \in {"inventory.list"} |-> {"host"}], {}),
   cf  |-> Exe("dns-cloudflare", FALSE,
               [m \in {"dns.zones", "dns.records"} |-> IF m = "dns.records" THEN {"domain"} ELSE {}], {}),
   vault |-> Exe("secrets-infisical", TRUE, [m \in {"secret.list"} |-> {"secret"}], {"vault"}),
   forge |-> Exe("forge-forgejo", FALSE, [m \in {"secret.list"} |-> {}], {"forge"})]

Src(id, exe, methods) ==
  [id |-> id, exe |-> exe, plugin |-> MCExes[exe].name, methods |-> methods, enabled |-> TRUE,
   coverage |-> <<>>, appAuth |-> None, tokenEnv |-> None]
Dns == Src("dns", "cf", <<"dns.zones", "dns.records">>)
Pve == Src("pve", "pve", <<"inventory.list">>)
Vault == Src("vault", "vault", <<"secret.list">>)
Forge == Src("forge", "forge", <<"secret.list">>)
Narrow(ids) == [domain |-> [ids |-> ids, where |-> <<>>]]

\* With both; with the first narrowed and the other switched off; two stores.
MCFiles == {<<Dns, Pve>>,
            <<[Dns EXCEPT !.methods = <<"dns.records">>, !.coverage = Narrow({"d1"})],
              [Pve EXCEPT !.enabled = FALSE]>>,
            <<Vault, Forge>>}
\* A hypervisor the operator has not labelled with its plugin.
Unlabelled == {<<[Pve EXCEPT !.plugin = None]>>}

Catalog(entities, contracts) ==
  [entities |-> entities, rules |-> {}, contracts |-> contracts]
Contract(mappings, selectors) ==
  [from |-> "vault", to |-> "forge", mappings |-> mappings, selectors |-> selectors]
MCCatalogs == {Catalog(MCThings, {}),
               Catalog({Domain("d1", "z2")}, {Contract({<<"vault/OLD", "new">>}, {}),
                                              Contract({}, {"keys"})})}

MCReaches == [dns |-> {{"z1"}, {"z1", "z2"}}, pve |-> {{}, {"dc"}},
              vault |-> {{"in"}}, forge |-> {{"forge"}}]
\* A token that has lost every zone, or a `zones:` that names none of them.
LostZones == [dns |-> {{}, {"z1"}}, pve |-> {{"dc"}}, vault |-> {{"in"}}, forge |-> {{"forge"}}]
\* The secrets of the first store are in two paths, and a source reads one.
TwoPaths   == [t \in MCThings |-> IF t.id = "s2" THEN "app" ELSE MCPlace[t]]
OnePath    == [LostZones EXCEPT !.dns = {{"z1", "z2"}}]
AnyReaches == [dns |-> {{}, {"z1"}, {"z1", "z2"}}, pve |-> {{}, {"dc"}},
               vault |-> {{"in"}, {"app"}}, forge |-> {{"forge"}}]

ASSUME HypothesesAssumption == WellReported /\ ContractsAgree

MCHandshakes == [dns |-> {"fine"}, pve |-> {"fine", "timeout"},
                 vault |-> {"fine"}, forge |-> {"fine"}]
MCAlphabet == <<"dns.records", "dns.zones", "inventory.list", "secret.list">>
=============================================================================
