------------------------------- MODULE Drift --------------------------------
(***************************************************************************)
(* Declared versus observed, reported and never reconciled: what drift     *)
(* says of a catalog and the evidence of every source.  Pure definitions.  *)
(*                                                                         *)
(* A catalog is [entities, rules, contracts]; a source's evidence is       *)
(* [source, plugin, entities, coverage, names], where entities maps a kind *)
(* it reports to what it saw and names a secret store to bare references.  *)
(*                                                                         *)
(* Source: core/drift.py.                                                  *)
(***************************************************************************)
EXTENDS Plugins

CONSTANTS
  SecretKey,  \* reference -> the part of it that stores agree on
  Selects     \* selector of a replication contract -> the references it matches

DeclaredOf(catalog, kind) == {d \in catalog.entities : d.kind = kind}
Divergence(category, kind, id, source, field, actionable) ==
  [category |-> category, kind |-> kind, id |-> id, source |-> source,
   field |-> field, actionable |-> actionable]

-----------------------------------------------------------------------------
(* What a source can say the absence of.                                   *)

\* A scalar matches exactly, a list by any of its members.
ScopeCovers(scope, d) ==
  /\ scope.ids # None => d.id \in scope.ids
  /\ \A x \in DOMAIN scope.where : Said(d, x) \intersect scope.where[x] # {}
\* Mutant: the scope its collector reports is not looked at.
CoversByPlugin(ev, d, declaration) ==
  declaration # None => ScopeCovers(declaration.coverage, d)
Covers(ev, d, declaration) ==
  /\ declaration # None => ScopeCovers(declaration.coverage, d)
  /\ d.kind \in DOMAIN ev.coverage => ScopeCovers(ev.coverage[d.kind], d)

-----------------------------------------------------------------------------
(* Correlation: the declared entity an observed one is taken for, by its   *)
(* literal id or by what the plugin says identifies the kind.              *)

\* Entities kept out of declared/ on purpose.
KnownUndeclared(catalog, ev, kind) ==
  {e \in ev.entities[kind] :
     /\ \A d \in DeclaredOf(catalog, kind) : d.id # e.id
     /\ \E r \in catalog.rules : /\ r.source = ev.source /\ r.kind = kind
                                 /\ r.ids = {} \/ r.ids \intersect {e.id, "*"} # {}}

Correlates(catalog, kind, e, declaration) ==
  LET same == {d \in DeclaredOf(catalog, kind) : d.id = e.id} IN
  IF same # {} THEN same
  ELSE {d \in DeclaredOf(catalog, kind) :
          declaration # None /\ Matches(e, d, declaration)}
\* None, or the one it is taken for: the first in the catalog's order.
Target(catalog, kind, e, declaration) ==
  LET found == Correlates(catalog, kind, e, declaration) IN
  IF found = {} THEN None ELSE CHOOSE d \in found : TRUE
\* Silence on either side is no disagreement, and notes and tags are intent.
FieldDifferences(d, e) ==
  {x \in DOMAIN e.f \ {"notes", "tags"} :
     e.f[x] # {} /\ Said(d, x) # {} /\ e.f[x] # Said(d, x)}

\* The rows of one source and one kind it reports, by what each of the entities
\* it reports is taken for.  Where two are taken for one declared, the last of
\* them is compared.
Matched(target) == Range(target) \ {None}
Undeclared(catalog, ev, kind, target) ==
  {Divergence("undeclared", kind, e.id, ev.source, None, TRUE) :
     e \in {x \in ev.entities[kind] : target[x] = None} \ KnownUndeclared(catalog, ev, kind)}
Differing(ev, kind, target) ==
  UNION {{Divergence("differs", kind, d.id, ev.source, x, TRUE) :
            x \in FieldDifferences(d, CHOOSE e \in ev.entities[kind] : target[e] = d)} :
           d \in Matched(target)}
Missing(catalog, ev, kind, target, declaration) ==
  {Divergence("missing", kind, d.id, ev.source, None, TRUE) :
     d \in {x \in DeclaredOf(catalog, kind) \ Matched(target) : Covers(ev, x, declaration)}}
CompareKind(catalog, ev, kind, plugins) ==
  LET declaration == DeclarationOf(plugins, ev.plugin, kind)
      target == [e \in ev.entities[kind] |-> Target(catalog, kind, e, declaration)]
  IN Undeclared(catalog, ev, kind, target) \union Differing(ev, kind, target)
     \union Missing(catalog, ev, kind, target, declaration)

-----------------------------------------------------------------------------
(* References one secret store holds and another does not.                 *)

SecretsIn(ev) == IF "secret" \in DOMAIN ev.entities THEN ev.entities["secret"] ELSE {}
\* What one source tells of a store, as secrets and as bare references.
RefsFrom(ev, store) ==
  (UNION {Said(e, "ref") : e \in {x \in SecretsIn(ev) : store \in Said(x, "store")}})
  \union (IF store \in DOMAIN ev.names THEN ev.names[store] ELSE {})
StoresOf(ev) == (UNION {Said(e, "store") : e \in SecretsIn(ev)}) \union DOMAIN ev.names
StoreRefs(evidence, store) == UNION {RefsFrom(ev, store) : ev \in evidence}
Stores(evidence) == UNION {StoresOf(ev) : ev \in evidence}
\* Mutant: references are compared as they are spelt.
Spelt(refs) == refs
Keys(refs) == {SecretKey[r] : r \in refs}

\* Without a contract every pair of stores is compared, and nothing follows.
Pairs(catalog, stores) ==
  IF catalog.contracts # {} THEN catalog.contracts
  ELSE {[from |-> l, to |-> r, mappings |-> {}, selectors |-> {}] : l, r \in stores}
Selected(refs, selectors) ==
  IF selectors = {} THEN refs
  ELSE {r \in refs : \E w \in selectors : {r, SecretKey[r]} \intersect Selects[w] # {}}
Holds(refs, expected) ==
  LET found == {r \in refs : SecretKey[r] = SecretKey[expected]}
  IN IF found = {} THEN {} ELSE {CHOOSE r \in found : TRUE}

OnlyIn(catalog, store, refs) ==
  {Divergence("secret-only-in", "secret", r, store, store, catalog.contracts # {}) : r \in refs}
\* One mapping of a contract, and a pair of stores that call a secret the same.
Mapped(catalog, evidence, p, m) ==
  LET here  == Holds(StoreRefs(evidence, p.from), m[1])
      there == Holds(StoreRefs(evidence, p.to), m[2])
  IN OnlyIn(catalog, p.from, IF there = {} THEN here ELSE {})
     \union OnlyIn(catalog, p.to, IF here = {} THEN there ELSE {})
Alike(catalog, evidence, p) ==
  LET l == Selected(StoreRefs(evidence, p.from), p.selectors)
      r == Selected(StoreRefs(evidence, p.to), p.selectors)
  IN OnlyIn(catalog, p.from, {x \in l : SecretKey[x] \notin Keys(r)})
     \union OnlyIn(catalog, p.to, {x \in r : SecretKey[x] \notin Keys(l)})
Between(catalog, evidence, p) ==
  IF p.mappings # {} THEN UNION {Mapped(catalog, evidence, p, m) : m \in p.mappings}
  ELSE Alike(catalog, evidence, p)
SecretStoreDiff(catalog, evidence) ==
  LET stores == Stores(evidence) IN
  UNION {Between(catalog, evidence, p) :
           p \in {q \in Pairs(catalog, stores) : {q.from, q.to} \subseteq stores}}

-----------------------------------------------------------------------------
Compare(catalog, evidence, plugins) ==
  (UNION {UNION {CompareKind(catalog, ev, k, plugins) :
                   k \in DOMAIN ev.entities \intersect CoreKinds} : ev \in evidence})
  \union SecretStoreDiff(catalog, evidence)

=============================================================================
