------------------------------ MODULE Listing -------------------------------
(***************************************************************************)
(* One method of a collector, from the token it is given to what it        *)
(* publishes: lists read page by page from an upstream that goes on        *)
(* changing, lists that name further lists, bounds, and the reply, which   *)
(* is everything the method wanted or an error.                            *)
(*                                                                         *)
(* Source: plugins/collectors/forge_github.py, work_github.py,             *)
(* dns_cloudflare.py and plugins/github_app.py, run by plugins/runner.py.  *)
(***************************************************************************)
EXTENDS Integers, Sequences, FiniteSets, Functions, SequencesExt, FiniteSetsExt

CONSTANTS
  None,
  Methods,          \* the methods that are called
  Authed,           \* those whose source has `app_auth`
  Org,              \* whether the source names an organisation, not a user
  Wanted,           \* `zones:` of the DNS source; empty means all
  ItemRepos,        \* `repos:` of the work source, in order
  HistoryRepos,     \* `job_history.repositories`, sorted
  PageSize, DefaultSize, \* rows of a page, and where none is asked for
  MaxPages,         \* way of paging -> how many pages at most
  MaxSelectorRepos, MaxWorkflows, MaxRuns,
  First,            \* the upstream at the start: list -> its rows
  Spare,            \* list -> the rows that may be added to it, in order
  Margin, Lifetime, \* of an installation token
  Timeout,          \* timeout_seconds of the source
  MaxClock, MaxChanges \* bounds on the clock and on changes upstream

ASSUME SizesAssumption ==
  /\ PageSize \in Nat \ {0} /\ DefaultSize \in Nat \ {0}
  /\ {MaxSelectorRepos, MaxWorkflows, MaxRuns} \subseteq Nat
  /\ IsInjective(HistoryRepos)
  /\ ItemRepos \in Seq(Range(ItemRepos)) /\ HistoryRepos \in Seq(Range(HistoryRepos))
  /\ Range(MaxPages) \subseteq Nat \ {0} /\ {Margin, Lifetime, Timeout} \subseteq Nat

Runners == <<"runners", "org">>
Groups  == <<"groups", "org">>
Repos   == <<"repos", "org">>
Zones   == <<"zones", "account">>
\* What may ever be in a list upstream.  Groups are numbered, and a runner names
\* the number of one or none.
Upstream(list) ==
  Range(First[list]) \union (IF list \in DOMAIN Spare THEN Range(Spare[list]) ELSE {})
ASSUME UpstreamAssumption ==
  /\ DOMAIN Spare \subseteq DOMAIN First
  /\ \A l \in DOMAIN First : First[l] \in Seq(Upstream(l))
  /\ \A l \in DOMAIN Spare : Spare[l] \in Seq(Upstream(l))
  /\ Groups \in DOMAIN First => \A g \in Upstream(Groups) : g.id \in Nat
  /\ Runners \in DOMAIN First => \A r \in Upstream(Runners) : r.at \in Nat \union {None}
  /\ None \notin Nat

VARIABLES
  lists,   \* a list upstream, <<what, of>> -> its rows [id, kept, at]
  token,   \* when the cached installation token expires, or None
  call,    \* the call in progress, or how the last one ended
  clock, changes

vars == <<lists, token, call, clock, changes>>

IdsOf(rows) == {rows[i].id : i \in DOMAIN rows}
Least(a, b) == IF a <= b THEN a ELSE b
FirstRows(rows, n) == SubSeq(rows, 1, Least(n, Len(rows)))

Init ==
  /\ lists = First /\ token = None
  /\ call = [pc |-> "idle"]
  /\ clock = 0 /\ changes = 0

-----------------------------------------------------------------------------
(* What a method reads, as a sequence of sets of reads; those of a set are *)
(* in flight together.  `got` is what it has read so far, list by list,    *)
(* and says which reads come next.                                         *)

Read(list, how)  == [list |-> list, how |-> how, size |-> PageSize]
Once(list, size) == [list |-> list, how |-> "once", size |-> size]
RowsOf(got, list) == IF list \in DOMAIN got THEN got[list].rows ELSE <<>>
ForEach(rows, Stages(_)) == FlattenSeq([i \in DOMAIN rows |-> Stages(rows[i])])

\* _ci_status: the groups that are `selected` have a list of repositories.
StatusStages(got) ==
  LET OfGroup(g) == <<{Read(<<"members", g.id>>, "whole")}>> \o
                    (IF g.at = "selected" THEN <<{Read(<<"access", g.id>>, "whole")}>> ELSE <<>>)
  IN <<{Read(Runners, "whole")}, {Read(Groups, "whole")}>> \o ForEach(RowsOf(got, Groups), OfGroup)

\* _selectors: the files it downloads.
Selected(got) ==
  LET OfRepo(r) == FirstRows(RowsOf(got, <<"workflows", r.id>>), MaxWorkflows)
  IN ForEach(FirstRows(RowsOf(got, Repos), MaxSelectorRepos), OfRepo)
SelectorsComplete(got) ==
  /\ Len(RowsOf(got, Repos)) <= MaxSelectorRepos
  /\ \A r \in IdsOf(RowsOf(got, Repos)) : Len(RowsOf(got, <<"workflows", r>>)) <= MaxWorkflows
  /\ \A p \in IdsOf(Selected(got)) :
       \A i \in DOMAIN RowsOf(got, <<"document", p>>) : RowsOf(got, <<"document", p>>)[i].kept

\* _job_history: the runs of each repository while the budget lasts, and
\* the first page of the jobs of each run.
HistoryRepo(got, acc, r) ==
  LET list == <<"runs", r>>
      runs == FirstRows(RowsOf(got, list), acc.budget)
      all  == IF list \in DOMAIN got THEN got[list].total ELSE 0
  IN IF acc.budget <= 0 THEN [acc EXCEPT !.complete = FALSE]
     ELSE [budget |-> acc.budget - Len(runs),
           complete |-> acc.complete /\ all <= Len(RowsOf(got, list)),
           stages |-> acc.stages \o <<{Once(list, Least(PageSize, acc.budget))}>> \o
                      [i \in DOMAIN runs |-> {Once(<<"jobs", runs[i].id>>, PageSize)}]]
\* What is known after each repository.
HistoriesOf(got) ==
  LET after[k \in 0..Len(HistoryRepos)] ==
        IF k = 0 THEN [budget |-> MaxRuns, complete |-> TRUE, stages |-> <<>>]
                 ELSE HistoryRepo(got, after[k - 1], HistoryRepos[k])
  IN after
HistoryOf(got) == HistoriesOf(got)[Len(HistoryRepos)]
\* Mutant: running out of budget is not told.
HistoryUntold(got) == [HistoryOf(got) EXCEPT !.complete = TRUE]
History(got) == HistoryOf(got)

\* _pipelines: the workflows of all repositories are listed concurrently.
PipelineStages(got) ==
  LET Document(w) == <<{Once(<<"document", w.id>>, 1)}>>
  IN <<{Read(Repos, "sample")},
       {Once(<<"workflows", r>>, DefaultSize) : r \in IdsOf(RowsOf(got, Repos))}>>
     \o ForEach(Selected(got), Document) \o History(got).stages

\* work_github.transform_config
ItemStages ==
  FlattenSeq([i \in DOMAIN ItemRepos |->
    <<{Read(<<"issues", ItemRepos[i]>>, "items")}, {Read(<<"pulls", ItemRepos[i]>>, "items")}>>])

\* _list_records
ZonesRead(got) ==
  SelectSeq(RowsOf(got, Zones), LAMBDA z : Wanted = {} \/ z.id \in Wanted)
RecordStages(got) ==
  LET Zone(z) == <<{Read(<<"records", z.id>>, "kept")}>>
  IN <<{Once(Zones, PageSize)}>> \o ForEach(ZonesRead(got), Zone)

StagesOf(method, got) ==
  CASE method = "vcs.repos"    -> <<{Read(Repos, "sample")}>>
    [] method = "ci.pipelines" -> PipelineStages(got)
    [] method = "ci.status"    -> StatusStages(got)
    [] method = "work.items"   -> ItemStages
    [] method = "dns.records"  -> RecordStages(got)

-----------------------------------------------------------------------------
(* One page.                                                               *)

PageOf(list, page, size) ==
  SubSeq(lists[list], (page - 1) * size + 1, Least(page * size, Len(lists[list])))
Kept(rows) == SelectSeq(rows, LAMBDA r : r.kept)

\* Whether the page just read was the last one.  Only the inventories refuse
\* at their ceiling; the others keep what they have.
Ended(how, page, rows) ==
  CASE how = "once"   -> TRUE
    [] how = "sample" -> rows = <<>> \/ Len(rows) < PageSize \/ page = MaxPages[how]
    [] how = "kept"   -> Len(Kept(rows)) < PageSize \/ page = MaxPages[how]
    [] OTHER          -> Len(rows) < PageSize \/ page = MaxPages[how]
\* Mutant: an inventory stops at its ceiling and publishes what it has.
NeverRefuses(how, page, rows) == FALSE
Refused(how, page, rows) ==
  /\ how \in {"whole", "items"} /\ page = MaxPages[how] /\ Len(rows) >= PageSize

\* The reads to make now: what is unread of the first stage that has any.
Pending ==
  LET stages == StagesOf(call.method, call.got)
      Unread(st) == {r \in st : r.list \notin DOMAIN call.got}
      open == {i \in DOMAIN stages : Unread(stages[i]) # {}}
  IN IF open = {} THEN {} ELSE Unread(stages[Min(open)])
Put(f, list, value) == [l \in DOMAIN f \union {list} |-> IF l = list THEN value ELSE f[l]]
PartOf(list) == IF list \in DOMAIN call.part THEN call.part[list] ELSE [page |-> 1, rows |-> <<>>]

-----------------------------------------------------------------------------
(* The call.                                                               *)

\* installation_token: the cached one while it has more than the margin left.
ReusesToExpiry(expires, now) == expires # None /\ expires > now
Reusable(expires, now) == expires # None /\ expires - Margin > now
\* The installation is looked for among the organisations, then the users.
Discovered(org, user) == IF org = "unauthorized" THEN user ELSE org
Minted(discovered, minted) == IF discovered = "ready" THEN minted ELSE discovered
Anonymous(method) == method = "vcs.repos" /\ ~Org

Outcomes == {"ready", "unauthorized", "unreachable"}
Failed(method, why) == [pc |-> "failed", method |-> method, why |-> why]
\* `there` and `removed` only record, for the properties, what was in a list
\* all through the call and which lists lost a row.
Begun(method) ==
  IF method = "ci.status" /\ ~Org THEN Failed(method, "invalid_config")
  ELSE [pc |-> "reading", method |-> method, until |-> clock + Timeout, got |-> <<>>,
        part |-> <<>>, there |-> [l \in DOMAIN lists |-> IdsOf(lists[l])], removed |-> {}]
Start ==
  /\ call.pc # "reading" /\ clock < MaxClock
  /\ \E method \in Methods :
       IF method \notin Authed \/ Reusable(token, clock)
         THEN call' = Begun(method) /\ token' = token
         ELSE \E org, user, post \in Outcomes :
                LET got == Minted(Discovered(org, user), post) IN
                IF got = "ready" THEN call' = Begun(method) /\ token' = clock + Lifetime
                                 ELSE call' = Failed(method, got) /\ token' = token
  /\ UNCHANGED <<lists, clock, changes>>

Expired == call.method \in Authed /\ ~Anonymous(call.method) /\ clock >= token
Fetch ==
  /\ call.pc = "reading"
  /\ \E read \in Pending :
       IF Expired THEN call' = Failed(call.method, "expired")
       ELSE IF read.list \notin DOMAIN lists THEN call' = Failed(call.method, "not_found")
       ELSE \E rows \in {PageOf(read.list, PartOf(read.list).page, read.size)} :
            LET so == PartOf(read.list)
                all == so.rows \o rows
            IN IF Refused(read.how, so.page, rows) THEN call' = Failed(call.method, "internal")
               ELSE call' = IF Ended(read.how, so.page, rows)
                 THEN [call EXCEPT !.got = Put(@, read.list,
                                               [rows |-> all, total |-> Len(lists[read.list])]),
                                   !.part = Restrict(@, DOMAIN @ \ {read.list})]
                 ELSE [call EXCEPT !.part = Put(@, read.list, [page |-> so.page + 1, rows |-> all])]
  /\ UNCHANGED <<lists, token, clock, changes>>

\* The upstream answers with an error, or the runner's patience ends; either
\* way the method has failed and nothing it read is used.
Trip ==
  /\ call.pc = "reading"
  /\ \/ Pending # {} /\ call' = Failed(call.method, "unreachable")
     \/ clock >= call.until /\ call' = Failed(call.method, "timeout")
  /\ UNCHANGED <<lists, token, clock, changes>>
Publish ==
  /\ call.pc = "reading" /\ Pending = {}
  /\ call' = [call EXCEPT !.pc = "done"]
  /\ UNCHANGED <<lists, token, clock, changes>>

-----------------------------------------------------------------------------
(* Around it.  New rows come last, as ids grow.                            *)

Appear ==
  /\ changes < MaxChanges /\ changes' = changes + 1
  /\ \E l \in DOMAIN Spare : \E n \in DOMAIN Spare[l] :
       LET new == FirstRows(Spare[l], n) IN
       /\ IdsOf(new) \intersect IdsOf(lists[l]) = {}
       /\ lists' = [lists EXCEPT ![l] = @ \o new]
  /\ UNCHANGED <<token, call, clock>>
Vanish ==
  /\ changes < MaxChanges /\ changes' = changes + 1
  /\ \E l \in DOMAIN Spare : \E i \in DOMAIN lists[l] :
       /\ lists' = [lists EXCEPT ![l] = RemoveAt(@, i)]
       /\ call' = IF call.pc # "reading" THEN call
                  ELSE [call EXCEPT !.there[l] = @ \ {lists[l][i].id}, !.removed = @ \union {l}]
  /\ UNCHANGED <<token, clock>>
\* The process of a call does not outlive its timeout.
Tick ==
  /\ clock < MaxClock /\ (call.pc = "reading" => clock < call.until)
  /\ clock' = clock + 1
  /\ UNCHANGED <<lists, token, call, changes>>

Next == Start \/ Fetch \/ Trip \/ Publish \/ Appear \/ Vanish \/ Tick
Spec == Init /\ [][Next]_vars

-----------------------------------------------------------------------------
(* What is published.                                                      *)

\* transform_ci_status and transform_execution_targets: a runner's groups are
\* those that list it and the one it names itself; its pool is the least.
GroupIds(got, r) ==
  {g \in IdsOf(RowsOf(got, Groups)) : r.id \in IdsOf(RowsOf(got, <<"members", g>>))}
  \union ({r.at} \ {None})
Executors(got) ==
  {[id |-> r.id, pool |-> IF GroupIds(got, r) = {} THEN None ELSE Min(GroupIds(got, r))] :
     r \in Range(RowsOf(got, Runners))}
Pools(got) ==
  {[id |-> g.id,
    members |-> IdsOf(RowsOf(got, <<"members", g.id>>)) \union
                {r.id : r \in {x \in Range(RowsOf(got, Runners)) : x.at = g.id}},
    repositories |-> IdsOf(RowsOf(got, <<"access", g.id>>))] :
     g \in Range(RowsOf(got, Groups))}

\* transform_workflows, transform_repos, transform_pages, transform_records
Pipelines(got) ==
  UNION {{<<r, w>> : w \in IdsOf(RowsOf(got, <<"workflows", r>>))} : r \in IdsOf(RowsOf(got, Repos))}
ItemIds(got) ==
  UNION {IdsOf(Kept(RowsOf(got, <<"issues", r>>))) \union IdsOf(RowsOf(got, <<"pulls", r>>)) :
           r \in Range(ItemRepos)}
Domains(got)  == UNION {IdsOf(Kept(RowsOf(got, <<"records", z>>))) : z \in IdsOf(ZonesRead(got))}
Coverage(got) == IdsOf(ZonesRead(got))

-----------------------------------------------------------------------------
(* Properties.                                                             *)

Done(method) == call.pc = "done" /\ call.method = method
There(list)  == call.there[list]

\* BUILTIN_PLUGINS.md: every list is fully paginated.  An inventory that is
\* published has everything that was upstream all through the call, with its
\* pool and its members, as long as nothing was taken away meanwhile.
PublishedIsWhole ==
  /\ Done("ci.status") /\ call.removed = {} =>
       /\ \A r \in There(Runners) : \E e \in Executors(call.got) : e.id = r
       /\ \A g \in There(Groups) : \E p \in Pools(call.got) :
            /\ p.id = g /\ There(<<"members", g>>) \subseteq p.members
            /\ <<"access", g>> \in DOMAIN call.got => There(<<"access", g>>) \subseteq p.repositories
       /\ \A e \in Executors(call.got) : \A g \in There(Groups) :
            e.id \in There(<<"members", g>>) => e.pool # None /\ e.pool <= g
  /\ Done("work.items") /\ call.removed = {} =>
       \A r \in Range(ItemRepos) : There(<<"pulls", r>>) \subseteq ItemIds(call.got)

\* A section that says `complete` has looked at every run there was in its
\* window, and at every file of every workflow it lists.
SectionsTold ==
  Done("ci.pipelines") =>
    /\ History(call.got).complete =>
         \A r \in Range(HistoryRepos) : \A run \in There(<<"runs", r>>) :
           <<"jobs", run>> \in DOMAIN call.got
    /\ SelectorsComplete(call.got) =>
         \A p \in Pipelines(call.got) : <<"document", p[2]>> \in DOMAIN call.got

\* No page is refused because the token that was handed over has expired.
TokenLasts == call.pc = "failed" => call.why # "expired"

\* BUILTIN_PLUGINS.md: dns.records pages through the records of a zone.  Of a
\* zone it claims to cover it has every record of a modelled type.
RecordsWhole ==
  Done("dns.records") =>
    \A z \in Coverage(call.got) :
      <<"records", z>> \notin call.removed =>
        \A id \in There(<<"records", z>>) :
          (\E i \in DOMAIN First[<<"records", z>>] :
             First[<<"records", z>>][i].id = id /\ First[<<"records", z>>][i].kept)
          => id \in Domains(call.got)
=============================================================================
