---------------------------- MODULE ListingProofs ----------------------------
(***************************************************************************)
(* Machine-checked theorems about Listing, for any upstream, any changes   *)
(* to it, any lists and bounds: the installation token outlives the call   *)
(* it was given to, an inventory that is published is whole, and a section *)
(* of ci.pipelines that says it is complete is.                            *)
(***************************************************************************)
EXTENDS Listing, TLAPS, FiniteSetTheorems, SequenceTheorems, WellFoundedInduction

\* A source's patience is within what a reused token has left, and a new one has.
Patient == Timeout <= Margin /\ Timeout < Lifetime

\* A call under way ends before its token does.
Covered ==
  call.pc = "reading" =>
    /\ {"pc", "method", "until", "got", "part", "there", "removed"} \subseteq DOMAIN call
    /\ call.until \in Nat /\ clock <= call.until
    /\ call.method \in Authed => token \in Nat /\ call.until < token
Lasting ==
  /\ clock \in Nat /\ token \in Nat \union {None}
  /\ Covered /\ TokenLasts

LEMMA InitLasts == Init => Lasting
BY DEF Init, Lasting, Covered, TokenLasts

LEMMA FailsOtherwise ==
  ASSUME NEW method, NEW why, why # "expired", call' = Failed(method, why)
  PROVE  Covered' /\ TokenLasts'
BY DEF Failed, Covered, TokenLasts

\* A call is given a token that was looked at, or made, at its start.
LEMMA StartLasts == ASSUME Patient, Lasting, Start PROVE Lasting'
<1>1. /\ clock' = clock /\ clock \in Nat /\ token \in Nat \union {None}
      /\ Timeout \in Nat /\ Margin \in Nat /\ Lifetime \in Nat
  BY SizesAssumption DEF Start, Lasting
<1>2. ASSUME NEW method, call' = Begun(method), token' \in Nat \union {None},
             method \in Authed => token' \in Nat /\ clock + Timeout < token'
      PROVE  Lasting'
  <2>1. CASE call' = Failed(method, "invalid_config")
    BY <1>1, <1>2, <2>1, FailsOtherwise DEF Lasting
  <2>2. CASE call' # Failed(method, "invalid_config")
    <3>1. call' = [pc |-> "reading", method |-> method, until |-> clock + Timeout,
                   got |-> <<>>, part |-> <<>>, there |-> [l \in DOMAIN lists |-> IdsOf(lists[l])],
                   removed |-> {}]
      BY <1>2, <2>2 DEF Begun
    <3> DEFINE there == [l \in DOMAIN lists |-> IdsOf(lists[l])]
    <3> HIDE DEF there
    <3>2. /\ call'.pc = "reading" /\ call'.method = method /\ call'.until = clock + Timeout
          /\ DOMAIN call' = {"pc", "method", "until", "got", "part", "there", "removed"}
      BY <3>1
    <3>3. Covered'
      BY <1>1, <1>2, <3>2 DEF Covered
    <3>4. TokenLasts'
      BY <3>2 DEF TokenLasts
    <3> QED BY <1>1, <1>2, <3>3, <3>4 DEF Lasting
  <2> QED BY <2>1, <2>2
<1>3. PICK method \in Methods :
        IF method \notin Authed \/ Reusable(token, clock)
          THEN call' = Begun(method) /\ token' = token
          ELSE \E org, user, post \in Outcomes :
                 LET got == Minted(Discovered(org, user), post) IN
                 IF got = "ready" THEN call' = Begun(method) /\ token' = clock + Lifetime
                                  ELSE call' = Failed(method, got) /\ token' = token
  BY DEF Start
<1>4. CASE method \notin Authed \/ Reusable(token, clock)
  <2>1. call' = Begun(method) /\ token' = token
    BY <1>3, <1>4
  <2>2. method \in Authed => token' \in Nat /\ clock + Timeout < token'
    BY <1>1, <1>4, <2>1 DEF Reusable, Patient
  <2> QED BY <1>1, <1>2, <2>1, <2>2
<1>5. CASE ~(method \notin Authed \/ Reusable(token, clock))
  <2>1. PICK got : /\ got # "expired"
                   /\ \/ call' = Begun(method) /\ token' = clock + Lifetime
                      \/ call' = Failed(method, got) /\ token' = token
    BY <1>3, <1>5 DEF Outcomes, Minted, Discovered
  <2>2. CASE call' = Begun(method) /\ token' = clock + Lifetime
    BY <1>1, <1>2, <2>2 DEF Patient
  <2>3. CASE call' = Failed(method, got) /\ token' = token
    BY <1>1, <2>1, <2>3, FailsOtherwise DEF Lasting
  <2> QED BY <2>1, <2>2, <2>3
<1> QED BY <1>4, <1>5

LEMMA FetchLasts == ASSUME Lasting, Fetch PROVE Lasting'
<1>1. /\ call.pc = "reading" /\ clock' = clock /\ token' = token /\ Covered
  BY DEF Fetch, Lasting
<1>2. ~Expired
  BY <1>1 DEF Expired, Covered, Lasting
<1>3. \/ \E why \in {"not_found", "internal"} : call' = Failed(call.method, why)
      \/ \E g, p : call' = [call EXCEPT !.got = g, !.part = p]
      \/ \E p : call' = [call EXCEPT !.part = p]
  BY <1>2 DEF Fetch
<1>4. CASE \E why \in {"not_found", "internal"} : call' = Failed(call.method, why)
  BY <1>1, <1>4, FailsOtherwise DEF Lasting
<1>5. CASE \/ \E g, p : call' = [call EXCEPT !.got = g, !.part = p]
           \/ \E p : call' = [call EXCEPT !.part = p]
  <2>1. /\ DOMAIN call' = DOMAIN call /\ call'.pc = call.pc /\ call'.until = call.until
        /\ call'.method = call.method
    BY <1>1, <1>5 DEF Covered
  <2> QED BY <1>1, <2>1 DEF Lasting, Covered, TokenLasts
<1> QED BY <1>3, <1>4, <1>5

LEMMA OthersLast ==
  ASSUME Lasting, Trip \/ Publish \/ Appear \/ Vanish \/ Tick \/ UNCHANGED vars
  PROVE  Lasting'
<1>1. CASE Trip
  <2>1. /\ clock' = clock /\ token' = token
        /\ \E why \in {"unreachable", "timeout"} : call' = Failed(call.method, why)
    BY <1>1 DEF Trip
  <2> QED BY <2>1, FailsOtherwise DEF Lasting
<1>2. CASE Publish
  <2>1. call'.pc = "done" /\ clock' = clock /\ token' = token
    BY <1>2 DEF Publish, Lasting, Covered
  <2> QED BY <2>1 DEF Lasting, Covered, TokenLasts
<1>3. CASE Appear \/ UNCHANGED vars
  <2>1. UNCHANGED <<call, clock, token>>
    BY <1>3 DEF Appear, vars
  <2> QED BY <2>1 DEF Lasting, Covered, TokenLasts
<1>4. CASE Vanish
  <2>1. /\ clock' = clock /\ token' = token
        /\ \/ call' = call
           \/ call.pc = "reading" /\ \E t, r : call' = [call EXCEPT !.there = t, !.removed = r]
    BY <1>4 DEF Vanish
  <2>2. CASE call' = call
    BY <2>1, <2>2 DEF Lasting, Covered, TokenLasts
  <2>3. CASE call.pc = "reading" /\ \E t, r : call' = [call EXCEPT !.there = t, !.removed = r]
    <3>1. /\ DOMAIN call' = DOMAIN call /\ call'.pc = call.pc /\ call'.until = call.until
          /\ call'.method = call.method
      BY <2>3 DEF Lasting, Covered
    <3> QED BY <2>1, <2>3, <3>1 DEF Lasting, Covered, TokenLasts
  <2> QED BY <2>1, <2>2, <2>3
\* The process of the call is ended when its timeout is over.
<1>5. CASE Tick
  BY <1>5 DEF Tick, Lasting, Covered, TokenLasts
<1> QED BY <1>1, <1>2, <1>3, <1>4, <1>5

\* No page of a call is refused because its token has expired, if a source is
\* given no more time than the margin below which a cached token is not used
\* again (plugins/github_app.py).
THEOREM TokensLast == Patient /\ Spec => []TokenLasts
<1> SUFFICES ASSUME Patient PROVE Spec => []TokenLasts
  OBVIOUS
<1>1. Init => Lasting
  BY InitLasts
<1>2. Lasting /\ [Next]_vars => Lasting'
  BY StartLasts, FetchLasts, OthersLast DEF Next
<1>3. Lasting => TokenLasts
  BY DEF Lasting
<1> QED BY <1>1, <1>2, <1>3, PTL DEF Spec

-----------------------------------------------------------------------------
(* Numbers and sequences.                                                  *)

LEMMA LeastOf ==
  ASSUME NEW S, S \subseteq Nat, NEW n \in S
  PROVE  \E m \in S : \A k \in S : m <= k
<1> DEFINE R == StrictSubsetOrdering(0..n)
           W == {0..k : k \in {x \in S : x <= n}}
<1>1. IsWellFoundedOn(R, SUBSET (0..n))
  <2>1. IsFiniteSet(0..n)
    BY FS_Interval
  <2>2. FiniteSubsetsOf(0..n) = SUBSET (0..n)
    BY <2>1, FS_FiniteSubsetsOfFinite
  <2>3. IsWellFoundedOn(StrictSubsetOrdering(0..n), FiniteSubsetsOf(0..n))
    BY FS_StrictSubsetOrderingWellFounded
  <2> QED BY <2>2, <2>3
<1>2. W \subseteq SUBSET (0..n) /\ W # {}
  OBVIOUS
<1>3. \E w \in W : \A v \in W : ~ (<<v, w>> \in R)
  <2> HIDE DEF W, R
  <2> QED BY <1>1, <1>2, WFMin
<1>4. PICK m \in {x \in S : x <= n} : \A v \in W : ~ (<<v, 0..m>> \in R)
  BY <1>3
<1>5. ASSUME NEW k \in S, k < m PROVE FALSE
  <2>1. 0..k \in W /\ 0..k \in SUBSET (0..n) /\ 0..m \in SUBSET (0..n)
    BY <1>5, <1>4
  <2>2. 0..k \subseteq 0..m /\ 0..k # 0..m
    <3>1. m \in 0..m /\ m \notin 0..k
      BY <1>5
    <3> QED BY <1>5, <3>1
  <2>3. <<0..k, 0..m>> \in R
    BY <2>1, <2>2 DEF StrictSubsetOrdering
  <2> QED BY <1>4, <2>1, <2>3
<1> QED BY <1>4, <1>5

LEMMA SetInduction ==
  ASSUME NEW S, S \subseteq Nat, 0 \in S, \A n \in S : n+1 \in S
  PROVE  S = Nat
<1> SUFFICES ASSUME NEW x \in Nat \ S PROVE FALSE
  OBVIOUS
<1>1. PICK m \in Nat \ S : \A k \in Nat \ S : m <= k
  BY LeastOf
<1>5. m # 0 /\ m-1 \in Nat /\ m - 1 < m
  OBVIOUS
<1> QED BY <1>1, <1>5

Flattens(f, seqs, n) == f = [i \in 1..n |-> IF i = 1 THEN seqs[i] ELSE f[i-1] \o seqs[i]]
LEMMA FlattenExists ==
  ASSUME NEW seqs, NEW n \in Nat
  PROVE  \E f : Flattens(f, seqs, n)
<1> DEFINE S == {k \in Nat : \E f : Flattens(f, seqs, k)}
<1>1. 0 \in S
  <2>1. PICK f : f = [i \in 1..0 |-> <<>>]
    OBVIOUS
  <2>2. Flattens(f, seqs, 0)
    BY <2>1 DEF Flattens
  <2> QED BY <2>2
<1>2. ASSUME NEW k \in S PROVE k + 1 \in S
  <2>1. PICK f : Flattens(f, seqs, k)
    OBVIOUS
  <2>2. PICK g : g = [i \in 1..(k+1) |-> IF i = k + 1
                        THEN IF k = 0 THEN seqs[i] ELSE f[k] \o seqs[i] ELSE f[i]]
    OBVIOUS
  <2>3. ASSUME NEW i \in 1..(k+1)
        PROVE  g[i] = IF i = 1 THEN seqs[i] ELSE g[i-1] \o seqs[i]
    <3>1. CASE i = k + 1
      <4>1. k # 0 => g[k] = f[k]
        BY <2>2
      <4> QED BY <2>2, <3>1, <4>1
    <3>2. CASE i # k + 1
      <4>1. i \in 1..k /\ g[i] = f[i]
        BY <2>2, <3>2
      <4>2. i # 1 => i - 1 \in 1..k /\ g[i-1] = f[i-1]
        BY <2>2, <4>1
      <4>3. f[i] = IF i = 1 THEN seqs[i] ELSE f[i-1] \o seqs[i]
        BY <2>1, <4>1 DEF Flattens
      <4> QED BY <4>1, <4>2, <4>3
    <3> QED BY <3>1, <3>2
  <2>4. Flattens(g, seqs, k+1)
    BY <2>2, <2>3 DEF Flattens
  <2> QED BY <2>4
<1>3. S = Nat
  <2> HIDE DEF S
  <2>1. S \subseteq Nat
    BY DEF S
  <2> QED BY <1>1, <1>2, <2>1, SetInduction
<1> QED BY <1>3

LEMMA FlattenIs ==
  ASSUME NEW seqs, Len(seqs) \in Nat \ {0}
  PROVE  \E f : Flattens(f, seqs, Len(seqs)) /\ FlattenSeq(seqs) = f[Len(seqs)]
<1>1. PICK f : f = CHOOSE g : Flattens(g, seqs, Len(seqs))
  OBVIOUS
<1>2. Flattens(f, seqs, Len(seqs))
  BY <1>1, FlattenExists
<1>3. FlattenSeq(seqs) = f[Len(seqs)]
  BY <1>1, Zenon DEF FlattenSeq, Flattens
<1> QED BY <1>2, <1>3

LEMMA ConcatRange ==
  ASSUME NEW S, NEW s \in Seq(S), NEW t \in Seq(S)
  PROVE  s \o t \in Seq(S) /\ Range(s \o t) = Range(s) \union Range(t)
<1>1. s \o t \in Seq(S) /\ DOMAIN s = 1..Len(s) /\ DOMAIN t = 1..Len(t)
      /\ DOMAIN (s \o t) = 1..(Len(s) + Len(t))
      /\ \A i \in 1..(Len(s) + Len(t)) :
           (s \o t)[i] = IF i <= Len(s) THEN s[i] ELSE t[i - Len(s)]
  OBVIOUS
<1>2. ASSUME NEW i \in DOMAIN t
      PROVE  t[i] = (s \o t)[i + Len(s)] /\ i + Len(s) \in DOMAIN (s \o t)
  BY <1>1
<1>3. ASSUME NEW i \in DOMAIN s PROVE s[i] = (s \o t)[i] /\ i \in DOMAIN (s \o t)
  BY <1>1
<1>4. ASSUME NEW i \in DOMAIN (s \o t) PROVE (s \o t)[i] \in Range(s) \union Range(t)
  BY <1>1 DEF Range
<1>5. Range(s \o t) \subseteq Range(s) \union Range(t)
  BY <1>4 DEF Range
<1>6. Range(s) \subseteq Range(s \o t) /\ Range(t) \subseteq Range(s \o t)
  BY <1>2, <1>3 DEF Range
<1> QED BY <1>1, <1>5, <1>6
LEMMA OneOrTwo ==
  ASSUME NEW a, NEW b, NEW S, a \in S, b \in S
  PROVE  /\ <<a>> \in Seq(S) /\ Range(<<a>>) = {a}
         /\ <<a, b>> \in Seq(S) /\ Range(<<a, b>>) = {a, b}
<1>1. DOMAIN <<a>> = {1} /\ DOMAIN <<a, b>> = {1, 2}
  OBVIOUS
<1>2. \A x : x \in Range(<<a>>) <=> x = a
  BY <1>1 DEF Range
<1>3. \A x : x \in Range(<<a, b>>) <=> (x = a \/ x = b)
  BY <1>1 DEF Range
<1> QED BY <1>2, <1>3

RangeOf(seqs, n) == UNION {Range(seqs[i]) : i \in 1..n}
\* A sequence flattened is made of what is in its parts, and no more.
LEMMA FlattenRange ==
  ASSUME NEW S, NEW seqs \in Seq(Seq(S))
  PROVE  /\ FlattenSeq(seqs) \in Seq(S)
         /\ Range(FlattenSeq(seqs)) = UNION {Range(seqs[i]) : i \in 1..Len(seqs)}
<1>1. CASE Len(seqs) = 0
  BY <1>1 DEF FlattenSeq, Range
<1>2. CASE Len(seqs) # 0
  <2>1. PICK f : Flattens(f, seqs, Len(seqs)) /\ FlattenSeq(seqs) = f[Len(seqs)]
    BY <1>2, FlattenIs
  <2> DEFINE P == {n \in Nat : n + 1 \in 1..Len(seqs) =>
                     f[n+1] \in Seq(S) /\ Range(f[n+1]) = RangeOf(seqs, n+1)}
  <2>2. 0 \in P
    <3>1. f[1] = seqs[1]
      BY <1>2, <2>1 DEF Flattens
    <3>2. RangeOf(seqs, 1) = Range(seqs[1])
      BY DEF RangeOf
    <3> QED BY <1>2, <3>1, <3>2
  <2>3. ASSUME NEW n \in P PROVE n + 1 \in P
    <3>0. PICK m : m = n + 1 /\ m \in Nat
      OBVIOUS
    <3> SUFFICES ASSUME m + 1 \in 1..Len(seqs)
                 PROVE  f[m+1] \in Seq(S) /\ Range(f[m+1]) = RangeOf(seqs, m+1)
      BY <3>0
    <3>1. PICK s, t : s = f[m] /\ t = seqs[m+1]
      OBVIOUS
    <3>2. s \in Seq(S) /\ t \in Seq(S) /\ Range(s) = RangeOf(seqs, m)
      BY <3>0, <3>1
    <3>3. f[m+1] = s \o t
      <4>1. \A i \in 1..Len(seqs) : f[i] = IF i = 1 THEN seqs[i] ELSE f[i-1] \o seqs[i]
        BY <2>1 DEF Flattens
      <4>2. m + 1 # 1 /\ (m + 1) - 1 = m
        BY <3>0
      <4>3. f[m+1] = f[(m+1)-1] \o seqs[m+1]
        BY <4>1, <4>2
      <4> QED BY <3>1, <4>2, <4>3
    <3>4. s \o t \in Seq(S) /\ Range(s \o t) = Range(s) \union Range(t)
      BY <3>2, ConcatRange
    <3>5. RangeOf(seqs, m+1) = RangeOf(seqs, m) \union Range(seqs[m+1])
      <4>1. 1..(m+1) = (1..m) \union {m+1}
        BY <3>0
      <4> QED BY <4>1 DEF RangeOf
    <3> QED BY <3>1, <3>2, <3>3, <3>4, <3>5
  <2>4. P = Nat
    <3> HIDE DEF P
    <3>1. P \subseteq Nat
      BY DEF P
    <3> QED BY <2>2, <2>3, <3>1, SetInduction
  <2>5. Len(seqs) - 1 \in P
    <3> HIDE DEF P
    <3> QED BY <1>2, <2>4
  <2> QED BY <1>2, <2>1, <2>5 DEF RangeOf
<1> QED BY <1>1, <1>2

-----------------------------------------------------------------------------
(* What is read of an inventory.                                           *)

Inventories == {"ci.status", "work.items"}
\* A read that ends at the end of its list, or fails.
ToTheEnd(read) == read.how \in {"whole", "items"} /\ read.size = PageSize

LEMMA ForEachIs ==
  ASSUME NEW S, NEW rows, NEW n \in Nat, DOMAIN rows = 1..n,
         NEW parts, parts = [i \in DOMAIN rows |-> parts[i]],
         \A i \in DOMAIN rows : parts[i] \in Seq(S)
  PROVE  /\ FlattenSeq(parts) \in Seq(S)
         /\ \A i \in DOMAIN rows : Range(parts[i]) \subseteq Range(FlattenSeq(parts))
<1>1. parts \in Seq(Seq(S)) /\ Len(parts) = n
  OBVIOUS
<1> QED BY <1>1, FlattenRange

LEMMA StatusReads ==
  ASSUME NEW got, NEW S, RowsOf(got, Groups) \in Seq(S)
  PROVE  LET stages == StatusStages(got) IN
         /\ stages \in Seq(Range(stages))
         /\ \A st \in Range(stages) : \A read \in st : ToTheEnd(read)
         /\ {Read(Runners, "whole")} \in Range(stages)
         /\ {Read(Groups, "whole")} \in Range(stages)
         /\ \A g \in IdsOf(RowsOf(got, Groups)) :
              {Read(<<"members", g>>, "whole")} \in Range(stages)
<1> DEFINE rows == RowsOf(got, Groups)
           Members(i) == {Read(<<"members", rows[i].id>>, "whole")}
           Access(i) == {Read(<<"access", rows[i].id>>, "whole")}
           parts == [i \in DOMAIN rows |->
                       <<Members(i)>> \o (IF rows[i].at = "selected" THEN <<Access(i)>> ELSE <<>>)]
           first == <<{Read(Runners, "whole")}, {Read(Groups, "whole")}>>
           T == {Members(i) : i \in DOMAIN rows} \union {Access(i) : i \in DOMAIN rows}
                  \union {{Read(Runners, "whole")}, {Read(Groups, "whole")}}
<1>1. StatusStages(got) = first \o FlattenSeq(parts)
  BY DEF StatusStages, ForEach
<1>2. \A st \in T : \A read \in st : ToTheEnd(read)
  BY DEF Read, ToTheEnd
<1>3. \A i \in DOMAIN rows : Members(i) \in T /\ Access(i) \in T
  OBVIOUS
<1>4. {Read(Runners, "whole")} \in T /\ {Read(Groups, "whole")} \in T
  OBVIOUS
<1>5. \A g \in IdsOf(rows) : \E i \in DOMAIN rows : Members(i) = {Read(<<"members", g>>, "whole")}
  BY DEF IdsOf
<1>6. \A i \in DOMAIN rows :
        parts[i] = <<Members(i)>> \o (IF rows[i].at = "selected" THEN <<Access(i)>> ELSE <<>>)
  OBVIOUS
<1>7. DOMAIN rows = 1..Len(rows) /\ Len(rows) \in Nat /\ parts = [i \in DOMAIN rows |-> parts[i]]
  OBVIOUS
<1> HIDE DEF T, Members, Access, parts, rows
<1>8. ASSUME NEW i \in DOMAIN rows PROVE parts[i] \in Seq(T) /\ Members(i) \in Range(parts[i])
  <2>1. PICK x : x = IF rows[i].at = "selected" THEN <<Access(i)>> ELSE <<>>
    OBVIOUS
  <2>2. PICK w : w = <<Members(i)>>
    OBVIOUS
  <2>3. x \in Seq(T)
    BY <1>3, <2>1, OneOrTwo
  <2>4. parts[i] = w \o x
    BY <1>6, <2>1, <2>2
  <2>5. w \in Seq(T) /\ Range(w) = {Members(i)}
    BY <1>3, <2>2, OneOrTwo
  <2>6. parts[i] \in Seq(T) /\ Range(parts[i]) = Range(w) \union Range(x)
    BY <2>3, <2>4, <2>5, ConcatRange
  <2> QED BY <2>5, <2>6, ConcatRange
<1>9. /\ FlattenSeq(parts) \in Seq(T)
      /\ \A i \in DOMAIN rows : Range(parts[i]) \subseteq Range(FlattenSeq(parts))
  BY <1>7, <1>8, ForEachIs
<1>10. first \in Seq(T) /\ Range(first) = {{Read(Runners, "whole")}, {Read(Groups, "whole")}}
  BY <1>4, OneOrTwo
<1>11. PICK stages : stages = StatusStages(got)
  OBVIOUS
<1>12. stages \in Seq(T) /\ Range(stages) = Range(first) \union Range(FlattenSeq(parts))
  <2>1. PICK x, y : x = first /\ y = FlattenSeq(parts)
    OBVIOUS
  <2>2. x \in Seq(T) /\ y \in Seq(T) /\ stages = x \o y
    BY <1>1, <1>9, <1>10, <1>11, <2>1
  <2> QED BY <2>1, <2>2, ConcatRange
<1>13. stages \in Seq(Range(stages)) /\ Range(stages) \subseteq T
  BY <1>12 DEF Range
<1>14. \A g \in IdsOf(rows) : {Read(<<"members", g>>, "whole")} \in Range(stages)
  BY <1>5, <1>8, <1>9, <1>12
<1> QED BY <1>2, <1>10, <1>11, <1>12, <1>13, <1>14 DEF rows

LEMMA ItemReads ==
  /\ ItemStages \in Seq(Range(ItemStages))
  /\ \A st \in Range(ItemStages) : \A read \in st : ToTheEnd(read)
  /\ \A r \in Range(ItemRepos) : {Read(<<"pulls", r>>, "items")} \in Range(ItemStages)
<1> DEFINE Issues(i) == {Read(<<"issues", ItemRepos[i]>>, "items")}
           Pulls(i) == {Read(<<"pulls", ItemRepos[i]>>, "items")}
           parts == [i \in DOMAIN ItemRepos |-> <<Issues(i), Pulls(i)>>]
           T == {Issues(i) : i \in DOMAIN ItemRepos} \union {Pulls(i) : i \in DOMAIN ItemRepos}
<1>1. ItemStages = FlattenSeq(parts)
  BY DEF ItemStages
<1>2. \A st \in T : \A read \in st : ToTheEnd(read)
  BY DEF Read, ToTheEnd
<1>3. \A i \in DOMAIN ItemRepos : Issues(i) \in T /\ Pulls(i) \in T
  OBVIOUS
<1>4. \A r \in Range(ItemRepos) :
        \E i \in DOMAIN ItemRepos : Pulls(i) = {Read(<<"pulls", r>>, "items")}
  BY DEF Range
<1>5. \A i \in DOMAIN ItemRepos : parts[i] = <<Issues(i), Pulls(i)>>
  OBVIOUS
<1>6. parts = [i \in DOMAIN ItemRepos |-> parts[i]]
  OBVIOUS
<1> HIDE DEF T, Issues, Pulls, parts
<1>7. ASSUME NEW i \in DOMAIN ItemRepos
      PROVE  parts[i] \in Seq(T) /\ Pulls(i) \in Range(parts[i])
  <2>1. PICK x : x = <<Issues(i), Pulls(i)>>
    OBVIOUS
  <2>2. x \in Seq(T) /\ Range(x) = {Issues(i), Pulls(i)}
    BY <1>3, <2>1, OneOrTwo
  <2> QED BY <1>5, <2>1, <2>2
<1>8. /\ FlattenSeq(parts) \in Seq(T)
      /\ \A i \in DOMAIN ItemRepos : Range(parts[i]) \subseteq Range(FlattenSeq(parts))
  <2>1. DOMAIN ItemRepos = 1..Len(ItemRepos) /\ Len(ItemRepos) \in Nat
    BY SizesAssumption
  <2> QED BY <1>6, <1>7, <2>1, ForEachIs
<1>9. PICK stages : stages = ItemStages /\ stages \in Seq(T)
  BY <1>1, <1>8
<1>10. stages \in Seq(Range(stages)) /\ Range(stages) \subseteq T
  BY <1>9 DEF Range
<1>11. \A r \in Range(ItemRepos) : {Read(<<"pulls", r>>, "items")} \in Range(stages)
  BY <1>1, <1>4, <1>7, <1>8, <1>9
<1> QED BY <1>2, <1>9, <1>10, <1>11

\* Nothing is pending when every stage has been read, and what is pending is of
\* a stage.
AllRead(stages, got) == \A st \in Range(stages) : \A read \in st : read.list \in DOMAIN got

LEMMA PendingIs ==
  ASSUME NEW stages, stages = StagesOf(call.method, call.got), stages \in Seq(Range(stages))
  PROVE  /\ \A read \in Pending : \E st \in Range(stages) : read \in st
         /\ Pending = {} => AllRead(stages, call.got)
<1> DEFINE Unread(st) == {r \in st : r.list \notin DOMAIN call.got}
           open == {i \in DOMAIN stages : Unread(stages[i]) # {}}
<1>1. Pending = IF open = {} THEN {} ELSE Unread(stages[Min(open)])
  BY DEF Pending
<1>2. open # {} => Min(open) \in open
  <2> SUFFICES ASSUME NEW n \in open PROVE Min(open) \in open
    OBVIOUS
  <2>1. open \subseteq Nat
    OBVIOUS
  <2> HIDE DEF open
  <2>2. \E m \in open : \A k \in open : m <= k
    BY <2>1, LeastOf
  <2> QED BY <2>2 DEF Min
<1>3. CASE open = {}
  <2>1. \A i \in DOMAIN stages : \A r \in stages[i] : r.list \in DOMAIN call.got
    BY <1>3
  <2> QED BY <1>1, <1>3, <2>1 DEF AllRead, Range
<1>4. CASE open # {}
  <2>1. PICK i \in DOMAIN stages : Pending = Unread(stages[i]) /\ Unread(stages[i]) # {}
    BY <1>1, <1>2, <1>4
  <2> QED BY <2>1 DEF Range
<1> QED BY <1>3, <1>4

-----------------------------------------------------------------------------
(* Lists upstream, and the pages of one.                                   *)

LEMMA SubSeqIs ==
  ASSUME NEW S, NEW s \in Seq(S), NEW m \in Nat \ {0}, NEW n \in Int, n <= Len(s)
  PROVE  /\ SubSeq(s, m, n) \in Seq(S)
         /\ Len(SubSeq(s, m, n)) = IF m <= n THEN n - m + 1 ELSE 0
         /\ \A i \in 1..Len(SubSeq(s, m, n)) : SubSeq(s, m, n)[i] = s[m + i - 1]
<1>1. \A i \in m..n : s[i] \in S
  OBVIOUS
<1> QED BY <1>1, SubSeqProperties

\* The place of a row of the second of two sequences.
LEMMA Shift ==
  ASSUME NEW a \in Nat, NEW b \in Nat, NEW i \in 1..b, NEW q, q = a + i
  PROVE  q \in 1..(a + b) /\ ~(q <= a) /\ q - a = i
OBVIOUS

\* Rows that come last leave the others where they are; a row that goes takes
\* nothing else with it.
LEMMA Appended ==
  ASSUME NEW S, NEW s \in Seq(S), NEW t \in Seq(S)
  PROVE  /\ s \o t \in Seq(S) /\ Len(s) <= Len(s \o t) /\ IdsOf(s) \subseteq IdsOf(s \o t)
         /\ \A i \in 1..Len(s) : (s \o t)[i] = s[i]
BY DEF IdsOf
LEMMA Removed ==
  ASSUME NEW S, NEW s \in Seq(S), NEW k \in DOMAIN s
  PROVE  RemoveAt(s, k) \in Seq(S) /\ IdsOf(s) \ {s[k].id} \subseteq IdsOf(RemoveAt(s, k))
<1>0. k \in 1..Len(s) /\ Len(s) \in Nat
  OBVIOUS
<1>1. PICK a, b : a = SubSeq(s, 1, k-1) /\ b = SubSeq(s, k+1, Len(s))
  OBVIOUS
<1>2. /\ a \in Seq(S) /\ Len(a) = k - 1
      /\ \A i \in 1..(k-1) : a[i] = s[i]
  BY <1>1, SubSeqIs
<1>3. /\ b \in Seq(S) /\ Len(b) = Len(s) - k
      /\ \A i \in 1..(Len(s) - k) : b[i] = s[k + i]
  BY <1>1, SubSeqIs
<1>4. Len(a) = k - 1 /\ Len(b) = Len(s) - k
  BY <1>2, <1>3
<1>5. PICK c : c = a \o b
  OBVIOUS
<1>6. RemoveAt(s, k) = c
  BY <1>1, <1>5 DEF RemoveAt
<1>7. /\ c \in Seq(S) /\ Len(c) = Len(s) - 1
      /\ \A i \in 1..(k-1) : c[i] = s[i]
      /\ \A i \in (k+1)..Len(s) : c[i-1] = s[i]
  <2>1. c \in Seq(S) /\ Len(c) = Len(s) - 1
    BY <1>2, <1>3, <1>5
  <2>2. \A i \in 1..(k-1) : c[i] = s[i]
    BY <1>2, <1>3, <1>5
  <2>3. ASSUME NEW i \in (k+1)..Len(s) PROVE c[i-1] = s[i]
    <3>1. PICK q, j : q = i - 1 /\ j = i - k
      OBVIOUS
    <3>2. /\ j \in 1..(Len(s) - k) /\ k + j = i
          /\ q \in 1..(Len(a) + Len(b)) /\ ~(q <= Len(a)) /\ q - Len(a) = j
      BY <1>0, <1>4, <3>1
    <3>3. c[q] = b[q - Len(a)]
      <4>1. (a \o b)[q] = IF q <= Len(a) THEN a[q] ELSE b[q - Len(a)]
        BY <1>2, <1>3, <3>2, ConcatProperties
      <4> QED BY <1>5, <3>2, <4>1
    <3>4. b[j] = s[k + j]
      BY <1>3, <3>2
    <3> QED BY <3>1, <3>2, <3>3, <3>4
  <2> QED BY <2>1, <2>2, <2>3
<1>8. ASSUME NEW i \in DOMAIN s, i # k PROVE s[i].id \in IdsOf(c)
  <2>1. CASE i < k
    BY <1>7, <2>1 DEF IdsOf
  <2>2. CASE i > k
    <3>1. i - 1 \in DOMAIN c /\ c[i-1] = s[i]
      BY <1>7, <2>2
    <3> QED BY <3>1 DEF IdsOf
  <2> QED BY <1>8, <2>1, <2>2
<1>9. \A id \in IdsOf(s) \ {s[k].id} : id \in IdsOf(c)
  BY <1>8 DEF IdsOf
<1> QED BY <1>6, <1>7, <1>9

LEMMA PagesAre ==
  ASSUME NEW page \in Nat \ {0}
  PROVE  /\ (page - 1) * PageSize \in Nat /\ page * PageSize \in Nat
         /\ page * PageSize = (page - 1) * PageSize + PageSize
BY SizesAssumption

\* The pages before one, and the page itself.
LEMMA PageIs ==
  ASSUME NEW S, NEW list, lists[list] \in Seq(S), NEW page \in Nat \ {0},
         NEW rows, rows = PageOf(list, page, PageSize)
  PROVE  /\ rows \in Seq(S)
         /\ (page - 1) * PageSize <= Len(lists[list]) =>
              /\ \A i \in 1..Len(rows) : rows[i] = lists[list][(page - 1) * PageSize + i]
              /\ Len(rows) < PageSize => Len(lists[list]) = (page - 1) * PageSize + Len(rows)
              /\ Len(rows) >= PageSize => page * PageSize <= Len(lists[list])
<1>1. PICK all, before, last : /\ all = lists[list] /\ before = (page - 1) * PageSize
                               /\ last = Least(page * PageSize, Len(all))
  OBVIOUS
<1>2. page * PageSize = before + PageSize /\ before \in Nat /\ PageSize \in Nat \ {0}
  BY <1>1, SizesAssumption
<1>3. rows = SubSeq(all, before + 1, last)
  BY <1>1 DEF PageOf
<1>4. last \in Int /\ last <= Len(all) /\ last <= before + PageSize
      /\ (last = Len(all) \/ last = before + PageSize)
  BY <1>1, <1>2 DEF Least
<1>5. /\ rows \in Seq(S)
      /\ Len(rows) = IF before + 1 <= last THEN last - before ELSE 0
      /\ \A i \in 1..Len(rows) : rows[i] = all[before + i]
  <2>1. before + 1 \in Nat \ {0} /\ \A i \in Int : before + 1 + i - 1 = before + i
    BY <1>2
  <2> QED BY <1>1, <1>2, <1>3, <1>4, <2>1, SubSeqIs
<1>6. Len(rows) \in Nat /\ Len(all) \in Nat
  BY <1>1, <1>5
<1>7. ASSUME before <= Len(all), Len(rows) < PageSize PROVE Len(all) = before + Len(rows)
  BY <1>2, <1>4, <1>5, <1>6, <1>7
<1>8. ASSUME before <= Len(all), Len(rows) >= PageSize PROVE page * PageSize <= Len(all)
  BY <1>2, <1>4, <1>5, <1>6, <1>8
<1> QED BY <1>1, <1>5, <1>7, <1>8

\* What was read of a list has every row its pages so far had.
Reaches(list, so) ==
  /\ (so.page - 1) * PageSize <= Len(list)
  /\ \A i \in 1..((so.page - 1) * PageSize) : list[i].id \in IdsOf(so.rows)

LEMMA ReachesOn ==
  ASSUME NEW S, NEW s \in Seq(S), NEW t \in Seq(S), NEW so, so.page \in Nat \ {0}, Reaches(s, so)
  PROVE  Reaches(s \o t, so)
<1>1. (so.page - 1) * PageSize \in Nat
  BY PagesAre
<1>2. PICK n \in Nat : n = (so.page - 1) * PageSize
  BY <1>1
<1>3. n <= Len(s) /\ \A i \in 1..n : s[i].id \in IdsOf(so.rows)
  BY <1>2 DEF Reaches
<1>4. n <= Len(s \o t) /\ \A i \in 1..n : (s \o t)[i] = s[i]
  BY <1>3, Appended
<1> QED BY <1>2, <1>3, <1>4 DEF Reaches

\* A page that is not full was the last; after a full one the next is due.
LEMMA NextPage ==
  ASSUME NEW S, NEW list, lists[list] \in Seq(S), NEW so, so.page \in Nat \ {0},
         so.rows \in Seq(S), Reaches(lists[list], so),
         NEW rows, rows = PageOf(list, so.page, PageSize), NEW all, all = so.rows \o rows
  PROVE  /\ Len(rows) < PageSize => IdsOf(lists[list]) \subseteq IdsOf(all)
         /\ Len(rows) >= PageSize => Reaches(lists[list], [page |-> so.page + 1, rows |-> all])
<1>1. PICK n, m, up : n = (so.page - 1) * PageSize /\ m = so.page * PageSize /\ up = lists[list]
  OBVIOUS
<1>2. n \in Nat /\ m \in Nat /\ m = n + PageSize /\ PageSize \in Nat \ {0}
  BY <1>1, SizesAssumption, PagesAre
<1>3. n <= Len(up) /\ \A i \in 1..n : up[i].id \in IdsOf(so.rows)
  BY <1>1 DEF Reaches
<1>4. /\ rows \in Seq(S)
      /\ \A i \in 1..Len(rows) : rows[i] = up[n + i]
      /\ Len(rows) < PageSize => Len(up) = n + Len(rows)
      /\ Len(rows) >= PageSize => m <= Len(up)
  BY <1>1, <1>3, PageIs
<1>5. IdsOf(so.rows) \subseteq IdsOf(all) /\ IdsOf(rows) \subseteq IdsOf(all)
  <2>1. ASSUME NEW i \in DOMAIN rows PROVE rows[i].id \in IdsOf(all)
    <3>1. PICK old, q : old = so.rows /\ q = Len(old) + i
      OBVIOUS
    <3>2. /\ DOMAIN all = 1..(Len(old) + Len(rows)) /\ i \in 1..Len(rows)
          /\ Len(old) \in Nat /\ Len(rows) \in Nat
      BY <1>4, <3>1
    <3>3. q \in 1..(Len(old) + Len(rows)) /\ ~(q <= Len(old)) /\ q - Len(old) = i
      BY <3>1, <3>2, Shift
    <3>4. all[q] = rows[i]
      <4>1. (old \o rows)[q] = IF q <= Len(old) THEN old[q] ELSE rows[q - Len(old)]
        BY <1>4, <3>1, <3>3, ConcatProperties
      <4> QED BY <3>1, <3>3, <4>1
    <3> QED BY <3>2, <3>3, <3>4 DEF IdsOf
  <2>2. IdsOf(so.rows) \subseteq IdsOf(all)
    BY <1>4, Appended
  <2> QED BY <2>1, <2>2 DEF IdsOf
<1>6. ASSUME NEW i \in 1..(n + Len(rows)) PROVE up[i].id \in IdsOf(all)
  <2>1. CASE i <= n
    BY <1>2, <1>3, <1>5, <2>1
  <2>2. CASE i > n
    <3>1. PICK j : j = i - n
      OBVIOUS
    <3>2. j \in 1..Len(rows) /\ n + j = i
      BY <1>2, <1>4, <2>2, <3>1
    <3>3. rows[j] = up[i]
      BY <1>4, <3>2
    <3>4. rows[j].id \in IdsOf(rows)
      BY <1>4, <3>2 DEF IdsOf
    <3> QED BY <1>5, <3>3, <3>4
  <2> QED BY <1>2, <1>4, <2>1, <2>2
<1>7. ASSUME Len(rows) < PageSize PROVE IdsOf(up) \subseteq IdsOf(all)
  <2>1. Len(up) = n + Len(rows) /\ DOMAIN up = 1..Len(up)
    BY <1>1, <1>4, <1>7
  <2> QED BY <1>6, <2>1 DEF IdsOf
<1>8. ASSUME Len(rows) >= PageSize
      PROVE  Reaches(up, [page |-> so.page + 1, rows |-> all])
  <2>1. (so.page + 1) - 1 = so.page
    OBVIOUS
  <2>2. m <= Len(up)
    BY <1>4, <1>8
  <2>3. \A i \in 1..m : up[i].id \in IdsOf(all)
    <3>1. 1..m \subseteq 1..(n + Len(rows))
      BY <1>2, <1>4, <1>8
    <3> QED BY <1>6, <3>1
  <2> QED BY <1>1, <2>1, <2>2, <2>3 DEF Reaches
<1> QED BY <1>1, <1>7, <1>8

-----------------------------------------------------------------------------
(* What a call has read.                                                   *)

UpstreamInv ==
  DOMAIN lists = DOMAIN First /\ \A l \in DOMAIN First : lists[l] \in Seq(Upstream(l))
\* A call is a record, and what was there all through it is there.
CallInv ==
  /\ call.pc \in {"reading", "done"} =>
       /\ call = [pc |-> call.pc, method |-> call.method, until |-> call.until, got |-> call.got,
                  part |-> call.part, there |-> call.there, removed |-> call.removed]
       /\ DOMAIN call.there = DOMAIN First
  /\ call.pc = "reading" => \A l \in DOMAIN First : call.there[l] \subseteq IdsOf(lists[l])

\* Of an inventory, what was read of a list up to some page, and the whole list.
Partly(l, so) ==
  /\ so.page \in Nat \ {0} /\ so.rows \in Seq(Upstream(l))
  /\ l \notin call.removed => Reaches(lists[l], so)
Wholly(l, so) ==
  /\ l \in DOMAIN First /\ so.rows \in Seq(Upstream(l))
  /\ l \notin call.removed => call.there[l] \subseteq IdsOf(so.rows)
PartInv ==
  call.pc = "reading" /\ call.method \in Inventories =>
    \A l \in DOMAIN First : Partly(l, PartOf(l))
GotInv ==
  call.pc \in {"reading", "done"} /\ call.method \in Inventories =>
    \A l \in DOMAIN call.got : Wholly(l, call.got[l])
DoneInv ==
  call.pc = "done" /\ call.method \in Inventories =>
    AllRead(StagesOf(call.method, call.got), call.got)
ReadInv == UpstreamInv /\ CallInv /\ PartInv /\ GotInv /\ DoneInv

LEMMA InitReads == Init => ReadInv
BY UpstreamAssumption DEF Init, ReadInv, UpstreamInv, CallInv, PartInv, GotInv, DoneInv

\* The stages of an inventory are all of reads to the end.
LEMMA InventoryReads ==
  ASSUME GotInv, call.pc = "reading", call.method \in Inventories,
         NEW stages, stages = StagesOf(call.method, call.got)
  PROVE  /\ stages \in Seq(Range(stages))
         /\ \A st \in Range(stages) : \A read \in st : ToTheEnd(read)
<1>1. CASE call.method = "ci.status"
  <2>1. RowsOf(call.got, Groups) \in Seq(Upstream(Groups))
    BY <1>1 DEF RowsOf, GotInv, Wholly, Inventories
  <2>2. stages = StatusStages(call.got)
    BY <1>1 DEF StagesOf
  <2> QED BY <2>1, <2>2, StatusReads
<1>2. CASE call.method = "work.items"
  <2>1. stages = ItemStages
    BY <1>2 DEF StagesOf
  <2> QED BY <2>1, ItemReads
<1> QED BY <1>1, <1>2 DEF Inventories

LEMMA FailedReads ==
  ASSUME UpstreamInv, UNCHANGED lists, NEW method, NEW why, call' = Failed(method, why)
  PROVE  ReadInv'
<1>1. call'.pc = "failed"
  BY DEF Failed
<1> QED BY <1>1 DEF ReadInv, UpstreamInv, CallInv, PartInv, GotInv, DoneInv

LEMMA StartReads == ASSUME ReadInv, Start PROVE ReadInv'
<1>1. PICK method : \/ call' = Begun(method)
                    \/ \E why : call' = Failed(method, why)
  BY DEF Start
<1>2. UNCHANGED lists
  BY DEF Start
<1>3. CASE \E why : call' = Failed(method, why)
  BY <1>2, <1>3, FailedReads DEF ReadInv
<1>4. CASE call' = Begun(method) /\ ~(\E why : call' = Failed(method, why))
  <2>1. PICK there, until :
          there = [l \in DOMAIN lists |-> IdsOf(lists[l])] /\ until = clock + Timeout
    OBVIOUS
  <2>2. call' = [pc |-> "reading", method |-> method, until |-> until, got |-> <<>>,
                 part |-> <<>>, there |-> there, removed |-> {}]
    BY <1>4, <2>1 DEF Begun
  <2>3. /\ call'.pc = "reading" /\ call'.got = <<>> /\ call'.part = <<>> /\ call'.there = there
        /\ call'.removed = {} /\ call'.until = until /\ call'.method = method
    BY <2>2
  <2>4. UpstreamInv'
    BY <1>2 DEF ReadInv, UpstreamInv
  <2>5. CallInv'
    BY <1>2, <2>1, <2>2, <2>3 DEF ReadInv, UpstreamInv, CallInv
  <2>6. PartInv'
    <3> SUFFICES ASSUME NEW l \in DOMAIN First PROVE Partly(l, PartOf(l))'
      BY DEF PartInv
    <3>1. PartOf(l)' = [page |-> 1, rows |-> <<>>]
      BY <2>3 DEF PartOf
    <3>2. Reaches(lists[l], [page |-> 1, rows |-> <<>>])
      <4>1. (1 - 1) * PageSize = 0
        BY SizesAssumption
      <4> QED BY <4>1 DEF Reaches, ReadInv, UpstreamInv
    <3> QED BY <1>2, <3>1, <3>2 DEF Partly
  <2>7. GotInv' /\ DoneInv'
    BY <2>3 DEF GotInv, DoneInv
  <2> QED BY <2>4, <2>5, <2>6, <2>7 DEF ReadInv
<1> QED BY <1>1, <1>3, <1>4

LEMMA PublishReads == ASSUME ReadInv, Publish PROVE ReadInv'
<1>1. /\ call.pc = "reading" /\ Pending = {} /\ UNCHANGED lists
      /\ call' = [call EXCEPT !.pc = "done"]
  BY DEF Publish
<1>2. /\ call'.pc = "done" /\ call'.method = call.method /\ call'.got = call.got
      /\ call'.there = call.there /\ call'.removed = call.removed
  BY <1>1 DEF ReadInv, CallInv
<1>3. UpstreamInv' /\ CallInv' /\ PartInv'
  BY <1>1, <1>2 DEF ReadInv, UpstreamInv, CallInv, PartInv
<1>4. GotInv'
  BY <1>1, <1>2 DEF ReadInv, GotInv, Wholly
<1>5. DoneInv'
  <2> SUFFICES ASSUME call.method \in Inventories
               PROVE  AllRead(StagesOf(call.method, call.got), call.got)
    BY <1>2 DEF DoneInv
  <2> QED BY <1>1, InventoryReads, PendingIs DEF ReadInv
<1> QED BY <1>3, <1>4, <1>5 DEF ReadInv

LEMMA AppearReads == ASSUME ReadInv, Appear PROVE ReadInv'
<1>1. UNCHANGED call
  BY DEF Appear
<1>2. PICK l \in DOMAIN Spare : \E n \in DOMAIN Spare[l] :
        lists' = [lists EXCEPT ![l] = @ \o FirstRows(Spare[l], n)]
  BY DEF Appear
<1>3. PICK n \in DOMAIN Spare[l] : lists' = [lists EXCEPT ![l] = @ \o FirstRows(Spare[l], n)]
  BY <1>2
<1>4. PICK new : new = FirstRows(Spare[l], n)
  OBVIOUS
<1>5. l \in DOMAIN First /\ new \in Seq(Upstream(l)) /\ lists[l] \in Seq(Upstream(l))
  <2>1. Spare[l] \in Seq(Upstream(l)) /\ l \in DOMAIN First
    BY UpstreamAssumption
  <2>2. new = SubSeq(Spare[l], 1, Least(n, Len(Spare[l])))
    BY <1>4 DEF FirstRows
  <2>3. Least(n, Len(Spare[l])) \in Int /\ Least(n, Len(Spare[l])) <= Len(Spare[l])
    BY <2>1 DEF Least
  <2>4. new \in Seq(Upstream(l))
    BY <2>1, <2>2, <2>3, SubSeqIs
  <2> QED BY <2>1, <2>4 DEF ReadInv, UpstreamInv
<1>6. /\ DOMAIN lists' = DOMAIN First /\ lists'[l] = lists[l] \o new
      /\ \A k \in DOMAIN First \ {l} : lists'[k] = lists[k]
  BY <1>3, <1>4, <1>5 DEF ReadInv, UpstreamInv
<1>7. PICK old, rows : old = lists[l] /\ rows = Upstream(l)
  OBVIOUS
<1>8. old \o new \in Seq(rows) /\ IdsOf(old) \subseteq IdsOf(old \o new)
  BY <1>5, <1>7, Appended
<1>9. UpstreamInv'
  BY <1>6, <1>7, <1>8 DEF ReadInv, UpstreamInv
<1>10. CallInv'
  <2>1. \A k \in DOMAIN First : IdsOf(lists[k]) \subseteq IdsOf(lists'[k])
    BY <1>6, <1>7, <1>8
  <2> QED BY <1>1, <2>1 DEF ReadInv, CallInv
<1>11. PartInv'
  <2> SUFFICES ASSUME call.pc = "reading", call.method \in Inventories, NEW k \in DOMAIN First
               PROVE  Partly(k, PartOf(k))'
    BY <1>1 DEF PartInv
  <2>1. PICK so : so = PartOf(k) /\ so = PartOf(k)'
    BY <1>1 DEF PartOf
  <2>2. Partly(k, so)
    BY <2>1 DEF ReadInv, PartInv
  <2>3. CASE k = l
    <3>1. k \notin call.removed => Reaches(old \o new, so)
      BY <1>5, <1>7, <2>2, <2>3, ReachesOn DEF Partly
    <3> QED BY <1>1, <1>6, <1>7, <2>1, <2>2, <2>3, <3>1 DEF Partly
  <2>4. CASE k # l
    BY <1>1, <1>6, <2>1, <2>2, <2>4 DEF Partly
  <2> QED BY <2>3, <2>4
<1>12. GotInv' /\ DoneInv'
  BY <1>1 DEF ReadInv, GotInv, DoneInv, Wholly
<1> QED BY <1>9, <1>10, <1>11, <1>12 DEF ReadInv

LEMMA VanishReads == ASSUME ReadInv, Vanish PROVE ReadInv'
<1>1. PICK l \in DOMAIN Spare : \E i \in DOMAIN lists[l] :
        /\ lists' = [lists EXCEPT ![l] = RemoveAt(@, i)]
        /\ call' = IF call.pc # "reading" THEN call
                   ELSE [call EXCEPT !.there[l] = @ \ {lists[l][i].id}, !.removed = @ \union {l}]
  BY DEF Vanish
<1>2. PICK i \in DOMAIN lists[l] :
        /\ lists' = [lists EXCEPT ![l] = RemoveAt(@, i)]
        /\ call' = IF call.pc # "reading" THEN call
                   ELSE [call EXCEPT !.there[l] = @ \ {lists[l][i].id}, !.removed = @ \union {l}]
  BY <1>1
<1>3. PICK old, rows, new : old = lists[l] /\ rows = Upstream(l) /\ new = RemoveAt(old, i)
  OBVIOUS
<1>4. l \in DOMAIN First /\ old \in Seq(rows)
  BY <1>3, UpstreamAssumption DEF ReadInv, UpstreamInv
<1>5. new \in Seq(rows) /\ IdsOf(old) \ {old[i].id} \subseteq IdsOf(new)
  BY <1>3, <1>4, Removed
<1>6. /\ DOMAIN lists' = DOMAIN First /\ lists'[l] = new
      /\ \A k \in DOMAIN First \ {l} : lists'[k] = lists[k]
  BY <1>2, <1>3, <1>4 DEF ReadInv, UpstreamInv
<1>7. UpstreamInv'
  BY <1>3, <1>5, <1>6 DEF ReadInv, UpstreamInv
<1>8. CASE call.pc # "reading"
  <2>1. UNCHANGED call
    BY <1>2, <1>8
  <2> QED BY <1>7, <1>8, <2>1 DEF ReadInv, CallInv, PartInv, GotInv, DoneInv, Wholly
<1>9. CASE call.pc = "reading"
  <2>1. call' = [call EXCEPT !.there[l] = @ \ {old[i].id}, !.removed = @ \union {l}]
    BY <1>2, <1>3, <1>9
  <2>2. /\ call'.pc = "reading" /\ call'.method = call.method /\ call'.got = call.got
        /\ call'.part = call.part /\ call'.removed = call.removed \union {l}
        /\ call'.there = [call.there EXCEPT ![l] = @ \ {old[i].id}]
    BY <1>9, <2>1 DEF ReadInv, CallInv
  <2>3. CallInv'
    <3>1. call' = [pc |-> call'.pc, method |-> call'.method, until |-> call'.until,
                   got |-> call'.got, part |-> call'.part, there |-> call'.there,
                   removed |-> call'.removed]
      BY <1>9, <2>1 DEF ReadInv, CallInv
    <3>2. DOMAIN call'.there = DOMAIN First
      BY <1>9, <2>2 DEF ReadInv, CallInv
    <3>3. ASSUME NEW k \in DOMAIN First PROVE call'.there[k] \subseteq IdsOf(lists'[k])
      <4>1. call.there[k] \subseteq IdsOf(lists[k]) /\ k \in DOMAIN call.there
        BY <1>9 DEF ReadInv, CallInv
      <4>2. CASE k = l
        BY <1>3, <1>5, <1>6, <2>2, <4>1, <4>2
      <4>3. CASE k # l
        BY <1>6, <2>2, <4>1, <4>3
      <4> QED BY <4>2, <4>3
    <3> QED BY <3>1, <3>2, <3>3 DEF CallInv
  <2>4. PartInv'
    <3> SUFFICES ASSUME call.method \in Inventories, NEW k \in DOMAIN First
                 PROVE  Partly(k, PartOf(k))'
      BY <2>2 DEF PartInv
    <3>1. PICK so : so = PartOf(k) /\ so = PartOf(k)'
      BY <2>2 DEF PartOf
    <3>2. Partly(k, so)
      BY <1>9, <3>1 DEF ReadInv, PartInv
    <3> QED BY <1>6, <2>2, <3>1, <3>2 DEF Partly
  <2>5. GotInv'
    <3> SUFFICES ASSUME call.method \in Inventories, NEW k \in DOMAIN call.got
                 PROVE  Wholly(k, call.got[k])'
      BY <2>2 DEF GotInv
    <3>1. Wholly(k, call.got[k])
      BY <1>9 DEF ReadInv, GotInv
    <3> QED BY <1>9, <2>2, <3>1 DEF Wholly, ReadInv, CallInv
  <2> QED BY <1>7, <2>2, <2>3, <2>4, <2>5 DEF ReadInv, DoneInv
<1> QED BY <1>8, <1>9

\* A page of an inventory ends its list only when it is not full.
LEMMA FetchReads == ASSUME ReadInv, Fetch PROVE ReadInv'
<1>1. call.pc = "reading" /\ UNCHANGED lists
  BY DEF Fetch
<1>2. PICK read \in Pending :
        \/ \E why : call' = Failed(call.method, why)
        \/ /\ read.list \in DOMAIN lists
           /\ \E rows \in {PageOf(read.list, PartOf(read.list).page, read.size)} :
                LET so == PartOf(read.list)
                    all == so.rows \o rows
                IN /\ ~Refused(read.how, so.page, rows)
                   /\ call' = IF Ended(read.how, so.page, rows)
                       THEN [call EXCEPT !.got =
                                           Put(@, read.list, [rows |-> all, total |-> Len(lists[read.list])]),
                                         !.part = Restrict(@, DOMAIN @ \ {read.list})]
                       ELSE [call EXCEPT !.part = Put(@, read.list,
                                                      [page |-> so.page + 1, rows |-> all])]
  BY Zenon DEF Fetch
<1>3. CASE \E why : call' = Failed(call.method, why)
  BY <1>1, <1>3, FailedReads DEF ReadInv
<1>4. CASE ~\E why : call' = Failed(call.method, why)
  <2>1. PICK list, so, rows, all :
          /\ list = read.list /\ so = PartOf(list) /\ rows = PageOf(list, so.page, read.size)
          /\ all = so.rows \o rows
    OBVIOUS
  <2>2. /\ list \in DOMAIN lists /\ ~Refused(read.how, so.page, rows)
        /\ call' = IF Ended(read.how, so.page, rows)
             THEN [call EXCEPT !.got = Put(@, list, [rows |-> all, total |-> Len(lists[list])]),
                               !.part = Restrict(@, DOMAIN @ \ {list})]
             ELSE [call EXCEPT !.part = Put(@, list, [page |-> so.page + 1, rows |-> all])]
    BY <1>2, <1>4, <2>1
  <2>3. list \in DOMAIN First
    BY <2>2 DEF ReadInv, UpstreamInv
  <2>4. /\ call'.pc = "reading" /\ call'.method = call.method /\ call'.there = call.there
        /\ call'.removed = call.removed
        /\ call' = [pc |-> call'.pc, method |-> call'.method, until |-> call'.until,
                    got |-> call'.got, part |-> call'.part, there |-> call'.there,
                    removed |-> call'.removed]
    BY <1>1, <2>2 DEF ReadInv, CallInv
  <2>5. UpstreamInv' /\ CallInv'
    BY <1>1, <2>4 DEF ReadInv, UpstreamInv, CallInv
  <2>6. CASE call.method \notin Inventories
    BY <2>4, <2>5, <2>6 DEF ReadInv, PartInv, GotInv, DoneInv
  <2>7. CASE call.method \in Inventories
    <3>1. ToTheEnd(read)
      <4>1. PICK stages : stages = StagesOf(call.method, call.got)
        OBVIOUS
      <4>2. /\ stages \in Seq(Range(stages))
            /\ \A st \in Range(stages) : \A r \in st : ToTheEnd(r)
        BY <1>1, <2>7, <4>1, InventoryReads DEF ReadInv
      <4> QED BY <4>1, <4>2, PendingIs
    <3>2. Partly(list, so) /\ lists[list] \in Seq(Upstream(list))
      BY <1>1, <2>1, <2>3, <2>7 DEF ReadInv, PartInv, UpstreamInv
    <3>3. rows = PageOf(list, so.page, PageSize) /\ read.how \in {"whole", "items"}
      BY <2>1, <3>1 DEF ToTheEnd
    <3>4. rows \in Seq(Upstream(list)) /\ all \in Seq(Upstream(list))
      BY <2>1, <3>2, <3>3, PageIs DEF Partly
    <3>5. Ended(read.how, so.page, rows) => Len(rows) < PageSize
      <4>1. PageSize \in Nat /\ Len(rows) \in Nat
        BY <3>4, SizesAssumption
      <4> QED BY <2>2, <3>3, <4>1 DEF Ended, Refused
    <3>6. ~Ended(read.how, so.page, rows) => Len(rows) >= PageSize
      <4>1. PageSize \in Nat /\ Len(rows) \in Nat
        BY <3>4, SizesAssumption
      <4> QED BY <3>3, <4>1 DEF Ended
    <3>7. /\ list \notin call.removed /\ Len(rows) < PageSize =>
               call.there[list] \subseteq IdsOf(all)
          /\ list \notin call.removed /\ Len(rows) >= PageSize =>
               Reaches(lists[list], [page |-> so.page + 1, rows |-> all])
      BY <1>1, <2>1, <2>3, <3>2, <3>3, NextPage DEF Partly, ReadInv, CallInv
    <3>8. CASE Ended(read.how, so.page, rows)
      <4>1. /\ call'.got = Put(call.got, list, [rows |-> all, total |-> Len(lists[list])])
            /\ call'.part = Restrict(call.part, DOMAIN call.part \ {list})
        BY <1>1, <2>2, <3>8 DEF ReadInv, CallInv
      <4>2. PartInv'
        <5> SUFFICES ASSUME NEW k \in DOMAIN First PROVE Partly(k, PartOf(k))'
          BY DEF PartInv
        <5>1. CASE k = list
          <6>1. PartOf(k)' = [page |-> 1, rows |-> <<>>]
            BY <4>1, <5>1 DEF PartOf, Restrict
          <6>2. Reaches(lists[k], [page |-> 1, rows |-> <<>>])
            <7>1. (1 - 1) * PageSize = 0
              BY SizesAssumption
            <7> QED BY <7>1 DEF Reaches, ReadInv, UpstreamInv
          <6> QED BY <1>1, <6>1, <6>2 DEF Partly
        <5>2. CASE k # list
          <6>1. PartOf(k)' = PartOf(k)
            BY <4>1, <5>2 DEF PartOf, Restrict
          <6>2. PICK old : old = PartOf(k) /\ Partly(k, old)
            BY <1>1, <2>7 DEF ReadInv, PartInv
          <6> QED BY <1>1, <2>4, <6>1, <6>2 DEF Partly
        <5> QED BY <5>1, <5>2
      <4>3. GotInv'
        <5> SUFFICES ASSUME NEW k \in DOMAIN call'.got PROVE Wholly(k, call.got[k])'
          BY DEF GotInv
        <5>1. CASE k = list
          <6>1. call'.got[k] = [rows |-> all, total |-> Len(lists[list])]
            BY <4>1, <5>1 DEF Put
          <6> QED BY <2>3, <2>4, <3>4, <3>5, <3>7, <3>8, <5>1, <6>1 DEF Wholly
        <5>2. CASE k # list
          <6>1. k \in DOMAIN call.got /\ call'.got[k] = call.got[k]
            BY <4>1, <5>2 DEF Put
          <6>2. Wholly(k, call.got[k])
            BY <1>1, <2>7, <6>1 DEF ReadInv, GotInv
          <6> QED BY <2>4, <6>1, <6>2 DEF Wholly
        <5> QED BY <5>1, <5>2
      <4> QED BY <2>4, <2>5, <4>2, <4>3 DEF ReadInv, DoneInv
    <3>9. CASE ~Ended(read.how, so.page, rows)
      <4>1. PICK next : next = [page |-> so.page + 1, rows |-> all]
        OBVIOUS
      <4>2. call'.got = call.got /\ call'.part = Put(call.part, list, next)
        BY <1>1, <2>2, <3>9, <4>1 DEF ReadInv, CallInv
      <4>3. PartInv'
        <5> SUFFICES ASSUME NEW k \in DOMAIN First PROVE Partly(k, PartOf(k))'
          BY DEF PartInv
        <5>1. CASE k = list
          <6>1. PartOf(k)' = next
            BY <4>2, <5>1 DEF PartOf, Put
          <6>2. next.page \in Nat \ {0} /\ next.rows = all
            BY <3>2, <4>1 DEF Partly
          <6> QED BY <1>1, <2>4, <3>4, <3>6, <3>7, <3>9, <4>1, <5>1, <6>1, <6>2 DEF Partly
        <5>2. CASE k # list
          <6>1. PartOf(k)' = PartOf(k)
            BY <4>2, <5>2 DEF PartOf, Put
          <6>2. PICK old : old = PartOf(k) /\ Partly(k, old)
            BY <1>1, <2>7 DEF ReadInv, PartInv
          <6> QED BY <1>1, <2>4, <6>1, <6>2 DEF Partly
        <5> QED BY <5>1, <5>2
      <4>4. GotInv'
        BY <1>1, <2>4, <4>2 DEF ReadInv, GotInv, Wholly
      <4> QED BY <2>4, <2>5, <4>3, <4>4 DEF ReadInv, DoneInv
    <3> QED BY <3>8, <3>9
  <2> QED BY <2>6, <2>7
<1> QED BY <1>3, <1>4

LEMMA NextReads == ReadInv /\ [Next]_vars => ReadInv'
<1> SUFFICES ASSUME ReadInv, [Next]_vars PROVE ReadInv'
  OBVIOUS
<1>1. ASSUME Trip PROVE ReadInv'
  <2>1. UNCHANGED lists /\ \E why : call' = Failed(call.method, why)
    BY <1>1 DEF Trip
  <2> QED BY <2>1, FailedReads DEF ReadInv
<1>2. ASSUME UNCHANGED <<lists, call>> PROVE ReadInv'
  BY <1>2 DEF ReadInv, UpstreamInv, CallInv, PartInv, GotInv, DoneInv, Partly, Wholly, PartOf
<1> QED BY <1>1, <1>2, StartReads, FetchReads, PublishReads, AppearReads, VanishReads
        DEF Next, Tick, vars

-----------------------------------------------------------------------------
(* What a finished call publishes.                                         *)

\* A list that was read, and lost nothing meanwhile, has what was there.
LEMMA ReadWhole ==
  ASSUME ReadInv, call.pc = "done", call.method \in Inventories, call.removed = {},
         NEW l \in DOMAIN call.got
  PROVE  /\ RowsOf(call.got, l) \in Seq(Upstream(l)) /\ l \in DOMAIN First
         /\ There(l) \subseteq IdsOf(RowsOf(call.got, l))
BY DEF ReadInv, GotInv, Wholly, RowsOf, There

LEMMA StatusWhole ==
  ASSUME ReadInv, Done("ci.status"), call.removed = {}
  PROVE  /\ \A r \in There(Runners) : \E e \in Executors(call.got) : e.id = r
         /\ \A g \in There(Groups) : \E p \in Pools(call.got) :
              /\ p.id = g /\ There(<<"members", g>>) \subseteq p.members
              /\ <<"access", g>> \in DOMAIN call.got =>
                   There(<<"access", g>>) \subseteq p.repositories
         /\ \A e \in Executors(call.got) : \A g \in There(Groups) :
              e.id \in There(<<"members", g>>) => e.pool # None /\ e.pool <= g
<1>1. PICK got : got = call.got
  OBVIOUS
<1>2. call.pc = "done" /\ call.method = "ci.status" /\ call.method \in Inventories
  BY DEF Done, Inventories
<1>3. RowsOf(got, Groups) \in Seq(Upstream(Groups))
  BY <1>1, <1>2 DEF ReadInv, GotInv, Wholly, RowsOf
<1>4. /\ Runners \in DOMAIN got /\ Groups \in DOMAIN got
      /\ \A g \in IdsOf(RowsOf(got, Groups)) : <<"members", g>> \in DOMAIN got
  <2>1. PICK stages : stages = StatusStages(got)
    OBVIOUS
  <2>2. AllRead(stages, got)
    BY <1>1, <1>2, <2>1 DEF ReadInv, DoneInv, StagesOf
  <2>3. /\ {Read(Runners, "whole")} \in Range(stages)
        /\ {Read(Groups, "whole")} \in Range(stages)
        /\ \A g \in IdsOf(RowsOf(got, Groups)) : {Read(<<"members", g>>, "whole")} \in Range(stages)
    BY <1>3, <2>1, StatusReads
  <2>4. \A l : {Read(l, "whole")} \in Range(stages) => l \in DOMAIN got
    BY <2>2 DEF AllRead, Read
  <2> QED BY <2>3, <2>4
<1>5. PICK runners, groups : runners = RowsOf(got, Runners) /\ groups = RowsOf(got, Groups)
  OBVIOUS
<1>6. /\ runners \in Seq(Upstream(Runners)) /\ Runners \in DOMAIN First
      /\ There(Runners) \subseteq IdsOf(runners)
  BY <1>1, <1>2, <1>4, <1>5, ReadWhole
<1>7. /\ groups \in Seq(Upstream(Groups)) /\ Groups \in DOMAIN First
      /\ There(Groups) \subseteq IdsOf(groups)
  BY <1>1, <1>2, <1>4, <1>5, ReadWhole
<1>8. ASSUME NEW g \in There(Groups)
      PROVE  There(<<"members", g>>) \subseteq IdsOf(RowsOf(got, <<"members", g>>))
  <2>1. <<"members", g>> \in DOMAIN got
    BY <1>4, <1>5, <1>7
  <2> QED BY <1>1, <1>2, <2>1, ReadWhole
<1>9. ASSUME NEW r \in There(Runners) PROVE \E e \in Executors(got) : e.id = r
  <2>1. PICK i \in DOMAIN runners : runners[i].id = r
    BY <1>6 DEF IdsOf
  <2>2. PICK x : x = runners[i] /\ x \in Range(runners) /\ x.id = r
    BY <2>1 DEF Range
  <2>3. PICK pool : pool = IF GroupIds(got, x) = {} THEN None ELSE Min(GroupIds(got, x))
    OBVIOUS
  <2>4. [id |-> x.id, pool |-> pool] \in Executors(got)
    BY <1>5, <2>2, <2>3 DEF Executors
  <2> QED BY <2>2, <2>4
<1>10. ASSUME NEW g \in There(Groups)
       PROVE  \E p \in Pools(got) :
                /\ p.id = g /\ There(<<"members", g>>) \subseteq p.members
                /\ <<"access", g>> \in DOMAIN got => There(<<"access", g>>) \subseteq p.repositories
  <2>1. PICK i \in DOMAIN groups : groups[i].id = g
    BY <1>7 DEF IdsOf
  <2>2. PICK x : x = groups[i] /\ x \in Range(groups) /\ x.id = g
    BY <2>1 DEF Range
  <2>3. PICK members, repositories :
          /\ members = IdsOf(RowsOf(got, <<"members", x.id>>)) \union
                       {r.id : r \in {y \in Range(RowsOf(got, Runners)) : y.at = x.id}}
          /\ repositories = IdsOf(RowsOf(got, <<"access", x.id>>))
    OBVIOUS
  <2>4. PICK p : p = [id |-> x.id, members |-> members, repositories |-> repositories]
    OBVIOUS
  <2>5. p \in Pools(got)
    BY <1>5, <2>2, <2>3, <2>4 DEF Pools
  <2>6. There(<<"members", g>>) \subseteq p.members
    BY <1>8, <2>2, <2>3, <2>4
  <2>7. <<"access", g>> \in DOMAIN got => There(<<"access", g>>) \subseteq p.repositories
    BY <1>1, <1>2, <2>2, <2>3, <2>4, ReadWhole
  <2> QED BY <2>2, <2>4, <2>5, <2>6, <2>7
<1>11. ASSUME NEW e \in Executors(got), NEW g \in There(Groups),
              e.id \in There(<<"members", g>>)
       PROVE  e.pool # None /\ e.pool <= g
  <2>1. PICK r \in Range(runners) :
          e = [id |-> r.id, pool |-> IF GroupIds(got, r) = {} THEN None ELSE Min(GroupIds(got, r))]
    BY <1>5 DEF Executors
  <2>2. PICK of : of = GroupIds(got, r)
    OBVIOUS
  <2>3. g \in of
    BY <1>5, <1>7, <1>8, <1>11, <2>1, <2>2 DEF GroupIds
  <2>4. of \subseteq Nat
    <3>1. IdsOf(groups) \subseteq Nat
      BY <1>7, UpstreamAssumption DEF IdsOf
    <3>2. {r.at} \ {None} \subseteq Nat
      <4>1. r \in Upstream(Runners)
        BY <1>6 DEF Range
      <4> QED BY <1>6, <4>1, UpstreamAssumption
    <3> QED BY <1>5, <2>2, <3>1, <3>2 DEF GroupIds
  <2>5. Min(of) \in of /\ \A k \in of : Min(of) <= k
    <3>1. \E m \in of : \A k \in of : m <= k
      BY <2>3, <2>4, LeastOf
    <3> QED BY <3>1 DEF Min
  <2>6. e.pool = Min(of)
    BY <2>1, <2>2, <2>3
  <2> QED BY <2>3, <2>4, <2>5, <2>6, UpstreamAssumption
<1> QED BY <1>1, <1>9, <1>10, <1>11

LEMMA WorkWhole ==
  ASSUME ReadInv, Done("work.items"), call.removed = {}, NEW r \in Range(ItemRepos)
  PROVE  There(<<"pulls", r>>) \subseteq ItemIds(call.got)
<1>1. call.pc = "done" /\ call.method = "work.items" /\ call.method \in Inventories
  BY DEF Done, Inventories
<1>2. AllRead(ItemStages, call.got)
  BY <1>1 DEF ReadInv, DoneInv, StagesOf
<1>3. <<"pulls", r>> \in DOMAIN call.got
  BY <1>2, ItemReads DEF AllRead, Read
<1>4. There(<<"pulls", r>>) \subseteq IdsOf(RowsOf(call.got, <<"pulls", r>>))
  BY <1>1, <1>3, ReadWhole
<1> QED BY <1>4 DEF ItemIds

\* BUILTIN_PLUGINS.md: every list is fully paginated.  Whatever is added
\* upstream while the pages are read, and however the rows fall on pages, an
\* inventory that is published has every runner, every group with its members
\* and its repositories, and every pull request that was there all through the
\* call, and a runner's pool is the least of the groups that list it, unless a
\* row was taken away meanwhile.
THEOREM PublishedWhole == Spec => []PublishedIsWhole
<1>1. ReadInv => PublishedIsWhole
  BY StatusWhole, WorkWhole DEF PublishedIsWhole
<1> QED BY <1>1, InitReads, NextReads, PTL DEF Spec

-----------------------------------------------------------------------------
(* The job history, repository by repository.                              *)

Repositories == Len(HistoryRepos)
RunsOf(k) == <<"runs", HistoryRepos[k]>>
Unspent == [budget |-> MaxRuns, complete |-> TRUE, stages |-> <<>>]
Histories(h, got, n) ==
  h = [k \in 0..n |-> IF k = 0 THEN Unspent ELSE HistoryRepo(got, h[k - 1], HistoryRepos[k])]

LEMMA HistoriesExist ==
  ASSUME NEW got, NEW n \in Nat
  PROVE  \E h : Histories(h, got, n)
<1> DEFINE S == {k \in Nat : \E h : Histories(h, got, k)}
<1>1. 0 \in S
  <2>1. PICK h : h = [k \in 0..0 |-> Unspent]
    OBVIOUS
  <2>2. Histories(h, got, 0)
    BY <2>1 DEF Histories
  <2> QED BY <2>2
<1>2. ASSUME NEW k \in S PROVE k + 1 \in S
  <2>1. PICK h : Histories(h, got, k)
    OBVIOUS
  <2>2. PICK g : g = [i \in 0..(k+1) |->
                        IF i = k + 1 THEN HistoryRepo(got, h[k], HistoryRepos[i]) ELSE h[i]]
    OBVIOUS
  <2>3. ASSUME NEW i \in 0..(k+1)
        PROVE  g[i] = IF i = 0 THEN Unspent ELSE HistoryRepo(got, g[i-1], HistoryRepos[i])
    <3>1. CASE i = k + 1
      <4>1. g[k] = h[k] /\ i - 1 = k /\ i # 0
        BY <2>2, <3>1
      <4> QED BY <2>2, <3>1, <4>1
    <3>2. CASE i # k + 1
      <4>1. i \in 0..k /\ g[i] = h[i]
        BY <2>2, <3>2
      <4>2. i # 0 => i - 1 \in 0..k /\ g[i-1] = h[i-1]
        BY <2>2, <4>1
      <4>3. h[i] = IF i = 0 THEN Unspent ELSE HistoryRepo(got, h[i-1], HistoryRepos[i])
        BY <2>1, <4>1 DEF Histories
      <4> QED BY <4>1, <4>2, <4>3
    <3> QED BY <3>1, <3>2
  <2>4. Histories(g, got, k+1)
    BY <2>2, <2>3 DEF Histories
  <2> QED BY <2>4
<1>3. S = Nat
  <2> HIDE DEF S
  <2>1. S \subseteq Nat
    BY DEF S
  <2> QED BY <1>1, <1>2, <2>1, SetInduction
<1> QED BY <1>3

LEMMA HistoriesAre ==
  ASSUME NEW got
  PROVE  /\ Repositories \in Nat /\ DOMAIN HistoryRepos = 1..Repositories
         /\ HistoriesOf(got)[0] = Unspent
         /\ \A k \in 1..Repositories :
              HistoriesOf(got)[k] = HistoryRepo(got, HistoriesOf(got)[k - 1], HistoryRepos[k])
<1>1. Repositories \in Nat /\ DOMAIN HistoryRepos = 1..Repositories
  BY SizesAssumption DEF Repositories
<1>2. PICK h : h = CHOOSE g : Histories(g, got, Repositories)
  OBVIOUS
<1>3. Histories(h, got, Repositories)
  BY <1>1, <1>2, HistoriesExist
<1>4. HistoriesOf(got) = h
  BY <1>2, Zenon DEF HistoriesOf, Histories, Repositories, Unspent
<1> QED BY <1>1, <1>3, <1>4 DEF Histories

\* What holds at first, and still holds after one more repository, holds of all.
LEMMA UpTo ==
  ASSUME NEW P, 0 \in P, \A k \in P : k \in Nat /\ k < Repositories => k + 1 \in P
  PROVE  0..Repositories \subseteq P
<1> DEFINE S == {k \in Nat : k <= Repositories => k \in P}
<1>0. Repositories \in Nat
  BY HistoriesAre
<1>1. 0 \in S /\ \A k \in S : k + 1 \in S
  BY <1>0
<1>2. S = Nat
  <2> HIDE DEF S
  <2>1. S \subseteq Nat
    BY DEF S
  <2> QED BY <1>1, <2>1, SetInduction
<1> QED BY <1>0, <1>2

\* Every row there may be, and the stages that a history is made of.
AnyRow == UNION {Upstream(l) : l \in DOMAIN First}
RunStages == {{Once(<<"runs", r>>, n)} : r \in Range(HistoryRepos), n \in Nat}
JobStages == {{Once(<<"jobs", x.id>>, PageSize)} : x \in AnyRow}
Accounts(acc) ==
  /\ acc = [budget |-> acc.budget, complete |-> acc.complete, stages |-> acc.stages]
  /\ acc.budget \in Nat /\ acc.stages \in Seq(RunStages \union JobStages)

\* What one repository adds while the budget lasts.
Thrice(a, b, c) == a \o <<b>> \o c
Adds(got, k, acc, next, runs, jobs) ==
  /\ runs = FirstRows(RowsOf(got, RunsOf(k)), acc.budget)
  /\ jobs \in Seq(JobStages) /\ DOMAIN jobs = DOMAIN runs
  /\ \A i \in DOMAIN runs : jobs[i] = {Once(<<"jobs", runs[i].id>>, PageSize)}
  /\ next.stages = Thrice(acc.stages, {Once(RunsOf(k), Least(PageSize, acc.budget))}, jobs)
  /\ next.complete =>
       (RunsOf(k) \in DOMAIN got => got[RunsOf(k)].total <= Len(RowsOf(got, RunsOf(k))))
Follows(got, k, acc, next) ==
  /\ Accounts(next) /\ next.budget <= acc.budget
  /\ next.complete => acc.complete /\ acc.budget > 0
  /\ acc.budget = 0 => next.stages = acc.stages
  /\ acc.budget > 0 =>
       /\ {Once(RunsOf(k), Least(PageSize, acc.budget))} \in RunStages
       /\ \E runs, jobs : Adds(got, k, acc, next, runs, jobs)
LEMMA OneMore ==
  ASSUME NEW got, NEW k \in 1..Repositories, RowsOf(got, RunsOf(k)) \in Seq(AnyRow),
         NEW acc, Accounts(acc), NEW next, next = HistoryRepo(got, acc, HistoryRepos[k])
  PROVE  Follows(got, k, acc, next)
<1>1. acc.budget \in Nat /\ acc.stages \in Seq(RunStages \union JobStages)
  BY DEF Accounts
<1>2. CASE acc.budget <= 0
  <2>1. next = [acc EXCEPT !.complete = FALSE]
    BY <1>2 DEF HistoryRepo
  <2>2. next.complete = FALSE /\ next.budget = acc.budget /\ next.stages = acc.stages
        /\ next = [budget |-> acc.budget, complete |-> FALSE, stages |-> acc.stages]
    BY <2>1 DEF Accounts
  <2> QED BY <1>1, <1>2, <2>2 DEF Accounts, Follows
<1>3. CASE acc.budget > 0
  <2>1. PICK rows, runs, jobs, first, total :
          /\ rows = RowsOf(got, RunsOf(k)) /\ runs = FirstRows(rows, acc.budget)
          /\ jobs = [i \in DOMAIN runs |-> {Once(<<"jobs", runs[i].id>>, PageSize)}]
          /\ first = <<{Once(RunsOf(k), Least(PageSize, acc.budget))}>>
          /\ total = IF RunsOf(k) \in DOMAIN got THEN got[RunsOf(k)].total ELSE 0
    OBVIOUS
  <2>2. next = [budget |-> acc.budget - Len(runs),
                complete |-> acc.complete /\ total <= Len(rows),
                stages |-> acc.stages \o first \o jobs]
    BY <1>1, <1>3, <2>1 DEF HistoryRepo, RunsOf
  <2>3. runs \in Seq(AnyRow) /\ Len(runs) \in Nat /\ Len(runs) <= acc.budget
    <3>1. runs = SubSeq(rows, 1, Least(acc.budget, Len(rows))) /\ rows \in Seq(AnyRow)
      BY <2>1 DEF FirstRows
    <3>2. PICK n : n = Least(acc.budget, Len(rows))
      OBVIOUS
    <3>3. n \in Nat /\ n <= Len(rows) /\ n <= acc.budget
      BY <1>1, <3>1, <3>2 DEF Least
    <3>4. runs \in Seq(AnyRow) /\ Len(runs) = IF 1 <= n THEN n - 1 + 1 ELSE 0
      BY <3>1, <3>2, <3>3, SubSeqIs
    <3> QED BY <1>1, <3>3, <3>4
  <2>4. jobs \in Seq(JobStages)
    <3>1. \A i \in 1..Len(runs) : runs[i] \in AnyRow
      BY <2>3
    <3>2. ASSUME NEW i \in 1..Len(runs) PROVE jobs[i] \in JobStages
      <4>1. PICK x \in AnyRow : x = runs[i]
        BY <3>1
      <4>2. jobs[i] = {Once(<<"jobs", x.id>>, PageSize)}
        <5>1. i \in DOMAIN runs
          BY <2>3
        <5> QED BY <2>1, <4>1, <5>1
      <4> QED BY <4>2 DEF JobStages
    <3>3. jobs = [i \in 1..Len(runs) |-> jobs[i]]
      BY <2>1, <2>3
    <3> QED BY <2>3, <3>2, <3>3
  <2>5. {Once(RunsOf(k), Least(PageSize, acc.budget))} \in RunStages
    <3>1. Least(PageSize, acc.budget) \in Nat
      BY <1>1, SizesAssumption DEF Least
    <3>2. HistoryRepos[k] \in Range(HistoryRepos)
      BY HistoriesAre DEF Range
    <3>3. PICK r, n : r = HistoryRepos[k] /\ n = Least(PageSize, acc.budget)
      OBVIOUS
    <3>4. {Once(<<"runs", r>>, n)} \in RunStages
      BY <3>1, <3>2, <3>3 DEF RunStages
    <3>5. {Once(RunsOf(k), Least(PageSize, acc.budget))} = {Once(<<"runs", r>>, n)}
      BY <3>3 DEF RunsOf
    <3> QED BY <3>4, <3>5
  <2>6. acc.stages \o first \o jobs \in Seq(RunStages \union JobStages)
    <3>1. first \in Seq(RunStages)
      BY <2>1, <2>5
    <3> QED BY <1>1, <2>4, <3>1
  <2>7. /\ next.budget = acc.budget - Len(runs) /\ next.stages = acc.stages \o first \o jobs
        /\ next.complete = (acc.complete /\ total <= Len(rows))
        /\ next = [budget |-> next.budget, complete |-> next.complete, stages |-> next.stages]
    BY <2>2
  <2>8. Accounts(next) /\ next.budget <= acc.budget
    BY <1>1, <2>3, <2>6, <2>7 DEF Accounts
  <2>9. next.complete => acc.complete /\ (RunsOf(k) \in DOMAIN got
                          => got[RunsOf(k)].total <= Len(rows))
    BY <2>1, <2>7
  <2>10. Adds(got, k, acc, next, runs, jobs)
    BY <2>1, <2>4, <2>7, <2>9 DEF Adds, Thrice
  <2>11. ~(acc.budget = 0) /\ (next.complete => acc.complete)
    BY <1>3, <2>9
  <2> QED BY <1>3, <2>5, <2>8, <2>10, <2>11 DEF Follows
<1>4. acc.budget <= 0 \/ acc.budget > 0
  BY <1>1
<1> QED BY <1>2, <1>3, <1>4, Zenon

LEMMA ThreeParts ==
  ASSUME NEW S, NEW a \in Seq(S), NEW b \in S, NEW c \in Seq(S), NEW s, s = Thrice(a, b, c)
  PROVE  /\ Range(s) = Range(a) \union {b} \union Range(c)
         /\ Len(a) \in Nat /\ Len(a) + 1 \in DOMAIN s /\ s[Len(a) + 1] = b
         /\ \A i \in 1..Len(a) : s[i] = a[i] /\ i \in DOMAIN s
         /\ \A i \in DOMAIN s : i \in Nat \ {0} /\ (i > Len(a) + 1 => s[i] \in Range(c))
<1>1. PICK t : t = a \o <<b>>
  OBVIOUS
<1>2. t \in Seq(S) /\ Range(t) = Range(a) \union {b}
  <2>1. PICK u : u = <<b>>
    OBVIOUS
  <2>2. u \in Seq(S) /\ Range(u) = {b} /\ t = a \o u
    BY <1>1, <2>1, OneOrTwo
  <2>3. t \in Seq(S) /\ Range(t) = Range(a) \union Range(u)
    BY <2>2, ConcatRange
  <2> QED BY <2>2, <2>3
<1>3. s = t \o c
  BY <1>1 DEF Thrice
<1>4. Range(s) = Range(a) \union {b} \union Range(c)
  <2>1. Range(s) = Range(t) \union Range(c)
    BY <1>2, <1>3, ConcatRange
  <2> QED BY <1>2, <2>1
<1>5. /\ Len(t) = Len(a) + 1 /\ t[Len(a) + 1] = b /\ Len(a) \in Nat /\ Len(c) \in Nat
      /\ \A i \in 1..Len(a) : t[i] = a[i]
  BY <1>1
<1>6. /\ DOMAIN s = 1..(Len(t) + Len(c))
      /\ \A i \in 1..(Len(t) + Len(c)) : s[i] = IF i <= Len(t) THEN t[i] ELSE c[i - Len(t)]
  BY <1>2, <1>3
<1>7. Len(a) + 1 \in DOMAIN s /\ s[Len(a) + 1] = b
  BY <1>5, <1>6
<1>8. \A i \in 1..Len(a) : s[i] = a[i] /\ i \in DOMAIN s
  BY <1>5, <1>6
<1>9. ASSUME NEW i \in DOMAIN s, i > Len(a) + 1 PROVE s[i] \in Range(c)
  <2>1. s[i] = c[i - Len(t)] /\ i - Len(t) \in 1..Len(c)
    BY <1>5, <1>6, <1>9
  <2>2. DOMAIN c = 1..Len(c)
    OBVIOUS
  <2> QED BY <2>1, <2>2 DEF Range
<1>10. \A i \in DOMAIN s : i \in Nat \ {0}
  BY <1>5, <1>6
<1> QED BY <1>4, <1>5, <1>7, <1>8, <1>9, <1>10

GotRows(got) == \A k \in 1..Repositories : RowsOf(got, RunsOf(k)) \in Seq(AnyRow)

LEMMA AccountsAre ==
  ASSUME NEW got, GotRows(got)
  PROVE  \A k \in 0..Repositories : Accounts(HistoriesOf(got)[k])
<1> DEFINE P == {k \in 0..Repositories : Accounts(HistoriesOf(got)[k])}
<1>0. Repositories \in Nat
  BY HistoriesAre
<1>1. 0 \in P
  <2>1. Accounts(Unspent)
    BY SizesAssumption DEF Accounts, Unspent
  <2> QED BY <1>0, <2>1, HistoriesAre
<1>2. ASSUME NEW k \in P, k \in Nat, k < Repositories PROVE k + 1 \in P
  <2>1. PICK n, acc, next : /\ n = k + 1 /\ acc = HistoriesOf(got)[k]
                            /\ next = HistoriesOf(got)[n]
    OBVIOUS
  <2>2. n \in 1..Repositories /\ n - 1 = k
    BY <1>0, <1>2, <2>1
  <2>3. next = HistoryRepo(got, acc, HistoryRepos[n])
    BY <2>1, <2>2, HistoriesAre
  <2>4. Accounts(acc) /\ RowsOf(got, RunsOf(n)) \in Seq(AnyRow)
    BY <2>1, <2>2 DEF GotRows
  <2>5. Accounts(next)
    BY <2>2, <2>3, <2>4, OneMore DEF Follows
  <2> QED BY <1>0, <1>2, <2>1, <2>2, <2>5
<1>3. 0..Repositories \subseteq P
  <2> HIDE DEF P
  <2> QED BY <1>1, <1>2, UpTo
<1> QED BY <1>3

\* One repository, as a step from what was known before it.
LEMMA NthMore ==
  ASSUME NEW got, GotRows(got), NEW k \in Nat, k < Repositories,
         NEW n, n = k + 1, NEW acc, acc = HistoriesOf(got)[k], NEW next, next = HistoriesOf(got)[n]
  PROVE  /\ n \in 1..Repositories /\ n - 1 = k /\ k \in 0..Repositories
         /\ Accounts(acc) /\ RowsOf(got, RunsOf(n)) \in Seq(AnyRow)
         /\ next = HistoryRepo(got, acc, HistoryRepos[n])
         /\ Follows(got, n, acc, next)
<1>0. Repositories \in Nat
  BY HistoriesAre
<1>1. n \in 1..Repositories /\ n - 1 = k /\ k \in 0..Repositories
  BY <1>0
<1>2. Accounts(acc) /\ RowsOf(got, RunsOf(n)) \in Seq(AnyRow)
  BY <1>1, AccountsAre DEF GotRows
<1>3. next = HistoryRepo(got, acc, HistoryRepos[n])
  BY <1>1, HistoriesAre
<1>4. Follows(got, n, acc, next)
  BY <1>1, <1>2, <1>3, OneMore
<1> QED BY <1>1, <1>2, <1>3, <1>4

\* The budget depends on the runs read of the repositories before.
LEMMA SameBudget ==
  ASSUME NEW got, NEW other, GotRows(got), GotRows(other), NEW m \in 0..Repositories,
         \A j \in 1..m : RowsOf(got, RunsOf(j)) = RowsOf(other, RunsOf(j))
  PROVE  HistoriesOf(got)[m].budget = HistoriesOf(other)[m].budget
<1> DEFINE P == {k \in 0..Repositories :
                   k <= m => HistoriesOf(got)[k].budget = HistoriesOf(other)[k].budget}
<1>0. Repositories \in Nat
  BY HistoriesAre
<1>1. 0 \in P
  BY <1>0, HistoriesAre
<1>2. ASSUME NEW k \in P, k \in Nat, k < Repositories PROVE k + 1 \in P
  <2>1. PICK n, a, b, na, nb :
          /\ n = k + 1 /\ a = HistoriesOf(got)[k] /\ b = HistoriesOf(other)[k]
          /\ na = HistoriesOf(got)[n] /\ nb = HistoriesOf(other)[n]
    OBVIOUS
  <2>2. /\ n \in 1..Repositories /\ Accounts(a) /\ Accounts(b)
        /\ RowsOf(got, RunsOf(n)) \in Seq(AnyRow) /\ RowsOf(other, RunsOf(n)) \in Seq(AnyRow)
        /\ na = HistoryRepo(got, a, HistoryRepos[n]) /\ nb = HistoryRepo(other, b, HistoryRepos[n])
    BY <1>2, <2>1, NthMore
  <2>3. ASSUME n <= m PROVE na.budget = nb.budget
    <3>1. a.budget = b.budget
      BY <1>0, <1>2, <2>1, <2>3
    <3>2. RowsOf(got, RunsOf(n)) = RowsOf(other, RunsOf(n))
      BY <1>0, <2>2, <2>3
    <3>3. a.budget \in Nat
      BY <2>2 DEF Accounts
    <3>4. CASE a.budget <= 0
      BY <2>2, <3>1, <3>4 DEF HistoryRepo, Accounts
    <3>5. CASE a.budget > 0
      <4>1. na.budget = a.budget - Len(FirstRows(RowsOf(got, RunsOf(n)), a.budget))
        BY <2>2, <3>3, <3>5 DEF HistoryRepo, RunsOf
      <4>2. nb.budget = b.budget - Len(FirstRows(RowsOf(other, RunsOf(n)), b.budget))
        BY <2>2, <3>1, <3>3, <3>5 DEF HistoryRepo, RunsOf
      <4> QED BY <3>1, <3>2, <4>1, <4>2
    <3> QED BY <3>3, <3>4, <3>5
  <2>4. n \in 0..Repositories
    BY <1>0, <2>2
  <2>5. n \in P
    BY <2>1, <2>3, <2>4
  <2> QED BY <2>1, <2>5
<1>3. 0..Repositories \subseteq P
  <2> HIDE DEF P
  <2> QED BY <1>1, <1>2, UpTo
<1> QED BY <1>0, <1>3

\* A repository's runs are asked for when those of the ones before are known,
\* and no more of them than the budget has left.
Turn(got, read) ==
  \A m \in 1..Repositories : read.list = RunsOf(m) =>
    /\ read.size <= HistoriesOf(got)[m - 1].budget
    /\ \A j \in 1..(m - 1) : RunsOf(j) \in DOMAIN got
InTurn(got, stages) ==
  \A i \in DOMAIN stages :
    (\A q \in 1..(i - 1) : \A read \in stages[q] : read.list \in DOMAIN got)
      => \A read \in stages[i] : Turn(got, read)
KnownTo(got, k) == \A j \in 1..k : RunsOf(j) \in DOMAIN got

LEMMA OneInTurn ==
  ASSUME NEW got, GotRows(got), NEW k \in Nat, k < Repositories,
         NEW n, n = k + 1, NEW acc, acc = HistoriesOf(got)[k], NEW next, next = HistoriesOf(got)[n],
         acc.budget > 0 /\ AllRead(acc.stages, got) => KnownTo(got, k), InTurn(got, acc.stages)
  PROVE  /\ next.budget > 0 /\ AllRead(next.stages, got) => KnownTo(got, n)
         /\ InTurn(got, next.stages)
<1>1. /\ n \in 1..Repositories /\ n - 1 = k /\ k \in 0..Repositories
      /\ Accounts(acc) /\ RowsOf(got, RunsOf(n)) \in Seq(AnyRow)
      /\ next = HistoryRepo(got, acc, HistoryRepos[n])
      /\ Follows(got, n, acc, next)
  BY NthMore
<1>2. /\ Accounts(next)
      /\ next.budget <= acc.budget
      /\ acc.budget = 0 => next.stages = acc.stages
      /\ acc.budget > 0 =>
           /\ {Once(RunsOf(n), Least(PageSize, acc.budget))} \in RunStages
           /\ \E runs, jobs : Adds(got, n, acc, next, runs, jobs)
  BY <1>1 DEF Follows
<1>3. acc.budget \in Nat /\ next.budget \in Nat
  BY <1>1, <1>2 DEF Accounts
<1>4. CASE acc.budget = 0
  BY <1>2, <1>3, <1>4
<1>5. CASE acc.budget > 0
  <2>1. PICK jobs, mine, T :
          /\ mine = {Once(RunsOf(n), Least(PageSize, acc.budget))} /\ T = RunStages \union JobStages
          /\ \E runs : Adds(got, n, acc, next, runs, jobs)
    BY <1>2, <1>5
  <2>2. /\ mine \in RunStages /\ jobs \in Seq(JobStages)
        /\ next.stages = Thrice(acc.stages, mine, jobs)
    BY <1>2, <1>5, <2>1 DEF Adds
  <2>3. acc.stages \in Seq(T) /\ mine \in T /\ jobs \in Seq(T)
    BY <1>1, <2>1, <2>2 DEF Accounts
  <2>4. PICK stages, old : /\ stages = next.stages /\ old = acc.stages
                           /\ stages = Thrice(old, mine, jobs) /\ old \in Seq(T)
    BY <2>2, <2>3
  <2>5. /\ Range(stages) = Range(old) \union {mine} \union Range(jobs)
        /\ Len(old) \in Nat /\ Len(old) + 1 \in DOMAIN stages /\ stages[Len(old) + 1] = mine
        /\ \A i \in 1..Len(old) : stages[i] = old[i] /\ i \in DOMAIN stages
        /\ \A i \in DOMAIN stages :
             i \in Nat \ {0} /\ (i > Len(old) + 1 => stages[i] \in Range(jobs))
    BY <2>3, <2>4, ThreeParts
  <2>6. Range(jobs) \subseteq JobStages /\ DOMAIN old = 1..Len(old)
    BY <2>2, <2>4 DEF Range
  <2>7. \A read \in mine : read.list = RunsOf(n) /\ read.size <= acc.budget
    <3>1. Least(PageSize, acc.budget) <= acc.budget
      BY <1>3, SizesAssumption DEF Least
    <3> QED BY <2>1, <3>1 DEF Once
  <2>8. ASSUME AllRead(stages, got) PROVE KnownTo(got, n)
    <3>1. AllRead(old, got) /\ \A read \in mine : read.list \in DOMAIN got
      BY <2>5, <2>8 DEF AllRead
    <3>2. KnownTo(got, k)
      BY <1>5, <2>4, <3>1
    <3>3. RunsOf(n) \in DOMAIN got
      BY <2>1, <2>7, <3>1
    <3>4. 1..n = 1..k \union {n}
      BY <1>1
    <3> QED BY <3>2, <3>3, <3>4 DEF KnownTo
  <2>9. ASSUME NEW i \in DOMAIN stages, NEW read \in stages[i],
               \A q \in 1..(i - 1) : \A other \in stages[q] : other.list \in DOMAIN got
        PROVE  Turn(got, read)
    <3>1. CASE i <= Len(old)
      <4>1. i \in DOMAIN old /\ read \in old[i]
        BY <2>5, <2>6, <2>9, <3>1
      <4>2. \A q \in 1..(i - 1) : \A other \in old[q] : other.list \in DOMAIN got
        <5>1. \A q \in 1..(i - 1) : stages[q] = old[q]
          BY <2>5, <3>1
        <5> QED BY <2>9, <5>1
      <4> QED BY <2>4, <4>1, <4>2 DEF InTurn
    <3>2. CASE i = Len(old) + 1
      <4>1. AllRead(old, got)
        <5>1. \A q \in 1..Len(old) : \A other \in old[q] : other.list \in DOMAIN got
          <6>1. i - 1 = Len(old)
            BY <2>5, <3>2
          <6> QED BY <2>5, <2>9, <6>1
        <5> QED BY <2>6, <5>1 DEF AllRead, Range
      <4>2. KnownTo(got, k)
        BY <1>5, <2>4, <4>1
      <4>3. read \in mine
        BY <2>5, <2>9, <3>2
      <4>4. ASSUME NEW m \in 1..Repositories, read.list = RunsOf(m) PROVE m = n
        <5>1. HistoryRepos[m] = HistoryRepos[n]
          BY <2>7, <4>3, <4>4 DEF RunsOf
        <5>2. m \in DOMAIN HistoryRepos /\ n \in DOMAIN HistoryRepos
          BY <1>1, HistoriesAre
        <5> QED BY <5>1, <5>2, SizesAssumption DEF IsInjective
      <4> QED BY <1>1, <2>7, <4>2, <4>3, <4>4 DEF Turn, KnownTo
    <3>3. CASE i > Len(old) + 1
      <4>1. stages[i] \in JobStages
        BY <2>5, <2>6, <3>3
      <4>2. \A m : read.list # RunsOf(m)
        BY <2>9, <4>1 DEF JobStages, Once, RunsOf
      <4> QED BY <4>2 DEF Turn
    <3> QED BY <2>5, <3>1, <3>2, <3>3
  <2>10. InTurn(got, stages)
    BY <2>9 DEF InTurn
  <2> QED BY <2>4, <2>8, <2>10
<1> QED BY <1>3, <1>4, <1>5

LEMMA Ordered ==
  ASSUME NEW got, GotRows(got)
  PROVE  InTurn(got, HistoryOf(got).stages)
<1> DEFINE H(k) == HistoriesOf(got)[k]
           P == {k \in 0..Repositories :
                   /\ H(k).budget > 0 /\ AllRead(H(k).stages, got) => KnownTo(got, k)
                   /\ InTurn(got, H(k).stages)}
<1>0. Repositories \in Nat
  BY HistoriesAre
<1>1. 0 \in P
  <2>1. H(0) = Unspent
    BY HistoriesAre
  <2>2. KnownTo(got, 0) /\ InTurn(got, Unspent.stages)
    BY DEF KnownTo, InTurn, Unspent
  <2> QED BY <1>0, <2>1, <2>2
<1>2. ASSUME NEW k \in P, k \in Nat, k < Repositories PROVE k + 1 \in P
  <2>1. PICK n, acc, next : /\ n = k + 1 /\ acc = HistoriesOf(got)[k]
                            /\ next = HistoriesOf(got)[n]
    OBVIOUS
  <2>2. /\ next.budget > 0 /\ AllRead(next.stages, got) => KnownTo(got, n)
        /\ InTurn(got, next.stages)
    <3>1. /\ acc.budget > 0 /\ AllRead(acc.stages, got) => KnownTo(got, k)
          /\ InTurn(got, acc.stages)
      BY <1>2, <2>1
    <3> QED BY <1>2, <2>1, <3>1, OneInTurn
  <2>3. n \in 0..Repositories
    BY <1>0, <1>2, <2>1
  <2>4. n \in P
    BY <2>1, <2>2, <2>3
  <2> QED BY <2>1, <2>4
<1>3. 0..Repositories \subseteq P
  <2> HIDE DEF P
  <2> QED BY <1>1, <1>2, UpTo
<1> QED BY <1>0, <1>3 DEF HistoryOf, Repositories

\* What a repository of a complete history has had read.
Examined(got, k) ==
  LET runs == FirstRows(RowsOf(got, RunsOf(k)), HistoriesOf(got)[k - 1].budget)
  IN /\ RunsOf(k) \in DOMAIN got
     /\ got[RunsOf(k)].total <= Len(RowsOf(got, RunsOf(k)))
     /\ \A i \in DOMAIN runs : <<"jobs", runs[i].id>> \in DOMAIN got

LEMMA Finished ==
  ASSUME NEW got, GotRows(got), HistoryOf(got).complete, AllRead(HistoryOf(got).stages, got)
  PROVE  \A k \in 1..Repositories : Examined(got, k)
<1> DEFINE H(k) == HistoriesOf(got)[k]
           P == {k \in 0..Repositories :
                   H(k).complete /\ AllRead(H(k).stages, got) => \A j \in 1..k : Examined(got, j)}
<1>0. Repositories \in Nat
  BY HistoriesAre
<1>1. 0 \in P
  BY <1>0
<1>2. ASSUME NEW k \in P, k \in Nat, k < Repositories PROVE k + 1 \in P
  <2>1. PICK n, acc, next : /\ n = k + 1 /\ acc = HistoriesOf(got)[k]
                            /\ next = HistoriesOf(got)[n]
    OBVIOUS
  <2>2. /\ n \in 1..Repositories /\ n - 1 = k /\ k \in 0..Repositories
        /\ Accounts(acc) /\ RowsOf(got, RunsOf(n)) \in Seq(AnyRow)
        /\ next = HistoryRepo(got, acc, HistoryRepos[n])
    BY <1>2, <2>1, NthMore
  <2>3. ASSUME next.complete, AllRead(next.stages, got)
        PROVE  \A j \in 1..n : Examined(got, j)
    <3>1. acc.complete /\ acc.budget > 0
      BY <2>2, <2>3, OneMore DEF Follows
    <3>2. PICK runs, jobs : Adds(got, n, acc, next, runs, jobs)
      BY <2>2, <3>1, OneMore DEF Follows
    <3>3. PICK mine, T, old, stages :
            /\ mine = {Once(RunsOf(n), Least(PageSize, acc.budget))}
            /\ T = RunStages \union JobStages
            /\ old = acc.stages /\ stages = next.stages
      OBVIOUS
    <3>4. mine \in T
      BY <2>2, <3>1, <3>3, OneMore DEF Follows
    <3>5. old \in Seq(T) /\ jobs \in Seq(T) /\ stages = Thrice(old, mine, jobs)
      BY <2>2, <3>2, <3>3 DEF Accounts, Adds
    <3>6. Range(stages) = Range(old) \union {mine} \union Range(jobs)
      BY <3>4, <3>5, ThreeParts
    <3>7. AllRead(old, got) /\ \A read \in mine : read.list \in DOMAIN got
      BY <2>3, <3>3, <3>6 DEF AllRead
    <3>8. RunsOf(n) \in DOMAIN got
      BY <3>3, <3>7 DEF Once
    <3>9. \A i \in DOMAIN runs : <<"jobs", runs[i].id>> \in DOMAIN got
      <4>1. ASSUME NEW i \in DOMAIN runs PROVE <<"jobs", runs[i].id>> \in DOMAIN got
        <5>1. PICK jobsOf : jobsOf = {Once(<<"jobs", runs[i].id>>, PageSize)}
          OBVIOUS
        <5>2. jobsOf \in Range(stages)
          BY <3>2, <3>6, <5>1 DEF Range, Adds
        <5>3. \A read \in jobsOf : read.list \in DOMAIN got
          BY <2>3, <3>3, <5>2 DEF AllRead
        <5> QED BY <5>1, <5>3 DEF Once
      <4> QED BY <4>1
    <3>10. Examined(got, n)
      BY <2>1, <2>2, <2>3, <3>2, <3>8, <3>9 DEF Examined, Adds
    <3>11. \A j \in 1..k : Examined(got, j)
      BY <1>2, <2>1, <3>1, <3>3, <3>7
    <3>12. 1..n = 1..k \union {n}
      BY <2>2
    <3> QED BY <3>10, <3>11, <3>12
  <2>4. n \in 0..Repositories
    BY <1>0, <2>2
  <2>5. n \in P
    BY <2>1, <2>3, <2>4
  <2> QED BY <2>1, <2>5
<1>3. 0..Repositories \subseteq P
  <2> HIDE DEF P
  <2> QED BY <1>1, <1>2, UpTo
<1> QED BY <1>0, <1>3 DEF HistoryOf, Repositories

-----------------------------------------------------------------------------
(* The stages of ci.pipelines.                                             *)

LEMMA FirstRowsAre ==
  ASSUME NEW S, NEW s \in Seq(S), NEW n \in Nat
  PROVE  /\ FirstRows(s, n) \in Seq(S) /\ Len(FirstRows(s, n)) <= n
         /\ Len(s) <= n => FirstRows(s, n) = s
<1>1. PICK m, t : m = Least(n, Len(s)) /\ t = FirstRows(s, n)
  OBVIOUS
<1>2. t = SubSeq(s, 1, m)
  BY <1>1 DEF FirstRows
<1>3. m \in Nat /\ m <= Len(s) /\ m <= n /\ (Len(s) <= n => m = Len(s))
  BY <1>1 DEF Least
<1>4. t \in Seq(S) /\ Len(t) = m /\ \A i \in 1..Len(t) : t[i] = s[1 + i - 1]
  BY <1>2, <1>3, SubSeqIs
<1>5. ASSUME Len(s) <= n PROVE t = s
  <2>1. Len(t) = Len(s)
    BY <1>3, <1>4, <1>5
  <2>2. \A i \in 1..Len(s) : t[i] = s[i]
    BY <1>4, <2>1
  <2> QED BY <1>4, <2>1, <2>2
<1> QED BY <1>1, <1>3, <1>4, <1>5

LEMMA IdsInRange ==
  ASSUME NEW s, NEW t, Range(s) \subseteq Range(t)
  PROVE  IdsOf(s) \subseteq IdsOf(t)
<1>1. ASSUME NEW i \in DOMAIN s PROVE \E j \in DOMAIN t : t[j] = s[i]
  BY DEF Range
<1> QED BY <1>1 DEF IdsOf

GotAny(got) == \A l : RowsOf(got, l) \in Seq(AnyRow)

LEMMA SelectedAre ==
  ASSUME NEW got, GotAny(got)
  PROVE  /\ Selected(got) \in Seq(AnyRow)
         /\ /\ Len(RowsOf(got, Repos)) <= MaxSelectorRepos
            /\ \A r \in IdsOf(RowsOf(got, Repos)) :
                 Len(RowsOf(got, <<"workflows", r>>)) <= MaxWorkflows
            => \A r \in IdsOf(RowsOf(got, Repos)) :
                 IdsOf(RowsOf(got, <<"workflows", r>>)) \subseteq IdsOf(Selected(got))
<1>1. PICK all, repos, parts :
        /\ all = RowsOf(got, Repos) /\ repos = FirstRows(all, MaxSelectorRepos)
        /\ parts = [i \in DOMAIN repos |->
                      FirstRows(RowsOf(got, <<"workflows", repos[i].id>>), MaxWorkflows)]
  OBVIOUS
<1>2. Selected(got) = FlattenSeq(parts)
  BY <1>1 DEF Selected, ForEach
<1>3. MaxSelectorRepos \in Nat /\ MaxWorkflows \in Nat
  BY SizesAssumption
<1>4. /\ repos \in Seq(AnyRow) /\ (Len(all) <= MaxSelectorRepos => repos = all)
      /\ DOMAIN repos = 1..Len(repos) /\ Len(repos) \in Nat
  BY <1>1, <1>3, FirstRowsAre DEF GotAny
<1>5. ASSUME NEW i \in DOMAIN repos
      PROVE  /\ parts[i] \in Seq(AnyRow)
             /\ Len(RowsOf(got, <<"workflows", repos[i].id>>)) <= MaxWorkflows
                  => parts[i] = RowsOf(got, <<"workflows", repos[i].id>>)
  <2>1. PICK files : files = RowsOf(got, <<"workflows", repos[i].id>>) /\ files \in Seq(AnyRow)
    BY DEF GotAny
  <2>2. parts[i] = FirstRows(files, MaxWorkflows)
    BY <1>1, <2>1
  <2> QED BY <1>3, <2>1, <2>2, FirstRowsAre
<1>6. /\ FlattenSeq(parts) \in Seq(AnyRow)
      /\ \A i \in DOMAIN repos : Range(parts[i]) \subseteq Range(FlattenSeq(parts))
  <2>1. parts = [i \in DOMAIN repos |-> parts[i]]
    BY <1>1
  <2> QED BY <1>4, <1>5, <2>1, ForEachIs
<1>7. ASSUME Len(all) <= MaxSelectorRepos,
             \A r \in IdsOf(all) : Len(RowsOf(got, <<"workflows", r>>)) <= MaxWorkflows,
             NEW r \in IdsOf(all)
      PROVE  IdsOf(RowsOf(got, <<"workflows", r>>)) \subseteq IdsOf(Selected(got))
  <2>1. PICK i \in DOMAIN repos : repos[i].id = r
    BY <1>4, <1>7 DEF IdsOf
  <2>2. parts[i] = RowsOf(got, <<"workflows", r>>)
    BY <1>5, <1>7, <2>1
  <2>3. Range(parts[i]) \subseteq Range(Selected(got))
    BY <1>2, <1>6, <2>1
  <2> QED BY <2>2, <2>3, IdsInRange
<1> QED BY <1>1, <1>2, <1>6, <1>7

\* Paged, and bounded; or one page.
Sampled(read) == read.list = Repos /\ read.how = "sample" /\ read.size = PageSize
Single(read) == read.list # Repos /\ read.how = "once" /\ read.size \in Nat
NoRuns(stages) ==
  \A i \in DOMAIN stages : \A read \in stages[i] : \A m \in 1..Repositories : read.list # RunsOf(m)

\* Stages put before others do not change the turn of those.
LEMMA TurnsKept ==
  ASSUME NEW S, NEW a \in Seq(S), NEW b \in Seq(S), NEW got, NoRuns(a), InTurn(got, b)
  PROVE  InTurn(got, a \o b)
<1>1. PICK s : s = a \o b
  OBVIOUS
<1>2. /\ DOMAIN s = 1..(Len(a) + Len(b)) /\ Len(a) \in Nat /\ Len(b) \in Nat
      /\ DOMAIN a = 1..Len(a) /\ DOMAIN b = 1..Len(b)
      /\ \A i \in 1..(Len(a) + Len(b)) : s[i] = IF i <= Len(a) THEN a[i] ELSE b[i - Len(a)]
  BY <1>1
<1>3. ASSUME NEW i \in DOMAIN s, NEW read \in s[i],
             \A q \in 1..(i - 1) : \A other \in s[q] : other.list \in DOMAIN got
      PROVE  Turn(got, read)
  <2>1. CASE i <= Len(a)
    <3>1. i \in DOMAIN a /\ read \in a[i]
      BY <1>2, <1>3, <2>1
    <3> QED BY <3>1 DEF NoRuns, Turn
  <2>2. CASE i > Len(a)
    <3>1. PICK j : j = i - Len(a) /\ j \in DOMAIN b /\ read \in b[j]
      BY <1>2, <1>3, <2>2
    <3>2. ASSUME NEW q \in 1..(j - 1), NEW other \in b[q] PROVE other.list \in DOMAIN got
      <4>1. PICK p : p = Len(a) + q
        OBVIOUS
      <4>2. p \in 1..(i - 1) /\ p \in 1..(Len(a) + Len(b)) /\ ~(p <= Len(a)) /\ p - Len(a) = q
        BY <1>2, <1>3, <2>2, <3>1, <4>1
      <4>3. s[p] = b[q]
        BY <1>2, <4>2
      <4> QED BY <1>3, <3>2, <4>2, <4>3
    <3> QED BY <3>1, <3>2 DEF InTurn
  <2> QED BY <1>2, <2>1, <2>2
<1> QED BY <1>1, <1>3 DEF InTurn

LEMMA PipelineReads ==
  ASSUME NEW got, GotAny(got), NEW stages, stages = PipelineStages(got)
  PROVE  /\ stages \in Seq(Range(stages))
         /\ \A st \in Range(stages) : \A read \in st : Sampled(read) \/ Single(read)
         /\ InTurn(got, stages)
         /\ Range(HistoryOf(got).stages) \subseteq Range(stages)
         /\ \A w \in IdsOf(Selected(got)) : {Once(<<"document", w>>, 1)} \in Range(stages)
<1>1. PICK sample, files, chosen, parts, documents, first, before, runs :
        /\ sample = {Read(Repos, "sample")}
        /\ files = {Once(<<"workflows", r>>, DefaultSize) : r \in IdsOf(RowsOf(got, Repos))}
        /\ chosen = Selected(got)
        /\ parts = [i \in DOMAIN chosen |-> <<{Once(<<"document", chosen[i].id>>, 1)}>>]
        /\ documents = FlattenSeq(parts) /\ first = <<sample, files>>
        /\ before = first \o documents /\ runs = HistoryOf(got).stages
  OBVIOUS
<1>2. stages = before \o runs
  BY <1>1 DEF PipelineStages, History, ForEach
<1> DEFINE D == {{Once(<<"document", x.id>>, 1)} : x \in AnyRow}
           T == {sample, files} \union D
           U == T \union RunStages \union JobStages
<1>3. /\ \A st \in T : \A read \in st : \A m : read.list # RunsOf(m)
      /\ \A st \in T : \A read \in st : Sampled(read) \/ Single(read)
  <2>1. \A read \in sample : Sampled(read) /\ \A m : read.list # RunsOf(m)
    BY <1>1 DEF Sampled, Read, Repos, RunsOf
  <2>2. \A read \in files : Single(read) /\ \A m : read.list # RunsOf(m)
    BY <1>1, SizesAssumption DEF Single, Once, Repos, RunsOf
  <2>3. \A st \in D : \A read \in st : Single(read) /\ \A m : read.list # RunsOf(m)
    BY DEF Single, Once, Repos, RunsOf
  <2> QED BY <2>1, <2>2, <2>3
<1>4. \A st \in RunStages \union JobStages : \A read \in st : Single(read)
  <2>1. \A st \in RunStages : \A read \in st : Single(read)
    BY DEF RunStages, Single, Once, Repos
  <2>2. \A st \in JobStages : \A read \in st : Single(read)
    BY SizesAssumption DEF JobStages, Single, Once, Repos
  <2> QED BY <2>1, <2>2
<1>5. /\ chosen \in Seq(AnyRow) /\ DOMAIN chosen = 1..Len(chosen) /\ Len(chosen) \in Nat
  BY <1>1, SelectedAre
<1>6. ASSUME NEW i \in DOMAIN chosen
      PROVE  /\ parts[i] \in Seq(T)
             /\ {Once(<<"document", chosen[i].id>>, 1)} \in Range(parts[i])
  <2>1. PICK d : d = {Once(<<"document", chosen[i].id>>, 1)}
    OBVIOUS
  <2>2. PICK x \in AnyRow : x = chosen[i]
    BY <1>5
  <2>3. d \in T
    BY <2>1, <2>2
  <2>4. parts[i] = <<d>>
    BY <1>1, <2>1
  <2> HIDE DEF T
  <2>5. PICK u : u = <<d>>
    OBVIOUS
  <2>6. u \in Seq(T) /\ Range(u) = {d}
    BY <2>3, <2>5, OneOrTwo
  <2>7. parts[i] = u
    BY <2>4, <2>5
  <2> QED BY <2>1, <2>6, <2>7
<1>7. /\ documents \in Seq(T)
      /\ \A i \in DOMAIN chosen : Range(parts[i]) \subseteq Range(documents)
  <2>1. parts = [i \in DOMAIN chosen |-> parts[i]]
    BY <1>1
  <2> HIDE DEF T
  <2>2. /\ FlattenSeq(parts) \in Seq(T)
        /\ \A i \in DOMAIN chosen : Range(parts[i]) \subseteq Range(FlattenSeq(parts))
    BY <1>5, <1>6, <2>1, ForEachIs
  <2> QED BY <1>1, <2>2
<1>8. first \in Seq(T)
  <2>1. sample \in T /\ files \in T
    OBVIOUS
  <2> HIDE DEF T
  <2> QED BY <1>1, <2>1, OneOrTwo
<1>9. before \in Seq(T) /\ Range(before) = Range(first) \union Range(documents)
  <2> HIDE DEF T
  <2>1. before = first \o documents /\ first \in Seq(T) /\ documents \in Seq(T)
    BY <1>1, <1>7, <1>8
  <2> HIDE <1>1
  <2> QED BY <2>1, ConcatRange
<1>10. runs \in Seq(RunStages \union JobStages) /\ InTurn(got, runs)
  <2>1. GotRows(got)
    BY DEF GotRows, GotAny
  <2>2. Repositories \in 0..Repositories
    BY HistoriesAre
  <2>3. HistoryOf(got) = HistoriesOf(got)[Repositories]
    BY DEF HistoryOf, Repositories
  <2>4. Accounts(HistoryOf(got))
    BY <2>1, <2>2, <2>3, AccountsAre
  <2>5. InTurn(got, HistoryOf(got).stages)
    BY <2>1, Ordered
  <2> QED BY <1>1, <2>4, <2>5 DEF Accounts
<1>11. before \in Seq(U) /\ runs \in Seq(U)
  BY <1>9, <1>10
<1>12. stages \in Seq(U) /\ Range(stages) = Range(before) \union Range(runs)
  <2> HIDE DEF U
  <2> QED BY <1>2, <1>11, ConcatRange
<1>13. stages \in Seq(Range(stages)) /\ Range(stages) \subseteq U
  <2> HIDE DEF U
  <2> QED BY <1>12 DEF Range
<1>14. InTurn(got, stages)
  <2>1. NoRuns(before)
    <3>1. \A i \in DOMAIN before : before[i] \in T
      <4> HIDE DEF T
      <4> QED BY <1>9
    <3> QED BY <1>3, <3>1 DEF NoRuns
  <2> HIDE DEF U
  <2> QED BY <1>2, <1>10, <1>11, <2>1, TurnsKept
<1>15. ASSUME NEW w \in IdsOf(chosen) PROVE {Once(<<"document", w>>, 1)} \in Range(stages)
  <2>1. PICK i \in DOMAIN chosen : chosen[i].id = w
    BY DEF IdsOf
  <2>2. {Once(<<"document", w>>, 1)} \in Range(documents)
    BY <1>6, <1>7, <2>1
  <2> QED BY <1>9, <1>12, <2>2
<1>16. \A st \in Range(stages) : \A read \in st : Sampled(read) \/ Single(read)
  BY <1>3, <1>4, <1>13
<1> QED BY <1>1, <1>12, <1>13, <1>14, <1>15, <1>16

-----------------------------------------------------------------------------
(* What a call for pipelines has read.                                     *)

Pipelining == call.method = "ci.pipelines"
Fresh == [page |-> 1, rows |-> <<>>]
\* Only the repositories are paged.
SampleInv ==
  call.pc = "reading" /\ Pipelining =>
    \A l \in DOMAIN First :
      /\ PartOf(l).page \in Nat \ {0} /\ PartOf(l).rows \in Seq(Upstream(l))
      /\ l # Repos => PartOf(l) = Fresh
\* One page that was as long as its list has what was there all through the call.
OnePage(l, so) ==
  /\ l \in DOMAIN First /\ so.rows \in Seq(Upstream(l)) /\ so.total \in Nat
  /\ l # Repos /\ so.total <= Len(so.rows) => call.there[l] \subseteq IdsOf(so.rows)
PageInv ==
  call.pc \in {"reading", "done"} /\ Pipelining =>
    \A l \in DOMAIN call.got : OnePage(l, call.got[l])
\* The runs of a repository were read after those of the ones before it, and
\* within what those left of the budget.
InBudget(got, k) ==
  RunsOf(k) \in DOMAIN got =>
    /\ Len(got[RunsOf(k)].rows) <= HistoriesOf(got)[k - 1].budget
    /\ \A j \in 1..(k - 1) : RunsOf(j) \in DOMAIN got
BudgetInv ==
  call.pc \in {"reading", "done"} /\ Pipelining => \A k \in 1..Repositories : InBudget(call.got, k)
EndInv ==
  call.pc = "done" /\ Pipelining => AllRead(PipelineStages(call.got), call.got)
PipeInv == SampleInv /\ PageInv /\ BudgetInv /\ EndInv

LEMMA AnyIs ==
  ASSUME NEW got,
         \A l \in DOMAIN got : l \in DOMAIN First /\ got[l].rows \in Seq(Upstream(l))
  PROVE  GotAny(got) /\ GotRows(got)
<1>1. ASSUME NEW l PROVE RowsOf(got, l) \in Seq(AnyRow)
  <2>1. CASE l \in DOMAIN got
    <3>1. Upstream(l) \subseteq AnyRow
      BY <2>1 DEF AnyRow
    <3>2. got[l].rows \in Seq(AnyRow)
      BY <2>1, <3>1
    <3> QED BY <2>1, <3>2 DEF RowsOf
  <2>2. CASE l \notin DOMAIN got
    BY <2>2 DEF RowsOf
  <2> QED BY <2>1, <2>2
<1> QED BY <1>1 DEF GotAny, GotRows

LEMMA GotAnyIs ==
  ASSUME PageInv, call.pc \in {"reading", "done"}, Pipelining
  PROVE  GotAny(call.got) /\ GotRows(call.got)
BY AnyIs DEF PageInv, OnePage

LEMMA FailedPipes ==
  ASSUME NEW method, NEW why, call' = Failed(method, why)
  PROVE  PipeInv'
<1>1. call'.pc = "failed"
  BY DEF Failed
<1> QED BY <1>1 DEF PipeInv, SampleInv, PageInv, BudgetInv, EndInv

LEMMA StartPipes == ASSUME Start PROVE PipeInv'
<1>1. PICK method : \/ call' = Begun(method)
                    \/ \E why : call' = Failed(method, why)
  BY DEF Start
<1>2. CASE \E why : call' = Failed(method, why)
  BY <1>2, FailedPipes
<1>3. CASE call' = Begun(method) /\ ~(\E why : call' = Failed(method, why))
  <2>1. call'.pc = "reading" /\ call'.got = <<>> /\ call'.part = <<>>
    BY <1>3 DEF Begun
  <2>2. SampleInv'
    BY <2>1 DEF SampleInv, PartOf, Fresh
  <2>3. \A k : ~(RunsOf(k) \in DOMAIN call'.got)
    BY <2>1
  <2>4. BudgetInv'
    BY <2>3 DEF BudgetInv, InBudget
  <2> QED BY <2>1, <2>2, <2>4 DEF PipeInv, PageInv, EndInv
<1> QED BY <1>1, <1>2, <1>3

LEMMA PublishPipes == ASSUME ReadInv, PipeInv, Publish PROVE PipeInv'
<1>1. call.pc = "reading" /\ Pending = {} /\ call' = [call EXCEPT !.pc = "done"]
  BY DEF Publish
<1>2. /\ call'.pc = "done" /\ call'.method = call.method /\ call'.got = call.got
      /\ call'.there = call.there
  BY <1>1 DEF ReadInv, CallInv
<1>3. SampleInv' /\ PageInv' /\ BudgetInv'
  BY <1>1, <1>2 DEF PipeInv, SampleInv, PageInv, OnePage, BudgetInv, Pipelining
<1>4. EndInv'
  <2> SUFFICES ASSUME Pipelining PROVE AllRead(PipelineStages(call.got), call.got)
    BY <1>2 DEF EndInv, Pipelining
  <2>1. PICK stages : stages = PipelineStages(call.got)
    OBVIOUS
  <2>2. stages \in Seq(Range(stages))
    BY <1>1, <2>1, GotAnyIs, PipelineReads DEF PipeInv
  <2>3. stages = StagesOf(call.method, call.got)
    BY <2>1 DEF StagesOf, Pipelining
  <2> QED BY <1>1, <2>1, <2>2, <2>3, PendingIs
<1> QED BY <1>3, <1>4 DEF PipeInv

LEMMA ThePending ==
  ASSUME NEW stages, stages = StagesOf(call.method, call.got), stages \in Seq(Range(stages)),
         NEW read \in Pending
  PROVE  /\ read.list \notin DOMAIN call.got
         /\ \E i \in DOMAIN stages :
              /\ read \in stages[i]
              /\ \A q \in 1..(i - 1) : \A other \in stages[q] : other.list \in DOMAIN call.got
<1> DEFINE Unread(st) == {r \in st : r.list \notin DOMAIN call.got}
           open == {i \in DOMAIN stages : Unread(stages[i]) # {}}
<1>1. Pending = IF open = {} THEN {} ELSE Unread(stages[Min(open)])
  BY DEF Pending
<1>2. open # {}
  BY <1>1
<1>3. Min(open) \in open /\ \A k \in open : Min(open) <= k
  <2> SUFFICES ASSUME NEW n \in open PROVE Min(open) \in open /\ \A k \in open : Min(open) <= k
    BY <1>2
  <2>1. open \subseteq Nat
    OBVIOUS
  <2> HIDE DEF open
  <2>2. \E m \in open : \A k \in open : m <= k
    BY <2>1, LeastOf
  <2> QED BY <2>2 DEF Min
<1>4. PICK i : i = Min(open)
  OBVIOUS
<1>5. i \in DOMAIN stages /\ i \in Nat /\ read \in Unread(stages[i])
  BY <1>1, <1>2, <1>3, <1>4
<1>6. ASSUME NEW q \in 1..(i - 1), NEW other \in stages[q] PROVE other.list \in DOMAIN call.got
  <2>1. q \in DOMAIN stages /\ ~(i <= q)
    BY <1>5, <1>6
  <2>2. q \notin open
    BY <1>3, <1>4, <2>1
  <2> QED BY <1>6, <2>1, <2>2
<1> QED BY <1>5, <1>6

\* The one page of a list.
LEMMA WholePage ==
  ASSUME NEW S, NEW list, lists[list] \in Seq(S), NEW size \in Nat,
         NEW rows, rows = PageOf(list, 1, size)
  PROVE  /\ rows \in Seq(S) /\ Len(rows) <= size
         /\ Len(lists[list]) <= Len(rows) => rows = lists[list]
<1>1. PICK up : up = lists[list]
  OBVIOUS
<1>2. rows = SubSeq(up, 1, Least(size, Len(up)))
  <2>1. (1 - 1) * size + 1 = 1 /\ 1 * size = size
    OBVIOUS
  <2> QED BY <1>1, <2>1 DEF PageOf
<1>3. rows = FirstRows(up, size)
  BY <1>2 DEF FirstRows
<1>4. rows \in Seq(S) /\ Len(rows) <= size /\ (Len(up) <= size => rows = up)
  BY <1>1, <1>3, FirstRowsAre
<1>5. ASSUME Len(up) <= Len(rows) PROVE rows = up
  <2>1. Len(up) \in Nat /\ Len(rows) \in Nat
    BY <1>1, <1>4
  <2>2. Len(up) <= size
    BY <1>4, <1>5, <2>1
  <2> QED BY <1>4, <2>2
<1> QED BY <1>1, <1>4, <1>5

\* A list that is read for the first time leaves the budgets that were met.
LEMMA BudgetKept ==
  ASSUME NEW got, NEW list, list \notin DOMAIN got,
         NEW value, NEW next, next = Put(got, list, value),
         GotRows(got), GotRows(next), \A k \in 1..Repositories : InBudget(got, k),
         \A m \in 1..Repositories : list = RunsOf(m) =>
           /\ Len(value.rows) <= HistoriesOf(got)[m - 1].budget
           /\ \A j \in 1..(m - 1) : RunsOf(j) \in DOMAIN got
  PROVE  \A k \in 1..Repositories : InBudget(next, k)
<1> SUFFICES ASSUME NEW k \in 1..Repositories, RunsOf(k) \in DOMAIN next
             PROVE  /\ Len(next[RunsOf(k)].rows) <= HistoriesOf(next)[k - 1].budget
                    /\ \A j \in 1..(k - 1) : RunsOf(j) \in DOMAIN next
  BY DEF InBudget
<1>1. /\ DOMAIN next = DOMAIN got \union {list} /\ next[list] = value
      /\ \A l \in DOMAIN got : next[l] = got[l]
  BY DEF Put
<1>2. Repositories \in Nat /\ k - 1 \in 0..Repositories
  BY HistoriesAre
<1>3. \A j \in 1..(k - 1) : RunsOf(j) \in DOMAIN got
  BY <1>1 DEF InBudget
<1>4. HistoriesOf(next)[k - 1].budget = HistoriesOf(got)[k - 1].budget
  <2>1. \A j \in 1..(k - 1) : RowsOf(got, RunsOf(j)) = RowsOf(next, RunsOf(j))
    BY <1>1, <1>3 DEF RowsOf
  <2> QED BY <1>2, <2>1, SameBudget
<1>5. Len(next[RunsOf(k)].rows) <= HistoriesOf(got)[k - 1].budget
  <2>1. CASE RunsOf(k) = list
    BY <1>1, <2>1
  <2>2. CASE RunsOf(k) # list
    BY <1>1, <2>2 DEF InBudget
  <2> QED BY <2>1, <2>2
<1> QED BY <1>1, <1>3, <1>4, <1>5

LEMMA FetchPipes == ASSUME ReadInv, PipeInv, ReadInv', Fetch PROVE PipeInv'
<1>1. call.pc = "reading" /\ UNCHANGED lists
  BY DEF Fetch
<1>2. PICK read \in Pending :
        \/ \E why : call' = Failed(call.method, why)
        \/ /\ read.list \in DOMAIN lists
           /\ \E rows \in {PageOf(read.list, PartOf(read.list).page, read.size)} :
                LET so == PartOf(read.list)
                    all == so.rows \o rows
                IN call' = IF Ended(read.how, so.page, rows)
                     THEN [call EXCEPT !.got = Put(@, read.list,
                                                   [rows |-> all, total |-> Len(lists[read.list])]),
                                       !.part = Restrict(@, DOMAIN @ \ {read.list})]
                     ELSE [call EXCEPT !.part = Put(@, read.list,
                                                    [page |-> so.page + 1, rows |-> all])]
  BY Zenon DEF Fetch
<1>3. CASE \E why : call' = Failed(call.method, why)
  BY <1>3, FailedPipes
<1>4. CASE ~\E why : call' = Failed(call.method, why)
  <2>1. PICK list, so, rows, all :
          /\ list = read.list /\ so = PartOf(list) /\ rows = PageOf(list, so.page, read.size)
          /\ all = so.rows \o rows
    OBVIOUS
  <2>2. /\ list \in DOMAIN lists
        /\ call' = IF Ended(read.how, so.page, rows)
             THEN [call EXCEPT !.got = Put(@, list, [rows |-> all, total |-> Len(lists[list])]),
                               !.part = Restrict(@, DOMAIN @ \ {list})]
             ELSE [call EXCEPT !.part = Put(@, list, [page |-> so.page + 1, rows |-> all])]
    BY <1>2, <1>4, <2>1
  <2>3. list \in DOMAIN First /\ lists[list] \in Seq(Upstream(list))
    BY <2>2 DEF ReadInv, UpstreamInv
  <2>4. /\ call'.pc = "reading" /\ call'.method = call.method /\ call'.there = call.there
    BY <1>1, <2>2 DEF ReadInv, CallInv
  <2>5. CASE ~Pipelining
    BY <2>4, <2>5 DEF PipeInv, SampleInv, PageInv, BudgetInv, EndInv, Pipelining
  <2>6. CASE Pipelining
    <3>1. PICK stages : stages = PipelineStages(call.got)
      OBVIOUS
    <3>2. GotAny(call.got) /\ GotRows(call.got)
      BY <1>1, <2>6, GotAnyIs DEF PipeInv
    <3>3. /\ stages \in Seq(Range(stages)) /\ InTurn(call.got, stages)
          /\ \A st \in Range(stages) : \A r \in st : Sampled(r) \/ Single(r)
      BY <3>1, <3>2, PipelineReads
    <3>4. stages = StagesOf(call.method, call.got)
      BY <2>6, <3>1 DEF StagesOf, Pipelining
    <3>5. /\ list \notin DOMAIN call.got /\ (Sampled(read) \/ Single(read))
          /\ Turn(call.got, read)
      <4>1. /\ read.list \notin DOMAIN call.got
            /\ \E i \in DOMAIN stages :
                 /\ read \in stages[i]
                 /\ \A q \in 1..(i - 1) : \A other \in stages[q] : other.list \in DOMAIN call.got
        BY <3>3, <3>4, ThePending
      <4>2. PICK i \in DOMAIN stages :
              /\ read \in stages[i]
              /\ \A q \in 1..(i - 1) : \A other \in stages[q] : other.list \in DOMAIN call.got
        BY <4>1
      <4>3. Turn(call.got, read)
        BY <3>3, <4>2 DEF InTurn
      <4>4. Sampled(read) \/ Single(read)
        BY <3>3, <4>2 DEF Range
      <4> QED BY <2>1, <4>1, <4>3, <4>4
    <3>6. /\ so.page \in Nat \ {0} /\ so.rows \in Seq(Upstream(list))
          /\ list # Repos => so = Fresh
      BY <1>1, <2>1, <2>3, <2>6 DEF PipeInv, SampleInv
    <3>7. rows \in Seq(Upstream(list))
      <4>1. CASE Sampled(read)
        BY <2>1, <2>3, <3>6, <4>1, PageIs DEF Sampled
      <4>2. CASE Single(read)
        <5>1. rows = PageOf(list, 1, read.size) /\ read.size \in Nat
          BY <2>1, <3>6, <4>2 DEF Single, Fresh
        <5> QED BY <2>3, <5>1, WholePage
      <4> QED BY <3>5, <4>1, <4>2
    <3>8. all \in Seq(Upstream(list))
      BY <2>1, <3>6, <3>7
    <3>9. CASE Ended(read.how, so.page, rows)
      <4>1. PICK value : value = [rows |-> all, total |-> Len(lists[list])]
        OBVIOUS
      <4>2. /\ call'.got = Put(call.got, list, value)
            /\ call'.part = Restrict(call.part, DOMAIN call.part \ {list})
        BY <1>1, <2>2, <3>9, <4>1 DEF ReadInv, CallInv
      <4>3. value.rows = all /\ value.total = Len(lists[list]) /\ value.total \in Nat
        BY <2>3, <4>1
      <4>4. ASSUME list # Repos
            PROVE  /\ Len(all) <= read.size
                   /\ Len(lists[list]) <= Len(all) => call.there[list] \subseteq IdsOf(all)
        <5>1. so = Fresh /\ read.size \in Nat
          BY <2>1, <3>5, <3>6, <4>4 DEF Sampled, Single
        <5>2. rows = PageOf(list, 1, read.size) /\ all = rows
          BY <2>1, <3>7, <5>1 DEF Fresh
        <5>3. Len(rows) <= read.size /\ (Len(lists[list]) <= Len(rows) => rows = lists[list])
          BY <2>3, <5>1, <5>2, WholePage
        <5>4. call.there[list] \subseteq IdsOf(lists[list])
          BY <1>1, <2>3 DEF ReadInv, CallInv
        <5> QED BY <5>2, <5>3, <5>4
      <4>5. SampleInv'
        <5> SUFFICES ASSUME NEW k \in DOMAIN First
                     PROVE  /\ PartOf(k)'.page \in Nat \ {0} /\ PartOf(k)'.rows \in Seq(Upstream(k))
                            /\ k # Repos => PartOf(k)' = Fresh
          BY DEF SampleInv, Fresh
        <5>1. CASE k = list
          <6>1. PartOf(k)' = Fresh
            BY <4>2, <5>1 DEF PartOf, Restrict, Fresh
          <6> QED BY <6>1 DEF Fresh
        <5>2. CASE k # list
          <6>1. PartOf(k)' = PartOf(k)
            BY <4>2, <5>2 DEF PartOf, Restrict
          <6> QED BY <1>1, <2>6, <6>1 DEF PipeInv, SampleInv
        <5> QED BY <5>1, <5>2
      <4>6. PageInv'
        <5> SUFFICES ASSUME NEW k \in DOMAIN call'.got PROVE OnePage(k, call.got[k])'
          BY DEF PageInv
        <5>1. CASE k = list
          <6>1. call'.got[k] = value
            BY <4>2, <5>1 DEF Put
          <6> QED BY <2>3, <2>4, <3>8, <4>3, <4>4, <5>1, <6>1 DEF OnePage
        <5>2. CASE k # list
          <6>1. k \in DOMAIN call.got /\ call'.got[k] = call.got[k]
            BY <4>2, <5>2 DEF Put
          <6>2. OnePage(k, call.got[k])
            BY <1>1, <2>6, <6>1 DEF PipeInv, PageInv
          <6> QED BY <2>4, <6>1, <6>2 DEF OnePage
        <5> QED BY <5>1, <5>2
      <4>7. BudgetInv'
        <5>1. PICK got, next : got = call.got /\ next = call'.got
          OBVIOUS
        <5>2. GotRows(next)
          <6>1. Pipelining' /\ call'.pc = "reading"
            BY <2>4, <2>6 DEF Pipelining
          <6>2. \A l \in DOMAIN next : l \in DOMAIN First /\ next[l].rows \in Seq(Upstream(l))
            BY <4>6, <5>1, <6>1 DEF PageInv, OnePage
          <6> QED BY <6>2, AnyIs
        <5>3. ASSUME NEW m \in 1..Repositories, list = RunsOf(m)
              PROVE  /\ Len(value.rows) <= HistoriesOf(got)[m - 1].budget
                     /\ \A j \in 1..(m - 1) : RunsOf(j) \in DOMAIN got
          <6>1. list # Repos
            BY <5>3 DEF RunsOf, Repos
          <6>2. /\ read.size <= HistoriesOf(got)[m - 1].budget
                /\ \A j \in 1..(m - 1) : RunsOf(j) \in DOMAIN got
            BY <2>1, <3>5, <5>1, <5>3 DEF Turn
          <6>3. HistoriesOf(got)[m - 1].budget \in Nat
            <7>1. m - 1 \in 0..Repositories /\ GotRows(got)
              BY <3>2, <5>1, HistoriesAre
            <7> QED BY <7>1, AccountsAre DEF Accounts
          <6>4. Len(value.rows) <= read.size /\ Len(value.rows) \in Nat
            BY <3>8, <4>3, <4>4, <6>1
          <6>5. read.size \in Nat
            BY <2>1, <3>5, <6>1 DEF Sampled, Single
          <6> QED BY <6>2, <6>3, <6>4, <6>5
        <5>4. \A k \in 1..Repositories : InBudget(got, k)
          BY <1>1, <2>6, <5>1 DEF PipeInv, BudgetInv
        <5>5. \A k \in 1..Repositories : InBudget(next, k)
          BY <3>2, <3>5, <4>2, <5>1, <5>2, <5>3, <5>4, BudgetKept
        <5> QED BY <5>1, <5>5 DEF BudgetInv, InBudget
      <4> QED BY <2>4, <4>5, <4>6, <4>7 DEF PipeInv, EndInv
    <3>10. CASE ~Ended(read.how, so.page, rows)
      <4>1. PICK next : next = [page |-> so.page + 1, rows |-> all]
        OBVIOUS
      <4>2. call'.got = call.got /\ call'.part = Put(call.part, list, next)
        BY <1>1, <2>2, <3>10, <4>1 DEF ReadInv, CallInv
      <4>3. list = Repos
        BY <2>1, <3>5, <3>10 DEF Single, Ended, Sampled
      <4>4. SampleInv'
        <5> SUFFICES ASSUME NEW k \in DOMAIN First
                     PROVE  /\ PartOf(k)'.page \in Nat \ {0} /\ PartOf(k)'.rows \in Seq(Upstream(k))
                            /\ k # Repos => PartOf(k)' = Fresh
          BY DEF SampleInv, Fresh
        <5>1. CASE k = list
          <6>1. PartOf(k)' = next
            BY <4>2, <5>1 DEF PartOf, Put
          <6>2. next.page \in Nat \ {0} /\ next.rows = all
            BY <3>6, <4>1
          <6> QED BY <3>8, <4>3, <5>1, <6>1, <6>2
        <5>2. CASE k # list
          <6>1. PartOf(k)' = PartOf(k)
            BY <4>2, <5>2 DEF PartOf, Put
          <6> QED BY <1>1, <2>6, <6>1 DEF PipeInv, SampleInv
        <5> QED BY <5>1, <5>2
      <4>5. PageInv' /\ BudgetInv'
        BY <1>1, <2>4, <4>2 DEF PipeInv, PageInv, OnePage, BudgetInv, Pipelining
      <4> QED BY <2>4, <4>4, <4>5 DEF PipeInv, EndInv
    <3> QED BY <3>9, <3>10
  <2> QED BY <2>5, <2>6
<1> QED BY <1>3, <1>4

LEMMA NextPipes == ReadInv /\ ReadInv' /\ PipeInv /\ [Next]_vars => PipeInv'
<1> SUFFICES ASSUME ReadInv, ReadInv', PipeInv, [Next]_vars PROVE PipeInv'
  OBVIOUS
<1>1. ASSUME Trip PROVE PipeInv'
  <2>1. \E why : call' = Failed(call.method, why)
    BY <1>1 DEF Trip
  <2> QED BY <2>1, FailedPipes
<1>2. ASSUME UNCHANGED call PROVE PipeInv'
  BY <1>2 DEF PipeInv, SampleInv, PageInv, BudgetInv, EndInv, OnePage, PartOf, Pipelining
<1>3. ASSUME Vanish PROVE PipeInv'
  <2>1. PICK l, id : call' = IF call.pc # "reading" THEN call
                             ELSE [call EXCEPT !.there[l] = @ \ {id}, !.removed = @ \union {l}]
    BY <1>3 DEF Vanish
  <2>2. CASE call.pc # "reading"
    BY <1>2, <2>1, <2>2
  <2>3. CASE call.pc = "reading"
    <3>1. /\ call'.pc = "reading" /\ call'.method = call.method /\ call'.got = call.got
          /\ call'.part = call.part /\ call'.there = [call.there EXCEPT ![l] = @ \ {id}]
      BY <2>1, <2>3 DEF ReadInv, CallInv
    <3>2. SampleInv' /\ BudgetInv' /\ EndInv'
      BY <2>3, <3>1 DEF PipeInv, SampleInv, BudgetInv, EndInv, PartOf, Pipelining
    <3>3. \A k \in DOMAIN First : call'.there[k] \subseteq call.there[k]
      BY <2>3, <3>1 DEF ReadInv, CallInv
    <3>4. PageInv'
      <4> SUFFICES ASSUME Pipelining, NEW k \in DOMAIN call.got PROVE OnePage(k, call.got[k])'
        BY <3>1 DEF PageInv, Pipelining
      <4>1. OnePage(k, call.got[k])
        BY <2>3 DEF PipeInv, PageInv
      <4> QED BY <3>1, <3>3, <4>1 DEF OnePage
    <3> QED BY <3>2, <3>4 DEF PipeInv
  <2> QED BY <2>2, <2>3
<1> QED BY <1>1, <1>2, <1>3, StartPipes, FetchPipes, PublishPipes DEF Next, Appear, Tick, vars

LEMMA HistoryTold ==
  ASSUME PipeInv, Done("ci.pipelines"), History(call.got).complete,
         NEW r \in Range(HistoryRepos), NEW run \in There(<<"runs", r>>)
  PROVE  <<"jobs", run>> \in DOMAIN call.got
<1>1. call.pc = "done" /\ Pipelining
  BY DEF Done, Pipelining
<1>2. PICK k \in 1..Repositories : HistoryRepos[k] = r
  BY HistoriesAre DEF Range
<1>3. PICK got, list, rows, budget :
        /\ got = call.got /\ list = <<"runs", r>> /\ rows = RowsOf(got, list)
        /\ budget = HistoriesOf(got)[k - 1].budget
  OBVIOUS
<1>4. GotAny(got) /\ GotRows(got)
  BY <1>1, <1>3, GotAnyIs DEF PipeInv
<1>5. AllRead(HistoryOf(got).stages, got)
  <2>1. PICK stages : stages = PipelineStages(got)
    OBVIOUS
  <2>2. AllRead(stages, got)
    BY <1>1, <1>3, <2>1 DEF PipeInv, EndInv
  <2>3. Range(HistoryOf(got).stages) \subseteq Range(stages)
    BY <1>4, <2>1, PipelineReads
  <2> QED BY <2>2, <2>3 DEF AllRead
<1>6. Examined(got, k)
  BY <1>3, <1>4, <1>5, Finished DEF History
<1>7. list \in DOMAIN got /\ rows = got[list].rows /\ got[list].total <= Len(rows)
  BY <1>2, <1>3, <1>6 DEF Examined, RunsOf, RowsOf
<1>8. There(list) \subseteq IdsOf(rows)
  <2>1. list # Repos
    BY <1>3 DEF Repos
  <2> QED BY <1>1, <1>3, <1>7, <2>1 DEF PipeInv, PageInv, OnePage, There
<1>9. FirstRows(rows, budget) = rows
  <2>1. Len(rows) <= budget
    BY <1>1, <1>2, <1>3, <1>7 DEF PipeInv, BudgetInv, InBudget, RunsOf
  <2>2. budget \in Nat
    <3>1. k - 1 \in 0..Repositories
      BY HistoriesAre
    <3> QED BY <1>3, <1>4, <3>1, AccountsAre DEF Accounts
  <2>3. rows \in Seq(AnyRow)
    BY <1>3, <1>4 DEF GotAny
  <2> QED BY <2>1, <2>2, <2>3, FirstRowsAre
<1>10. PICK i \in DOMAIN rows : rows[i].id = run
  BY <1>3, <1>8 DEF IdsOf
<1>11. \A n \in DOMAIN rows : <<"jobs", rows[n].id>> \in DOMAIN got
  BY <1>2, <1>3, <1>6, <1>9 DEF Examined, RunsOf
<1> QED BY <1>3, <1>10, <1>11

LEMMA FilesTold ==
  ASSUME PipeInv, Done("ci.pipelines"), SelectorsComplete(call.got), NEW p \in Pipelines(call.got)
  PROVE  <<"document", p[2]>> \in DOMAIN call.got
<1>1. call.pc = "done" /\ Pipelining
  BY DEF Done, Pipelining
<1>2. PICK got : got = call.got
  OBVIOUS
<1>3. GotAny(got)
  BY <1>1, <1>2, GotAnyIs DEF PipeInv
<1>4. PICK r \in IdsOf(RowsOf(got, Repos)) :
        \E w \in IdsOf(RowsOf(got, <<"workflows", r>>)) : p = <<r, w>>
  BY <1>2 DEF Pipelines
<1>5. p[2] \in IdsOf(RowsOf(got, <<"workflows", r>>))
  BY <1>4
<1>6. p[2] \in IdsOf(Selected(got))
  BY <1>2, <1>3, <1>5, SelectedAre DEF SelectorsComplete
<1>7. PICK stages : stages = PipelineStages(got)
  OBVIOUS
<1>8. {Once(<<"document", p[2]>>, 1)} \in Range(stages)
  BY <1>3, <1>6, <1>7, PipelineReads
<1>9. AllRead(stages, got)
  BY <1>1, <1>2, <1>7 DEF PipeInv, EndInv
<1> QED BY <1>2, <1>8, <1>9 DEF AllRead, Once

\* BUILTIN_PLUGINS.md: where a bound is reached the section is marked
\* `complete: false`.  However the budget of runs falls on the repositories, and
\* whatever runs and files appear or go while they are read, a job history that
\* says it is complete has asked for the jobs of every run that was there all
\* through the call, and complete selectors have had every file of every workflow
\* that is listed.
THEOREM SectionsAreTold == Spec => []SectionsTold
<1>1. Init => ReadInv /\ PipeInv
  <2>1. Init => PipeInv
    BY DEF Init, PipeInv, SampleInv, PageInv, BudgetInv, EndInv
  <2> QED BY <2>1, InitReads
<1>2. ReadInv /\ PipeInv /\ [Next]_vars => (ReadInv /\ PipeInv)'
  BY NextReads, NextPipes
<1>3. PipeInv => SectionsTold
  BY HistoryTold, FilesTold DEF SectionsTold
<1> QED BY <1>1, <1>2, <1>3, PTL DEF Spec
=============================================================================
