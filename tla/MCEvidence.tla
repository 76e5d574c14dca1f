----------------------------- MODULE MCEvidence -----------------------------
(* Small instances of Evidence.                                             *)
EXTENDS Evidence, TLC

CONSTANTS s1, s2, e1, e2, m1, m2, v1, v2

\* Two sources in turn, both of which see the one entity.
PairOrder == <<s1, s2>>
PairSees  == [s \in Sources |-> [m \in Methods |-> {e1}]]

\* One source with two methods, each of which reports a kind of its own.
SplitOrder == <<s1>>
SplitSees  == [s \in Sources |-> [m \in Methods |-> IF m = m1 THEN {e1} ELSE {e2}]]

\* No value is compared with anything but another value.
Symmetry == Permutations({v1, v2})
=============================================================================
