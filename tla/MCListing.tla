----------------------------- MODULE MCListing ------------------------------
(* An organisation of three runners in two groups and two repositories, a    *)
(* DNS account of one zone, pages of two rows.                               *)
EXTENDS Listing

Row(id)       == [id |-> id, kept |-> TRUE, at |-> None]
At(id, where) == [Row(id) EXCEPT !.at = where]
Unkept(id)    == [Row(id) EXCEPT !.kept = FALSE]

MCFirst ==
  (Runners :> <<At(11, 1), Row(12), Row(13)>>) @@
  (Groups  :> <<At(1, "all"), At(2, "selected")>>) @@
  (<<"members", 1>> :> <<Row(11)>>) @@ (<<"members", 2>> :> <<Row(11), Row(12)>>) @@
  (<<"members", 3>> :> <<>>) @@ (<<"access", 2>> :> <<Row("r1")>>) @@
  (Repos :> <<Row("r1"), Row("r2")>>) @@
  (<<"workflows", "r1">> :> <<Row("w1"), Row("w2")>>) @@ (<<"workflows", "r2">> :> <<Row("w3")>>) @@
  (<<"document", "w1">> :> <<Row("w1")>>) @@ (<<"document", "w2">> :> <<Row("w2")>>) @@
  (<<"document", "w3">> :> <<Row("w3")>>) @@
  (<<"document", "w4">> :> <<Unkept("w4")>>) @@ (<<"document", "w5">> :> <<Row("w5")>>) @@
  (<<"workflows", "r3">> :> <<>>) @@
  (<<"runs", "r1">> :> <<Row(101), Row(102)>>) @@ (<<"runs", "r2">> :> <<Row(201)>>) @@
  (<<"jobs", 101>> :> <<Row(1)>>) @@ (<<"jobs", 102>> :> <<Row(2)>>) @@
  (<<"jobs", 103>> :> <<Row(3)>>) @@ (<<"jobs", 201>> :> <<Row(4)>>) @@
  (<<"issues", "r1">> :> <<Row(1), Unkept(2)>>) @@ (<<"pulls", "r1">> :> <<Row(2)>>) @@
  (Zones :> <<Row("z1")>>) @@ (<<"records", "z1">> :> <<Row(1), Row(2), Row(3)>>)
\* The same with a record of a type that is not modelled (CAA, say) among them.
UnkeptFirst == (<<"records", "z1">> :> <<Row(1), Unkept(2), Row(3)>>) @@ MCFirst

MCSpare ==
  (Runners :> <<Row(14), Row(15)>>) @@ (Groups :> <<At(3, "all")>>) @@ (<<"members", 2>> :> <<Row(13)>>) @@
  (<<"runs", "r1">> :> <<Row(103)>>) @@ (<<"pulls", "r1">> :> <<Row(3)>>) @@
  (<<"workflows", "r2">> :> <<Row("w4")>>) @@
  (<<"workflows", "r1">> :> <<Row("w5")>>) @@ (Repos :> <<Row("r3")>>) @@ (<<"records", "z1">> :> <<Row(4)>>)
MCItemRepos == <<"r1">>
MCHistoryRepos == <<"r1", "r2">>
MCMaxPages == [sample |-> 2, kept |-> 2, whole |-> 2, items |-> 2]
=============================================================================
