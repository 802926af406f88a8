--------------------------- MODULE MCLocalityPlan ---------------------------
(* A small instance of LocalityPlan for TLC: two nodes of two ranks, dealt     *)
(* round robin, so that neither a node nor a local rank is a quotient.         *)
EXTENDS LocalityPlan, TLC

MCPlace == [n \in Nodes |-> [l \in LocalRanks |-> n + NumNodes * l]]

Nothing == [p \in Proc |-> << >>]

(* Elements wanted by several ranks of a node, sent by both of a node, out of   *)
(* order, to oneself and within the node.                                     *)
Busy == [Nothing EXCEPT
  ![0] = 1 :> <<1, 2>> @@ 3 :> <<3, 1>> @@ 2 :> <<1>>,
  ![2] = 3 :> <<21>> @@ 2 :> <<21>>,
  ![1] = 0 :> <<12, 11>> @@ 2 :> <<11>> ]
(* One way only, from one rank. *)
Sparse == [Nothing EXCEPT ![3] = 0 :> <<31>> @@ 2 :> <<32, 31>>]
MCInputs == [busyFirst |-> <<Busy, Sparse>>, sparseFirst |-> <<Sparse, Busy>>]
=============================================================================
