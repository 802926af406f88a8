---------------------------- MODULE MCCommObject ----------------------------
(* Small instances of CommObject for TLC: four ranks on two hosts. *)
EXTENDS CommObject

CONSTANTS hostA, hostB

At(f) == [r \in Rank |-> f[r + 1]]

(* Consecutive ranks together, and round robin. *)
Regular == { At(<<hostA, hostA, hostB, hostB>>), At(<<hostA, hostB, hostA, hostB>>) }

(* The hosts take turns in opposite orders. *)
Crossed == { At(<<hostA, hostB, hostB, hostA>>) }
=============================================================================
