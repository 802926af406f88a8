-------------------------- MODULE NeighborPromise --------------------------
(***************************************************************************)
(* What a persistent neighbor alltoallv promises (MPIL_Start, MPIL_Wait):   *)
(* the k-th Wait of a rank on a request returns the data its neighbors sent  *)
(* with their k-th Start of it, however far ahead the neighbors are.         *)
(***************************************************************************)
EXTENDS Naturals

CONSTANTS
  Proc,   \* the ranks
  Req,    \* the requests, each created by all ranks
  Items   \* Items[q]: the pairs <<source, destination>> of request q

VARIABLES
  started,  \* started[p][q]: how often p has started q
  done,     \* done[p][q]: how often p has waited for q
  out       \* out[q][i]: the Start whose data i's destination holds, 0 for none

vars == <<started, done, out>>

Init ==
  /\ started = [p \in Proc |-> [q \in Req |-> 0]]
  /\ done = [p \in Proc |-> [q \in Req |-> 0]]
  /\ out = [q \in Req |-> [i \in Items[q] |-> 0]]

Start(p, q) ==
  /\ started[p][q] = done[p][q]
  /\ started' = [started EXCEPT ![p][q] = @ + 1]
  /\ UNCHANGED <<done, out>>

Complete(p, q) ==
  /\ started[p][q] > done[p][q]
  /\ \A i \in Items[q] : i[2] = p => started[i[1]][q] >= started[p][q]
  /\ done' = [done EXCEPT ![p][q] = @ + 1]
  /\ out' = [out EXCEPT ![q] =
               [i \in Items[q] |-> IF i[2] = p THEN started[p][q] ELSE @[i]]]
  /\ UNCHANGED started

Next == \E p \in Proc, q \in Req : Start(p, q) \/ Complete(p, q)

Spec == Init /\ [][Next]_vars
=============================================================================
