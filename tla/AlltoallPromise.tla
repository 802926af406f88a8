--------------------------- MODULE AlltoallPromise ---------------------------
(***************************************************************************)
(* What MPIL_Alltoall and MPIL_Alltoallv promise.  Every rank makes the same *)
(* calls in the same order, and a call returns to a rank the block that every *)
(* rank passed to the same call for it, at the place of that rank.  While a   *)
(* call runs the contents of the receive buffer are undefined; between calls  *)
(* the buffer is the user's and nothing writes to it.                         *)
(***************************************************************************)
EXTENDS Naturals

CONSTANTS
  Sizes,     \* the possible numbers of ranks
  MaxCalls   \* bound on the number of calls

VARIABLES
  started,   \* number of calls each rank has begun
  returned,  \* number of calls each rank has completed
  result     \* result[p]: what the receive buffer of p holds, by source

vars == <<started, returned, result>>

Proc == DOMAIN started
Undefined == << >>
Block(s, d, c) == [src |-> s, dst |-> d, call |-> c]

Init ==
  /\ \E n \in Sizes : started = [p \in 0 .. n - 1 |-> 0]
  /\ returned = started
  /\ result = [p \in Proc |-> Undefined]

Call(p) ==
  /\ started[p] = returned[p]
  /\ started[p] < MaxCalls
  /\ started' = [started EXCEPT ![p] = @ + 1]
  /\ result' = [result EXCEPT ![p] = Undefined]
  /\ UNCHANGED returned

(* A call cannot return before every rank has made it.                       *)
Return(p) ==
  /\ returned[p] < started[p]
  /\ \A q \in Proc : started[q] >= started[p]
  /\ returned' = [returned EXCEPT ![p] = started[p]]
  /\ result' = [result EXCEPT ![p] = [s \in Proc |-> Block(s, p, started[p])]]
  /\ UNCHANGED started

Next == \E p \in Proc : Call(p) \/ Return(p)

Spec == Init /\ [][Next]_vars
=============================================================================
