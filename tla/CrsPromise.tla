----------------------------- MODULE CrsPromise -----------------------------
(***************************************************************************)
(* What MPIL_Alltoall_crs and MPIL_Alltoallv_crs promise.  Every rank makes *)
(* the same sequence of calls; in each call it names the ranks it sends to  *)
(* and learns from the result which ranks sent to it, and what.  A call     *)
(* returns only once its outcome is determined, that is once every rank has *)
(* made its own contribution to it.                                         *)
(***************************************************************************)
EXTENDS Naturals

CONSTANTS
  Proc,      \* the ranks of the communicator
  MaxCalls,  \* bound on the number of calls each rank makes
  Patterns   \* what a rank may send in a call: partial functions Proc -> count

VARIABLES
  started,   \* number of calls each rank has begun
  returned,  \* number of calls each rank has completed
  sends,     \* sends[p][c]: the destinations and counts p passed to call c
  result     \* result[p][c]: the set of <<source, call, count>> p was given

vars == <<started, returned, sends, result>>

Calls == 1 .. MaxCalls

(* The messages addressed to p in call c: the payload is identified by its *)
(* source and its call.                                                    *)
Addressed(p, c) ==
  { [src |-> q, call |-> c, count |-> sends[q][c][p]] :
      q \in { r \in Proc : p \in DOMAIN sends[r][c] } }

(* The ones that carry data. *)
Carrying(S) == { m \in S : m.count > 0 }

Init ==
  /\ started = [p \in Proc |-> 0]
  /\ returned = [p \in Proc |-> 0]
  /\ sends = [p \in Proc |-> [c \in Calls |-> << >>]]
  /\ result = [p \in Proc |-> [c \in Calls |-> {}]]

(* Rank p enters its next call with the sends s. *)
Call(p, s) ==
  /\ started[p] = returned[p]
  /\ started[p] < MaxCalls
  /\ started' = [started EXCEPT ![p] = @ + 1]
  /\ sends' = [sends EXCEPT ![p][started[p] + 1] = s]
  /\ UNCHANGED <<returned, result>>

(* Rank p returns from its current call: it was handed every message that  *)
(* carries data, each once and none of another call; a message of no       *)
(* elements may be reported or not.                                        *)
Return(p) ==
  /\ returned[p] < started[p]
  /\ \A q \in Proc : started[q] >= started[p]
  /\ \E R \in SUBSET Addressed(p, started[p]) :
       /\ Carrying(Addressed(p, started[p])) \subseteq R
       /\ result' = [result EXCEPT ![p][started[p]] = R]
  /\ returned' = [returned EXCEPT ![p] = started[p]]
  /\ UNCHANGED <<started, sends>>

Next ==
  \E p \in Proc :
    \/ \E s \in Patterns : Call(p, s)
    \/ Return(p)

Spec == Init /\ [][Next]_vars
=============================================================================
