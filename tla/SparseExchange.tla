--------------------------- MODULE SparseExchange ---------------------------
(***************************************************************************)
(* The flat algorithms behind MPIL_Alltoall_crs and MPIL_Alltoallv_crs      *)
(* (source/neighborhood/sparse_col/alltoall_crs.cpp, alltoallv_crs.cpp):    *)
(*   - personalized: an Allreduce tells every rank how much it will receive, *)
(*     then Isend, a Probe/Recv loop over MPI_ANY_SOURCE, and Waitall;       *)
(*   - nonblocking (NBX): Issend, an Iprobe/Recv loop that tests the sends   *)
(*     and then a nonblocking barrier entered once they have all matched.    *)
(* Every rank makes a sequence of calls on one MPIL_Comm; the method may     *)
(* change from one call to the next (MPIL_Set_alltoall_crs is global state). *)
(* Each call takes its tag from the communicator's counter (get_tag), and    *)
(* nothing but that tag keeps a wildcard receive inside its own call.        *)
(***************************************************************************)
EXTENDS Naturals, FiniteSets

CONSTANTS
  Proc,      \* the ranks of comm->global_comm
  MaxCalls,  \* bound on the number of calls each rank makes
  MaxCount,  \* bound on the number of elements of a message
  MaxTag,    \* MaxTag[p]: the max_tag field of rank p's MPIL_Comm
  Buffered,  \* message sizes the MPI library buffers (Isend completes at once)
  Patterns,  \* what a rank may send in a call: partial functions Proc -> count
  MethodSeqs \* the sequences of methods the calls may use

Calls == 1 .. MaxCalls
Methods == {"alltoall_personalized", "alltoallv_personalized", "nonblocking"}

ASSUME ConstAssumption ==
  /\ IsFiniteSet(Proc)
  /\ MaxCalls \in Nat
  /\ MaxCount \in Nat
  /\ MaxTag \in [Proc -> Nat \ {0}]
  /\ Buffered \subseteq 0 .. MaxCount
  /\ Patterns \subseteq UNION { [D -> 0 .. MaxCount] : D \in SUBSET Proc }
  /\ MethodSeqs \subseteq [Calls -> Methods]

VARIABLES
  method,   \* method[c]: the method every rank uses in call c
  pc,       \* where each rank is
  call,     \* number of calls each rank has begun
  commTag,  \* xcomm->tag
  tag,      \* the tag of the current call
  sync,     \* calls whose collective (Allreduce, Ibarrier) the rank has entered
  sends,    \* sends[p][c]: destinations and counts p passed to call c
  flight,   \* messages posted and not yet matched by a receive
  got       \* got[p][c]: the messages p received during its call c

vars == <<method, pc, call, commTag, tag, sync, sends, flight, got>>

Locations == {"idle", "allreduce", "probe", "iprobe", "test"}

Payload(m) == [src |-> m.src, call |-> m.call, count |-> m.count]

(* The messages rank p posts in call c, sent with tag t. *)
Outgoing(p, c, t, s) ==
  { [src |-> p, dst |-> d, tag |-> t, call |-> c, count |-> s[d]] : d \in DOMAIN s }

(* What was sent to p in call c. *)
Addressed(p, c) ==
  { [src |-> q, call |-> c, count |-> sends[q][c][p]] :
      q \in { r \in Proc : p \in DOMAIN sends[r][c] } }

(* The units the personalized loops count, messages for alltoall and       *)
(* elements for alltoallv: a set, so that ctr and recv_size are its size.  *)
WeightElements(c, m) == m.count
Weight(c, m) == IF method[c] = "alltoall_personalized" THEN 1 ELSE m.count
Units(c, S) == { u \in S \X (1 .. MaxCount + 1) : u[2] <= Weight(c, u[1]) }

(* ctr < recv_size (recv_nnz for alltoall). *)
MoreToReceiveInclusive(p) ==
  LET c == call[p]
  IN  Cardinality(Units(c, got[p][c])) <= Cardinality(Units(c, Addressed(p, c)))
MoreToReceive(p) ==
  LET c == call[p]
  IN  Cardinality(Units(c, got[p][c])) < Cardinality(Units(c, Addressed(p, c)))

(* Messages a receive by p from MPI_ANY_SOURCE with the call's tag may     *)
(* match: MPI keeps messages of one source and tag in order.               *)
Matching(p) ==
  { m \in flight :
      /\ m.dst = p
      /\ m.tag = tag[p]
      /\ \A n \in flight :
           n.src = m.src /\ n.dst = p /\ n.tag = m.tag => m.call <= n.call }

Receive(p, m) ==
  /\ flight' = flight \ {m}
  /\ got' = [got EXCEPT ![p][call[p]] = @ \cup {Payload(m)}]

(* The sends of p's current call that no receive has matched. *)
UnmatchedUnbuffered(p) ==
  { m \in flight : m.src = p /\ m.call = call[p] /\ m.count \notin Buffered }
Unmatched(p) == { m \in flight : m.src = p /\ m.call = call[p] }
-----------------------------------------------------------------------------
NextTagUnbounded(p, t) == t + 1
NextTagStuck(p, t) == t
NextTag(p, t) == (t + 1) % MaxTag[p]

Init ==
  /\ method \in MethodSeqs
  /\ pc = [p \in Proc |-> "idle"]
  /\ call = [p \in Proc |-> 0]
  /\ commTag = [p \in Proc |-> 126 % MaxTag[p]]
  /\ tag = [p \in Proc |-> 0]
  /\ sync = [p \in Proc |-> 0]
  /\ sends = [p \in Proc |-> [c \in Calls |-> << >>]]
  /\ flight = {}
  /\ got = [p \in Proc |-> [c \in Calls |-> {}]]

(* What both methods do first. *)
Enter(p, s) ==
  /\ pc[p] = "idle"
  /\ call[p] < MaxCalls
  /\ call' = [call EXCEPT ![p] = @ + 1]
  /\ tag' = [tag EXCEPT ![p] = commTag[p]]
  /\ commTag' = [commTag EXCEPT ![p] = NextTag(p, commTag[p])]
  /\ sends' = [sends EXCEPT ![p][call[p] + 1] = s]

(* personalized: get_tag and the contribution to the Allreduce. *)
EnterPersonalized(p, s) ==
  /\ Enter(p, s)
  /\ method[call[p] + 1] # "nonblocking"
  /\ pc' = [pc EXCEPT ![p] = "allreduce"]
  /\ sync' = [sync EXCEPT ![p] = call[p] + 1]
  /\ UNCHANGED <<method, flight, got>>

(* nonblocking: get_tag and the Issend of every message. *)
EnterNonblocking(p, s) ==
  /\ Enter(p, s)
  /\ method[call[p] + 1] = "nonblocking"
  /\ pc' = [pc EXCEPT ![p] = "iprobe"]
  /\ flight' = flight \cup Outgoing(p, call[p] + 1, commTag[p], s)
  /\ UNCHANGED <<method, sync, got>>

(* The Allreduce returns once every rank has entered it; then the Isends.  *)
Allreduce(p) ==
  /\ pc[p] = "allreduce"
  /\ \A q \in Proc : sync[q] >= call[p]
  /\ pc' = [pc EXCEPT ![p] = "probe"]
  /\ flight' = flight \cup Outgoing(p, call[p], tag[p], sends[p][call[p]])
  /\ UNCHANGED <<method, call, commTag, tag, sync, sends, got>>

(* One iteration of the Probe/Recv loop. *)
ProbeRecv(p) ==
  /\ pc[p] = "probe"
  /\ MoreToReceive(p)
  /\ \E m \in Matching(p) : Receive(p, m)
  /\ UNCHANGED <<method, pc, call, commTag, tag, sync, sends>>

(* The loop has ended: Waitall over the Isends, and return. *)
Waitall(p) ==
  /\ pc[p] = "probe"
  /\ ~ MoreToReceive(p)
  /\ \A m \in Unmatched(p) : m.count \in Buffered
  /\ pc' = [pc EXCEPT ![p] = "idle"]
  /\ UNCHANGED <<method, call, commTag, tag, sync, sends, flight, got>>

(* nonblocking: Iprobe finds a message, and it is received. *)
IprobeRecv(p) ==
  /\ pc[p] = "iprobe"
  /\ \E m \in Matching(p) : Receive(p, m)
  /\ pc' = [pc EXCEPT ![p] = "test"]
  /\ UNCHANGED <<method, call, commTag, tag, sync, sends>>

(* Iprobe finds nothing: nothing was sent, or nothing has arrived yet. *)
IprobeNothing(p) ==
  /\ pc[p] = "iprobe"
  /\ pc' = [pc EXCEPT ![p] = "test"]
  /\ UNCHANGED <<method, call, commTag, tag, sync, sends, flight, got>>

(* Testall succeeds: the barrier is entered.  An Issend completes only once *)
(* a receive has matched it.                                                *)
Testall(p) ==
  /\ pc[p] = "test"
  /\ sync[p] < call[p]
  /\ Unmatched(p) = {}
  /\ sync' = [sync EXCEPT ![p] = call[p]]
  /\ pc' = [pc EXCEPT ![p] = "iprobe"]
  /\ UNCHANGED <<method, call, commTag, tag, sends, flight, got>>

(* Test of the barrier succeeds: the call returns. *)
TestBarrierAlone(p) ==
  /\ pc[p] = "test"
  /\ sync[p] = call[p]
  /\ pc' = [pc EXCEPT ![p] = "idle"]
  /\ UNCHANGED <<method, call, commTag, tag, sync, sends, flight, got>>
TestBarrier(p) ==
  /\ pc[p] = "test"
  /\ sync[p] = call[p]
  /\ \A q \in Proc : sync[q] >= call[p]
  /\ pc' = [pc EXCEPT ![p] = "idle"]
  /\ UNCHANGED <<method, call, commTag, tag, sync, sends, flight, got>>

(* Either test reports that the operation has not completed, or not yet. *)
TestIncomplete(p) ==
  /\ pc[p] = "test"
  /\ pc' = [pc EXCEPT ![p] = "iprobe"]
  /\ UNCHANGED <<method, call, commTag, tag, sync, sends, flight, got>>

(* Every rank has made all its calls. *)
Finished ==
  /\ \A p \in Proc : pc[p] = "idle" /\ call[p] = MaxCalls
  /\ UNCHANGED vars

Step(p) ==
  \/ \E s \in Patterns : EnterPersonalized(p, s) \/ EnterNonblocking(p, s)
  \/ Allreduce(p)
  \/ ProbeRecv(p)
  \/ Waitall(p)
  \/ IprobeRecv(p)
  \/ IprobeNothing(p)
  \/ Testall(p)
  \/ TestBarrier(p)
  \/ TestIncomplete(p)

Next == (\E p \in Proc : Step(p)) \/ Finished

Spec == Init /\ [][Next]_vars

(* Every rank keeps executing, and makes all its calls, which is what MPI   *)
(* asks of the callers of a collective.  A message posted is found by       *)
(* repeated Iprobes, and a completed operation by repeated Tests: the       *)
(* progress rule of MPI, strong fairness on the three successful outcomes.  *)
Fairness ==
  \A p \in Proc :
    /\ WF_vars(Step(p))
    /\ SF_vars(IprobeRecv(p))
    /\ SF_vars(Testall(p))
    /\ SF_vars(TestBarrier(p))

FairSpec == Spec /\ Fairness
-----------------------------------------------------------------------------
PayloadSet == [src : Proc, call : Calls, count : 0 .. MaxCount]
MessageSet == [src : Proc, dst : Proc, tag : Nat, call : Calls, count : 0 .. MaxCount]

(* Types of the variables. *)
TypeOK ==
  /\ method \in [Calls -> Methods]
  /\ pc \in [Proc -> Locations]
  /\ call \in [Proc -> 0 .. MaxCalls]
  /\ commTag \in [Proc -> Nat] /\ \A p \in Proc : commTag[p] < MaxTag[p]
  /\ tag \in [Proc -> Nat]
  /\ sync \in [Proc -> 0 .. MaxCalls]
  /\ sends \in [Proc -> [Calls -> Patterns \cup {<< >>}]]
  /\ flight \subseteq MessageSet
  /\ got \in [Proc -> [Calls -> SUBSET PayloadSet]]

(* A wildcard receive can only match a message of the receiver's own call:  *)
(* get_tag's counter keeps the calls apart although ranks run ahead of each *)
(* other and the methods change.                                            *)
TagsSeparateCalls ==
  \A p \in Proc : pc[p] \in {"probe", "iprobe", "test"} =>
    \A m \in Matching(p) : m.call = call[p]

(* A rank that returned from its last call leaves nothing behind: no message *)
(* with data is still in flight to it, so the communicator can be freed and  *)
(* its tags used again.                                                      *)
NothingLeftBehind ==
  \A p \in Proc : pc[p] = "idle" =>
    \A m \in flight : m.dst = p /\ m.count > 0 => m.call > call[p]

(* The methods that synchronise on messages rather than on elements report   *)
(* every source, the ones that sent no element included.                     *)
EmptyMessagesReported ==
  \A p \in Proc, c \in Calls :
    /\ c < call[p] \/ (c = call[p] /\ pc[p] = "idle")
    /\ method[c] # "alltoallv_personalized"
    => got[p][c] = Addressed(p, c)

(* Every call returns. *)
CallsReturn == \A p \in Proc : pc[p] # "idle" ~> pc[p] = "idle"

(* The exchange implements its promise. *)
Returned(p) == IF pc[p] = "idle" THEN call[p] ELSE call[p] - 1
Promise == INSTANCE CrsPromise WITH
  started <- call,
  returned <- [p \in Proc |-> Returned(p)],
  result <- [p \in Proc |-> [c \in Calls |-> IF c <= Returned(p) THEN got[p][c] ELSE {}]]
KeepsPromise == Promise!Spec
=============================================================================
