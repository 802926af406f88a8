---------------------------- MODULE SparseMethods ----------------------------
(***************************************************************************)
(* The methods of MPIL_Alltoall_crs and MPIL_Alltoallv_crs that are not flat *)
(* (source/neighborhood/sparse_col/alltoall_crs.cpp, alltoallv_crs.cpp):    *)
(*   - the locality-aware ones (_loc): a rank sends one message per node to *)
(*     the rank of its own local rank there, over group_comm, in the        *)
(*     personalized or the nonblocking way; then the ranks of a node hand    *)
(*     the parts on to each other over local_comm (local_redistribute);     *)
(*   - alltoall_crs_rma: every rank puts its message into its own slot of    *)
(*     the destination's window, between two barriers.                      *)
(* Ranks are numbered node by node, PPN to a node: "Assumes SMP Ordering".  *)
(***************************************************************************)
EXTENDS Naturals, FiniteSets

CONSTANTS
  NumNodes,  \* number of nodes
  PPN,       \* ranks per node
  MaxCalls,  \* bound on the number of calls each rank makes
  MaxCount,  \* bound on the size of a message
  MaxTag,    \* the max_tag field of the MPIL_Comm
  Eager,     \* <<method, communicator>>: messages the MPI library buffers at once
  Loads,     \* what the ranks send: functions Proc -> Calls -> pattern
  MethodSeqs \* the sequences of methods the calls may use

Proc == 0 .. NumNodes * PPN - 1
Calls == 1 .. MaxCalls
Methods == {"alltoall_personalized_loc", "alltoallv_personalized_loc",
            "alltoall_nonblocking_loc", "alltoallv_nonblocking_loc", "rma"}

(* What a rank may send in a call: destinations and sizes.  In alltoallv a  *)
(* size is a number of elements.  In alltoall all messages have sendcount   *)
(* elements, and a size of 0 stands for a message of zeros.                 *)
Patterns == UNION { [D -> 0 .. MaxCount] : D \in SUBSET Proc }

ASSUME ConstAssumption ==
  /\ NumNodes \in Nat \ {0} /\ PPN \in Nat \ {0}
  /\ MaxCalls \in Nat /\ MaxCount \in Nat /\ MaxTag \in Nat \ {0}
  /\ Eager \subseteq Methods \X {"group", "local"}
  /\ MethodSeqs \subseteq [Calls -> Methods]
  /\ Loads \subseteq [Proc -> [Calls -> Patterns]]

VARIABLES
  method,   \* method[c]: the method every rank uses in call c
  load,     \* load[p][c]: destinations and sizes p passes to call c
  pc,       \* where each rank is
  call,     \* number of calls each rank has begun
  commTag,  \* mpil_comm->tag
  tag,      \* the tag of the current phase
  entered,  \* entered[p][s]: last call whose collective s rank p has entered
  flight,   \* messages sent, or put, that have not been matched, or landed
  nodeBuf,  \* nodeBuf[p][c]: recv_buf, what p got for its node in the first phase
  win,      \* comm->win_array: the nonzero slots of each rank's window
  got       \* got[p][c]: what p reports as received in call c

vars == <<method, load, pc, call, commTag, tag, entered, flight, nodeBuf, win, got>>

Locations == {"idle", "groupAllreduce", "groupProbe", "groupLoop",
              "localAllreduce", "localProbe", "rmaClear", "rmaPut"}
Collectives == {"group", "local", "clear", "put"}

Personalized == {"alltoall_personalized_loc", "alltoallv_personalized_loc"}
Nonblocking == {"alltoall_nonblocking_loc", "alltoallv_nonblocking_loc"}
Fixed == {"alltoall_personalized_loc", "alltoall_nonblocking_loc"}
-----------------------------------------------------------------------------
NodeOf(p) == p \div PPN
LocalRank(p) == p % PPN
Group(p) == { q \in Proc : LocalRank(q) = LocalRank(p) }
Local(p) == { q \in Proc : NodeOf(q) = NodeOf(p) }

(* The payload p passes to call c for rank d. *)
Data(p, c, d) == [src |-> p, call |-> c, count |-> load[p][c][d]]

(* The entries packed for node n: each is preceded by its destination. *)
PackedForNextNode(p, c, n) ==
  { [dst |-> d, data |-> Data(p, c, d)] :
      d \in { e \in DOMAIN load[p][c] : (e + 1) \div PPN = n } }
PackedFor(p, c, n) ==
  { [dst |-> d, data |-> Data(p, c, d)] :
      d \in { e \in DOMAIN load[p][c] : e \div PPN = n } }

(* One message to the rank of p's local rank on every node it sends to. *)
NodeMessages(p, c, t) ==
  { [comm |-> "group", src |-> p, dst |-> q, tag |-> t, call |-> c,
     items |-> PackedFor(p, c, NodeOf(q))] :
      q \in { r \in Group(p) : PackedFor(p, c, NodeOf(r)) # {} } }

(* What the ranks of p's group packed for p's node: node_recv_size. *)
NodeShare(p, c) == UNION { PackedFor(q, c, NodeOf(p)) : q \in Group(p) }

(* Who sent an entry: the sender's rank in group_comm is its node, and its  *)
(* local rank is the receiver's.                                            *)
OriginOfNode(p, m) == NodeOf(m.src) * PPN
Origin(p, m) == NodeOf(m.src) * PPN + LocalRank(p)
Unpacked(p, m) ==
  { [origin |-> Origin(p, m), dst |-> i.dst, data |-> i.data] : i \in m.items }

(* local_redistribute: what p hands to local rank l of its node.  The code  *)
(* finds l as destination - rank_node * PPN.                                *)
PackedLocally(p, c, l) ==
  { [origin |-> i.origin, data |-> i.data] :
      i \in { j \in nodeBuf[p][c] : j.dst = NodeOf(p) * PPN + l } }
LocalMessages(p, c, t) ==
  { [comm |-> "local", src |-> p, dst |-> q, tag |-> t, call |-> c,
     items |-> PackedLocally(p, c, LocalRank(q))] :
      q \in { r \in Local(p) : PackedLocally(p, c, LocalRank(r)) # {} } }
LocalShare(p, c) == UNION { PackedLocally(q, c, LocalRank(p)) : q \in Local(p) }

(* The size of a packed entry: an int and the sendcount elements that all   *)
(* have, which counts as 1, or two ints and its elements.                   *)
Width(c, i) == IF method[c] \in Fixed THEN 1 ELSE 2 + i.data.count

(* The bytes of packed entries: the pairs of an entry and an index in it.   *)
Bytes(c, items) ==
  Cardinality({ b \in items \X (1 .. 2 + MaxCount) : b[2] <= Width(c, b[1]) })

(* Messages that a receive from MPI_ANY_SOURCE with the tag may match.      *)
Matching(p, comm) ==
  { m \in flight :
      /\ m.comm = comm /\ m.dst = p /\ m.tag = tag[p]
      /\ \A n \in flight :
           n.comm = comm /\ n.src = m.src /\ n.dst = p /\ n.tag = m.tag => m.call <= n.call }

(* The messages of p's current call that no receive has matched. *)
Unmatched(p, comm) == { m \in flight : m.comm = comm /\ m.src = p /\ m.call = call[p] }

CompletedAtOnce(p, comm) == TRUE
(* Waitall over the Isends of a phase. *)
Completed(p, comm) == <<method[call[p]], comm>> \in Eager \/ Unmatched(p, comm) = {}

(* Everyone in S has entered collective s of p's current call. *)
AllEntered(p, S, s) == \A q \in S : entered[q][s] >= call[p]
-----------------------------------------------------------------------------
NextTagStuck(t) == t
NextTagUnbounded(t) == t + 1
NextTag(t) == (t + 1) % MaxTag

TakeTag(p) ==
  /\ tag' = [tag EXCEPT ![p] = commTag[p]]
  /\ commTag' = [commTag EXCEPT ![p] = NextTag(@)]

Init ==
  /\ method \in MethodSeqs
  /\ load \in Loads
  /\ pc = [p \in Proc |-> "idle"]
  /\ call = [p \in Proc |-> 0]
  /\ commTag = [p \in Proc |-> 126 % MaxTag]
  /\ tag = [p \in Proc |-> 0]
  /\ entered = [p \in Proc |-> [s \in Collectives |-> 0]]
  /\ flight = {}
  /\ nodeBuf = [p \in Proc |-> [c \in Calls |-> {}]]
  /\ win = [p \in Proc |-> {}]
  /\ got = [p \in Proc |-> [c \in Calls |-> {}]]

Enter(p, methods, where) ==
  /\ pc[p] = "idle"
  /\ call[p] < MaxCalls
  /\ method[call[p] + 1] \in methods
  /\ call' = [call EXCEPT ![p] = @ + 1]
  /\ pc' = [pc EXCEPT ![p] = where]

(* alltoall_crs_personalized_loc: get_tag, pack by node, and the            *)
(* contribution to the Allreduce of the sizes.                              *)
AlltoallPersonalizedLoc(p) ==
  /\ Enter(p, {"alltoall_personalized_loc"}, "groupAllreduce")
  /\ TakeTag(p)
  /\ entered' = [entered EXCEPT ![p]["group"] = call[p] + 1]
  /\ UNCHANGED <<method, load, flight, nodeBuf, win, got>>

AlltoallvPersonalizedLoc(p) ==
  /\ Enter(p, {"alltoallv_personalized_loc"}, "groupAllreduce")
  /\ TakeTag(p)
  /\ entered' = [entered EXCEPT ![p]["group"] = call[p] + 1]
  /\ UNCHANGED <<method, load, flight, nodeBuf, win, got>>

(* The nonblocking ones: get_tag, pack by node, and the Issends. *)
AlltoallNonblockingLoc(p) ==
  /\ Enter(p, {"alltoall_nonblocking_loc"}, "groupLoop")
  /\ TakeTag(p)
  /\ flight' = flight \cup NodeMessages(p, call[p] + 1, commTag[p])
  /\ UNCHANGED <<method, load, entered, nodeBuf, win, got>>

AlltoallvNonblockingLoc(p) ==
  /\ Enter(p, {"alltoallv_nonblocking_loc"}, "groupLoop")
  /\ TakeTag(p)
  /\ flight' = flight \cup NodeMessages(p, call[p] + 1, commTag[p])
  /\ UNCHANGED <<method, load, entered, nodeBuf, win, got>>

(* The Allreduce over group_comm returns; then the Isends. *)
GroupAllreduce(p) ==
  /\ pc[p] = "groupAllreduce"
  /\ AllEntered(p, Group(p), "group")
  /\ pc' = [pc EXCEPT ![p] = "groupProbe"]
  /\ flight' = flight \cup NodeMessages(p, call[p], tag[p])
  /\ UNCHANGED <<method, load, call, commTag, tag, entered, nodeBuf, win, got>>

ReceiveForNode(p) ==
  /\ \E m \in Matching(p, "group") :
       /\ flight' = flight \ {m}
       /\ nodeBuf' = [nodeBuf EXCEPT ![p][call[p]] = @ \cup Unpacked(p, m)]
  /\ UNCHANGED <<method, load, pc, call, commTag, tag, entered, win, got>>

(* ctr < node_recv_size *)
MoreForNode(p) == Bytes(call[p], nodeBuf[p][call[p]]) < Bytes(call[p], NodeShare(p, call[p]))

(* One iteration of the Probe/Recv loop over group_comm. *)
GroupProbe(p) ==
  /\ pc[p] = "groupProbe"
  /\ MoreForNode(p)
  /\ ReceiveForNode(p)

(* An iteration of the nonblocking loop whose Iprobe finds a message. *)
GroupIprobe(p) ==
  /\ pc[p] = "groupLoop"
  /\ ReceiveForNode(p)

(* Testall over the Issends succeeds: Ibarrier on group_comm. *)
Testall(p) ==
  /\ pc[p] = "groupLoop"
  /\ entered[p]["group"] < call[p]
  /\ Unmatched(p, "group") = {}
  /\ entered' = [entered EXCEPT ![p]["group"] = call[p]]
  /\ UNCHANGED <<method, load, pc, call, commTag, tag, flight, nodeBuf, win, got>>

(* The first phase is over: the Probe loop has ended (alltoallv then waits  *)
(* for its Isends, alltoall does not), or Test says the barrier completed.  *)
PhaseOneOverUntested(p) ==
  \/ /\ pc[p] = "groupProbe"
     /\ ~ MoreForNode(p)
     /\ method[call[p]] \in Fixed \/ Completed(p, "group")
  \/ pc[p] = "groupLoop" /\ entered[p]["group"] = call[p]
PhaseOneOver(p) ==
  \/ /\ pc[p] = "groupProbe"
     /\ ~ MoreForNode(p)
     /\ method[call[p]] \in Fixed \/ Completed(p, "group")
  \/ pc[p] = "groupLoop" /\ AllEntered(p, Group(p), "group")

(* local_redistribute up to its Allreduce. *)
LocalRedistribute(p) ==
  /\ PhaseOneOver(p)
  /\ method[call[p]] \in Fixed
  /\ TakeTag(p)
  /\ pc' = [pc EXCEPT ![p] = "localAllreduce"]
  /\ entered' = [entered EXCEPT ![p]["local"] = call[p]]
  /\ UNCHANGED <<method, load, call, flight, nodeBuf, win, got>>

(* local_redistributev up to its Allreduce: its tag is taken after it. *)
LocalRedistributev(p) ==
  /\ PhaseOneOver(p)
  /\ method[call[p]] \notin Fixed
  /\ pc' = [pc EXCEPT ![p] = "localAllreduce"]
  /\ entered' = [entered EXCEPT ![p]["local"] = call[p]]
  /\ UNCHANGED <<method, load, call, commTag, tag, flight, nodeBuf, win, got>>

(* The Allreduce over local_comm returns; then the Isends. *)
LocalAllreduce(p) ==
  /\ pc[p] = "localAllreduce"
  /\ method[call[p]] \in Fixed
  /\ AllEntered(p, Local(p), "local")
  /\ pc' = [pc EXCEPT ![p] = "localProbe"]
  /\ flight' = flight \cup LocalMessages(p, call[p], tag[p])
  /\ UNCHANGED <<method, load, call, commTag, tag, entered, nodeBuf, win, got>>

LocalAllreducev(p) ==
  /\ pc[p] = "localAllreduce"
  /\ method[call[p]] \notin Fixed
  /\ AllEntered(p, Local(p), "local")
  /\ TakeTag(p)
  /\ pc' = [pc EXCEPT ![p] = "localProbe"]
  /\ flight' = flight \cup LocalMessages(p, call[p], commTag[p])
  /\ UNCHANGED <<method, load, call, entered, nodeBuf, win, got>>

(* ctr < recv_count *)
MoreLocallyInclusive(p) ==
  Bytes(call[p], got[p][call[p]]) <= Bytes(call[p], LocalShare(p, call[p]))
MoreLocally(p) == Bytes(call[p], got[p][call[p]]) < Bytes(call[p], LocalShare(p, call[p]))

(* One iteration of the Probe/Recv loop over local_comm. *)
LocalProbe(p) ==
  /\ pc[p] = "localProbe"
  /\ MoreLocally(p)
  /\ \E m \in Matching(p, "local") :
       /\ flight' = flight \ {m}
       /\ got' = [got EXCEPT ![p][call[p]] = @ \cup m.items]
  /\ UNCHANGED <<method, load, pc, call, commTag, tag, entered, nodeBuf, win>>

(* Waitall over the local Isends, and return. *)
Return(p) ==
  /\ pc[p] = "localProbe"
  /\ ~ MoreLocally(p)
  /\ Completed(p, "local")
  /\ pc' = [pc EXCEPT ![p] = "idle"]
  /\ UNCHANGED <<method, load, call, commTag, tag, entered, flight, nodeBuf, win, got>>
-----------------------------------------------------------------------------
(* alltoall_crs_rma: clear the window and enter the first barrier. *)
RmaClear(p) ==
  /\ Enter(p, {"rma"}, "rmaClear")
  /\ win' = [win EXCEPT ![p] = {}]
  /\ entered' = [entered EXCEPT ![p]["clear"] = call[p] + 1]
  /\ UNCHANGED <<method, load, commTag, tag, flight, nodeBuf, got>>

(* The barrier returns; the puts are issued, the second barrier entered. *)
RmaPut(p) ==
  /\ pc[p] = "rmaClear"
  /\ AllEntered(p, Proc, "clear")
  /\ pc' = [pc EXCEPT ![p] = "rmaPut"]
  /\ flight' = flight \cup
       { [comm |-> "win", src |-> p, dst |-> d, tag |-> 0, call |-> call[p],
          items |-> {[origin |-> p, data |-> Data(p, call[p], d)]}] :
            d \in DOMAIN load[p][call[p]] }
  /\ entered' = [entered EXCEPT ![p]["put"] = call[p]]
  /\ UNCHANGED <<method, load, call, commTag, tag, nodeBuf, win, got>>

(* A put takes effect in the target's window, at slot m.src: any time       *)
(* before the fence that ends the epoch.                                    *)
PutLands(p) ==
  /\ \E m \in { n \in flight : n.comm = "win" /\ n.dst = p } :
       /\ flight' = flight \ {m}
       /\ win' = [win EXCEPT ![p] = { i \in @ : i.origin # m.src }
                                      \cup { i \in m.items : i.data.count > 0 }]
  /\ UNCHANGED <<method, load, pc, call, commTag, tag, entered, nodeBuf, got>>

(* The second barrier and the fence: every put of the call has landed.  A   *)
(* slot with a nonzero byte is reported as a message of its source.         *)
FenceAlone(p) == TRUE
Fence(p) ==
  /\ AllEntered(p, Proc, "put")
  /\ \A m \in flight : m.comm = "win" => m.src # p /\ m.dst # p
RmaScan(p) ==
  /\ pc[p] = "rmaPut"
  /\ Fence(p)
  /\ pc' = [pc EXCEPT ![p] = "idle"]
  /\ got' = [got EXCEPT ![p][call[p]] = win[p]]
  /\ UNCHANGED <<method, load, call, commTag, tag, entered, flight, nodeBuf, win>>

(* Every rank has made all its calls. *)
Finished ==
  /\ \A p \in Proc : pc[p] = "idle" /\ call[p] = MaxCalls
  /\ UNCHANGED vars

Step(p) ==
  \/ AlltoallPersonalizedLoc(p)
  \/ AlltoallvPersonalizedLoc(p)
  \/ AlltoallNonblockingLoc(p)
  \/ AlltoallvNonblockingLoc(p)
  \/ GroupAllreduce(p)
  \/ GroupProbe(p)
  \/ GroupIprobe(p)
  \/ Testall(p)
  \/ LocalRedistribute(p)
  \/ LocalRedistributev(p)
  \/ LocalAllreduce(p)
  \/ LocalAllreducev(p)
  \/ LocalProbe(p)
  \/ Return(p)
  \/ RmaClear(p)
  \/ RmaPut(p)
  \/ RmaScan(p)

Next == (\E p \in Proc : Step(p) \/ PutLands(p)) \/ Finished

Spec == Init /\ [][Next]_vars

(* Every rank keeps executing and makes all its calls; a poll that fails    *)
(* changes nothing and is repeated, so the first that succeeds is a step of  *)
(* its rank; and MPI completes a put at the latest at the fence.            *)
Fairness == \A p \in Proc : WF_vars(Step(p)) /\ WF_vars(PutLands(p))

FairSpec == Spec /\ Fairness
-----------------------------------------------------------------------------
DataSet == [src : Proc, call : Calls, count : 0 .. MaxCount]
PackedSet == [dst : Proc, data : DataSet]
ReportSet == [origin : Proc, data : DataSet]
HeldSet == [origin : Proc, dst : Proc, data : DataSet]
MessageSet ==
  [comm : {"group", "local", "win"}, src : Proc, dst : Proc, tag : 0 .. MaxTag - 1,
   call : Calls, items : SUBSET (PackedSet \cup ReportSet)]

(* Types of the variables. *)
TypeOK ==
  /\ method \in [Calls -> Methods]
  /\ load \in [Proc -> [Calls -> Patterns]]
  /\ pc \in [Proc -> Locations]
  /\ call \in [Proc -> 0 .. MaxCalls]
  /\ commTag \in [Proc -> 0 .. MaxTag - 1]
  /\ tag \in [Proc -> 0 .. MaxTag - 1]
  /\ entered \in [Proc -> [Collectives -> 0 .. MaxCalls]]
  /\ \A m \in flight :
       /\ [m EXCEPT !.items = {}] \in MessageSet
       /\ m.items \subseteq (IF m.comm = "group" THEN PackedSet ELSE ReportSet)
  /\ \A p \in Proc, c \in Calls : nodeBuf[p][c] \subseteq HeldSet
  /\ \A p \in Proc : win[p] \subseteq ReportSet
  /\ \A p \in Proc, c \in Calls : got[p][c] \subseteq ReportSet

(* Both wildcard loops can only match messages of their own call, although   *)
(* ranks of other nodes may be a call ahead: the two phases of a call take  *)
(* two tags.                                                                *)
TagsSeparateCalls ==
  \A p \in Proc :
    /\ pc[p] \in {"groupProbe", "groupLoop"} =>
         \A m \in Matching(p, "group") : m.call = call[p]
    /\ pc[p] = "localProbe" => \A m \in Matching(p, "local") : m.call = call[p]

(* What a rank holds between the phases is for its own node: destination -  *)
(* rank_node * PPN, which indexes msg_counts and displs, is a local rank.   *)
HeldIsForThisNode ==
  \A p \in Proc, c \in Calls : \A i \in nodeBuf[p][c] :
    i.dst - NodeOf(p) * PPN \in 0 .. PPN - 1

(* When the first phase of a rank is over, no message of it is on its way    *)
(* to that rank: the next call's Probe loop would take it for its own.       *)
FirstPhaseComplete ==
  \A p \in Proc : pc[p] \in {"localAllreduce", "localProbe"} =>
    /\ \A m \in flight : m.comm = "group" /\ m.dst = p => m.call > call[p]
    /\ { [dst |-> i.dst, data |-> i.data] : i \in nodeBuf[p][call[p]] }
         = NodeShare(p, call[p])

(* A message that is still to be received although its sender has returned,  *)
(* and freed the buffer it lay in, was copied by the MPI library before, for  *)
(* the sends are waited for.  The one exception is the first phase of         *)
(* alltoall_crs_personalized_loc, whose Isends no call waits for: such a      *)
(* message, if MPI does not copy it, is read from freed memory.               *)
Returned(p) == IF pc[p] = "idle" THEN call[p] ELSE call[p] - 1
NeverAwaited(m) == method[m.call] = "alltoall_personalized_loc" /\ m.comm = "group"
OnlyUnawaitedOutlive ==
  \A m \in flight : m.call <= Returned(m.src) =>
    <<method[m.call], m.comm>> \in Eager \/ NeverAwaited(m)

(* The two-phase methods report every source, the ones that sent no element *)
(* or zeros included: a header travels with every message.  The one-sided    *)
(* method misses the sources of zeros, and no other.                         *)
EverySourceReported ==
  \A p \in Proc, c \in Calls : c <= Returned(p) =>
    { i.origin : i \in got[p][c] } =
      { q \in Proc : p \in DOMAIN load[q][c] /\ (method[c] = "rma" => load[q][c][p] > 0) }

(* Every call returns. *)
CallsReturn == \A p \in Proc : pc[p] # "idle" ~> pc[p] = "idle"

(* The methods implement the promise of the sparse exchange: every payload  *)
(* is reported once, under the rank that sent it, in the call it was sent.  *)
Misattributed(i) == [i.data EXCEPT !.call = 0]
Reported(p, c) ==
  { IF i.origin = i.data.src THEN i.data ELSE Misattributed(i) : i \in got[p][c] }
Promise == INSTANCE CrsPromise WITH
  Patterns <- { l[p][c] : l \in Loads, p \in Proc, c \in Calls },
  started <- call,
  returned <- [p \in Proc |-> Returned(p)],
  sends <- [p \in Proc |-> [c \in Calls |-> IF c <= call[p] THEN load[p][c] ELSE << >>]],
  result <- [p \in Proc |-> [c \in Calls |-> IF c <= Returned(p) THEN Reported(p, c) ELSE {}]]
KeepsPromise == Promise!Spec
=============================================================================
