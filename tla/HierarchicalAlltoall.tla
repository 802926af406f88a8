------------------------ MODULE HierarchicalAlltoall ------------------------
(***************************************************************************)
(* MPIL_Alltoall by the methods that go through groups of ranks               *)
(* (source/collective/alltoall/).  A group is a node, or the ranks of a node    *)
(* with one leader.                                                          *)
(*                                                                          *)
(* multileader (hierarchical with one leader per node): the leader gathers      *)
(* the send buffers of its group, the leaders exchange, and each scatters.     *)
(* locality_aware (node_aware with one group per node): every rank exchanges    *)
(* with its counterparts in the other groups, then within its group.           *)
(* multileader_locality: as multileader, but leaders exchange with their        *)
(* counterparts on the other nodes, then with those on their own.              *)
(*                                                                          *)
(* What is hard is where each block lies: every step packs the buffer of the    *)
(* step before it anew.  The code assumes consecutive ranks on a node, as       *)
(* many on each, and groups of one size; so does Shapes.  Which communicators   *)
(* the methods take from the MPIL_Comm, and when they are stale, is the        *)
(* subject of CommObject; here a leader_comm is its size.  The exchange f,      *)
(* pairwise_helper or nonblocking_helper, is that of FlatAlltoall and stands    *)
(* here for what that module shows of it.  Buffers are counted in blocks.      *)
(***************************************************************************)
EXTENDS Integers, Sequences, FiniteSets

CONSTANTS
  Shapes,      \* pairs <<number of nodes, ranks per node>>
  NumLeaders,  \* num_leaders_per_node, 4 in the code
  LeaderSizes, \* the sizes of a leader_comm the user may have made, 0 for none
  MaxCalls,    \* bound on the number of calls
  Programs     \* Programs[s]: what the ranks may do in shape s, sequences of algorithms

Algorithms == {"HIERARCHICAL", "MULTILEADER", "NODE_AWARE", "LOCALITY_AWARE", "MULTILEADER_LOCALITY"}

ASSUME HierarchicalAssumption ==
  /\ Shapes \subseteq (Nat \ {0}) \X (Nat \ {0})
  /\ NumLeaders \in Nat \ {0}
  /\ LeaderSizes \subseteq Nat /\ MaxCalls \in Nat
  /\ \A s \in Shapes : \A prog \in Programs[s] :
       prog \in Seq(Algorithms) /\ Len(prog) <= MaxCalls

(* The ranks of a node divide evenly among its leaders.                       *)
ASSUME EvenLeaders ==
  \A s \in Shapes :
    LET leaders == IF s[2] < NumLeaders THEN s[2] ELSE NumLeaders
    IN  s[2] % (s[2] \div leaders) = 0

VARIABLES
  shape,       \* the pair <<n_nodes, ppn>>
  program,     \* the calls the ranks make
  topo,        \* whether local_comm exists, by rank
  leaderSize,  \* the size of leader_comm, 0 if there is none, by rank
  call,        \* the number of calls each rank has begun
  at,          \* the collective each rank is in
  passed,      \* what each rank has passed to its collectives <<call, name>>
  recvbuf      \* the user's receive buffer

vars == <<shape, program, topo, leaderSize, call, at, passed, recvbuf>>
-----------------------------------------------------------------------------
NumNodes == shape[1]
PPN == shape[2]
NumProcs == NumNodes * PPN
Proc == 0 .. NumProcs - 1

Undefined == << >>
Block(s, d, c) == [src |-> s, dst |-> d, call |-> c]
SendBuf(p, c) == [d \in Proc |-> Block(p, d, c)]

(* The methods, by the way of their data and the groups they want on a node.   *)
Multileader(leaders) == [way |-> "multileader", groups |-> leaders]
Hierarchical == Multileader(1)
LocalityAware(groups) == [way |-> "locality_aware", groups |-> groups]
NodeAware == LocalityAware(1)
MultileaderLocality == [way |-> "multileader_locality", groups |-> NumLeaders]

(* The switch of MPIL_Alltoall.                                              *)
Alltoall(algorithm) ==
  CASE algorithm = "HIERARCHICAL"         -> Hierarchical
    [] algorithm = "MULTILEADER"          -> Multileader(NumLeaders)
    [] algorithm = "NODE_AWARE"           -> NodeAware
    [] algorithm = "LOCALITY_AWARE"       -> LocalityAware(NumLeaders)
    [] algorithm = "MULTILEADER_LOCALITY" -> MultileaderLocality
Method(p) == Alltoall(program[call[p]])

(* Whether a method makes a leader_comm, and of what size.                    *)
ProcsPerLeader(groups) == PPN \div (IF PPN < groups THEN PPN ELSE groups)
NeedsLeadersUnlessLeader(p, method) ==
  CASE method.way = "multileader_locality" -> leaderSize[p] = 0
    [] OTHER -> /\ method.groups > 1 /\ leaderSize[p] # ProcsPerLeader(method.groups)
                /\ leaderSize[p] = 0 \/ p % leaderSize[p] # 0
NeedsLeaders(p, method) ==
  CASE method.way = "multileader_locality" -> leaderSize[p] = 0
    [] OTHER -> method.groups > 1 /\ leaderSize[p] # ProcsPerLeader(method.groups)

(* The size of the groups p's call works with: local_comm or leader_comm.      *)
GroupSize(p) ==
  IF Method(p).way # "multileader_locality" /\ Method(p).groups <= 1 THEN PPN ELSE leaderSize[p]
-----------------------------------------------------------------------------
(* Communicators: their ranks in order, from 0.                               *)
Ranks(first, by, size) == [i \in 0 .. size - 1 |-> first + i * by]
Group(p, g) == Ranks((p \div g) * g, 1, g)                    \* local_comm, leader_comm
Counterparts(p, g) == Ranks(p % g, g, NumProcs \div g)        \* group_comm, leader_group_comm
LocalLeaders(p, g) ==                                         \* leader_local_comm
  Ranks((p \div PPN) * PPN + (p % g), g, PPN \div g)

IsLeader(p, g) == p % g = 0
RankIn(p, comm) == CHOOSE i \in DOMAIN comm : comm[i] = p
Members(comm) == { comm[i] : i \in DOMAIN comm }

(* Collectives: what p is given, from what the members have passed to the       *)
(* collective of this name in its call.                                      *)
HasPassed(q, c, name) == <<c, name>> \in DOMAIN passed[q]
Passed(q, p, name) == passed[q][<<call[p], name>>]
AllPassed(p, comm, name) == \A q \in Members(comm) : HasPassed(q, call[p], name)

(* The size of a communicator.                                               *)
SizeOf(comm) == Cardinality(DOMAIN comm)

Gather(p, comm) ==
  [k \in 0 .. SizeOf(comm) * NumProcs - 1 |->
     Passed(comm[k \div NumProcs], p, "gather")[k % NumProcs]]
Scatter(p, comm) ==
  [s \in Proc |-> Passed(comm[0], p, "scatter")[RankIn(p, comm) * NumProcs + s]]
(* f: an alltoall of count blocks for each member.                            *)
Exchange(p, comm, name, count) ==
  [k \in 0 .. SizeOf(comm) * count - 1 |->
     Passed(comm[k \div count], p, name)[RankIn(p, comm) * count + (k % count)]]
-----------------------------------------------------------------------------
(* The loops that pack buffers, as the place a block is copied from.           *)

(* multileader 2.: for each group, the blocks that each rank of mine has for it. *)
PackForLeaders(buf, g) ==
  [k \in 0 .. g * NumProcs - 1 |->
     LET dest == k \div (g * g)
         origin == (k \div g) % g
     IN  buf[origin * NumProcs + dest * g + (k % g)]]
(* multileader 4.: for each rank of mine, the blocks that every rank has for it. *)
PackForScatter(buf, g) ==
  [k \in 0 .. g * NumProcs - 1 |->
     LET dest == k \div NumProcs
         orig == k % NumProcs
     IN  buf[orig * g + dest]]

(* locality_aware 2. and 4.                                                  *)
PackForGroup(buf, g) ==
  LET n == NumProcs \div g IN
  [k \in 0 .. NumProcs - 1 |->
     LET dest == k \div n
         origin == k % n
     IN  buf[origin * g + dest]]
ReorderNot(buf, g) == buf
Reorder(buf, g) ==
  LET n == NumProcs \div g IN
  [k \in 0 .. NumProcs - 1 |->
     LET group == k \div g
         dest == k % g
     IN  buf[group + dest * n]]

(* multileader_locality: for each leader on the node, the blocks that came for  *)
(* its group from each node.                                                 *)
PackForLocalLeaders(buf, g) ==
  [k \in 0 .. g * NumProcs - 1 |->
     LET leader == k \div (NumNodes * g * g)
         node == (k \div (g * g)) % NumNodes
     IN  buf[node * PPN * g + leader * g * g + (k % (g * g))]]
PackLocalForScatter(buf, g) ==
  [k \in 0 .. g * NumProcs - 1 |->
     LET dest == k \div NumProcs
         r == k % NumProcs
         node == r \div PPN
         leader == (r % PPN) \div g
         proc == r % g
     IN  buf[node * g * g + leader * NumNodes * g * g + proc * g + dest]]
-----------------------------------------------------------------------------
Init ==
  /\ shape \in Shapes
  /\ program \in Programs[shape]
  /\ \E g \in { h \in LeaderSizes : h = 0 \/ PPN % h = 0 } :
       /\ leaderSize = [p \in Proc |-> g]
       /\ topo = [p \in Proc |-> g # 0]
  /\ call = [p \in Proc |-> 0]
  /\ at = [p \in Proc |-> "idle"]
  /\ passed = [p \in Proc |-> << >>]
  /\ recvbuf = [p \in Proc |-> Undefined]

With(f, key, value) == [k \in DOMAIN f \cup {key} |-> IF k = key THEN value ELSE f[k]]

(* p enters the collective of this name in call c.                            *)
EnterIn(p, c, name, buf) ==
  /\ at' = [at EXCEPT ![p] = name]
  /\ passed' = [passed EXCEPT ![p] = With(@, <<c, name>>, buf)]
Enter(p, name, buf) == EnterIn(p, call[p], name, buf)

(* The first collective of the data: with or without leaders.                  *)
EnterData(p, c, method) ==
  EnterIn(p, c, IF method.way = "locality_aware" THEN "group" ELSE "gather", SendBuf(p, c))
EnterLeaders(p, c, method) ==
  IF NeedsLeaders(p, method) THEN EnterIn(p, c, "leaders", Undefined) ELSE EnterData(p, c, method)

Call(p) ==
  /\ at[p] = "idle" /\ call[p] < Len(program)
  /\ call' = [call EXCEPT ![p] = @ + 1]
  /\ LET c == call[p] + 1
         method == Alltoall(program[c])
     IN  IF topo[p] THEN EnterLeaders(p, c, method) ELSE EnterIn(p, c, "topo", Undefined)
  /\ recvbuf' = [recvbuf EXCEPT ![p] = Undefined]
  /\ UNCHANGED <<shape, program, topo, leaderSize>>

(* MPIL_Comm_topo_init has split global_comm.                                *)
TopoInit(p) ==
  /\ at[p] = "topo" /\ AllPassed(p, Ranks(0, 1, NumProcs), "topo")
  /\ topo' = [topo EXCEPT ![p] = TRUE]
  /\ EnterLeaders(p, call[p], Method(p))
  /\ UNCHANGED <<shape, program, leaderSize, call, recvbuf>>

(* MPIL_Comm_leader_init has split global_comm.                              *)
LeaderInit(p) ==
  /\ at[p] = "leaders" /\ AllPassed(p, Ranks(0, 1, NumProcs), "leaders")
  /\ leaderSize' = [leaderSize EXCEPT ![p] = ProcsPerLeader(Method(p).groups)]
  /\ EnterData(p, call[p], Method(p))
  /\ UNCHANGED <<shape, program, topo, call, recvbuf>>

(* MPI_Gather returns to a leader when its group has sent, to the others at     *)
(* once, who pass nothing to the scatter.                                    *)
Gathered(p) ==
  LET g == GroupSize(p) IN
  /\ at[p] = "gather"
  /\ IF IsLeader(p, g)
     THEN /\ AllPassed(p, Group(p, g), "gather")
          /\ Enter(p, "group", PackForLeaders(Gather(p, Group(p, g)), g))
     ELSE Enter(p, "scatter", Undefined)
  /\ UNCHANGED <<shape, program, topo, leaderSize, call, recvbuf>>

(* The ranks f is called over first, and the blocks for each of them.          *)
FirstComm(p, g) ==
  IF Method(p).way = "multileader_locality" THEN Counterparts(p, PPN) ELSE Counterparts(p, g)
FirstCount(p, g) ==
  CASE Method(p).way = "multileader" -> g * g
    [] Method(p).way = "multileader_locality" -> PPN * g
    [] Method(p).way = "locality_aware" -> g

GroupExchanged(p) ==
  LET g == GroupSize(p)
      buf == Exchange(p, FirstComm(p, g), "group", FirstCount(p, g))
  IN
  /\ at[p] = "group" /\ AllPassed(p, FirstComm(p, g), "group")
  /\ CASE Method(p).way = "multileader" -> Enter(p, "scatter", PackForScatter(buf, g))
       [] Method(p).way = "multileader_locality" -> Enter(p, "local", PackForLocalLeaders(buf, g))
       [] Method(p).way = "locality_aware" -> Enter(p, "local", PackForGroup(buf, g))
  /\ UNCHANGED <<shape, program, topo, leaderSize, call, recvbuf>>

Return(p, buf) ==
  /\ at' = [at EXCEPT ![p] = "idle"]
  /\ recvbuf' = [recvbuf EXCEPT ![p] = buf]
  /\ UNCHANGED passed

(* The second f of locality_aware, the end of its call.                       *)
LocalExchanged(p) ==
  LET g == GroupSize(p)
      comm == Group(p, g)
  IN
  /\ at[p] = "local" /\ Method(p).way = "locality_aware" /\ AllPassed(p, comm, "local")
  /\ Return(p, Reorder(Exchange(p, comm, "local", NumProcs \div g), g))
  /\ UNCHANGED <<shape, program, topo, leaderSize, call>>

(* The second f of multileader_locality.                                      *)
LeadersExchanged(p) ==
  LET g == GroupSize(p)
      comm == LocalLeaders(p, g)
      buf == Exchange(p, comm, "local", NumNodes * g * g)
  IN
  /\ at[p] = "local" /\ Method(p).way = "multileader_locality" /\ AllPassed(p, comm, "local")
  /\ Enter(p, "scatter", PackLocalForScatter(buf, g))
  /\ UNCHANGED <<shape, program, topo, leaderSize, call, recvbuf>>

(* MPI_Scatter needs the leader only.                                         *)
Scattered(p) ==
  LET comm == Group(p, GroupSize(p)) IN
  /\ at[p] = "scatter" /\ HasPassed(comm[0], call[p], "scatter")
  /\ Return(p, Scatter(p, comm))
  /\ UNCHANGED <<shape, program, topo, leaderSize, call>>

Step(p) ==
  \/ Call(p) \/ TopoInit(p) \/ LeaderInit(p) \/ Gathered(p) \/ GroupExchanged(p)
  \/ LocalExchanged(p) \/ LeadersExchanged(p) \/ Scattered(p)

Returned(p) == at[p] = "idle" /\ call[p] = Len(program)
AllReturned == (\A p \in Proc : Returned(p)) /\ UNCHANGED vars

Next == AllReturned \/ \E p \in Proc : Step(p)
Spec == Init /\ [][Next]_vars
(* As long as a rank can take a step, some rank does.                          *)
FairSpec == Spec /\ WF_vars(\E p \in Proc : Step(p))
-----------------------------------------------------------------------------
Promise == INSTANCE AlltoallPromise WITH
  Sizes <- { s[1] * s[2] : s \in Shapes },
  started <- call,
  returned <- [p \in Proc |-> IF at[p] = "idle" THEN call[p] ELSE call[p] - 1],
  result <- recvbuf

(* Whatever way the blocks take and however they are packed in between, each    *)
(* lies at the place of its source when the call returns, and is of that call,  *)
(* though ranks without a leader to wait for run ahead of the others.           *)
KeepsPromise == Promise!Spec

(* Every call returns: the ranks agree on who takes part in which collective.   *)
CallsReturn == <>(\A p \in Proc : Returned(p))
=============================================================================
