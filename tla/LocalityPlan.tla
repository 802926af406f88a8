---------------------------- MODULE LocalityPlan ----------------------------
(***************************************************************************)
(* init_locality (source/neighborhood/locality/neighbor_locality.cpp): the   *)
(* ranks of a communicator work out together how a locality-aware neighbor   *)
(* alltoallv moves its data.  Each pair of nodes gets one message, sent by    *)
(* the rank in charge of it on one node and received by the rank in charge    *)
(* on the other; S brings the data to the former, R takes it from the         *)
(* latter, and L stays within the node.                                      *)
(*                                                                          *)
(* The plan is built in two halves by the same code: side "S" from what a     *)
(* rank sends, side "R" from what it receives.  In each half a rank tells      *)
(* the rank in charge, by a handshake over local_comm that receives from      *)
(* MPI_ANY_SOURCE, which elements go through it; then the ranks in charge      *)
(* find each other by a handshake over global_comm.                          *)
(*                                                                          *)
(* An element is named by its global index.  A CommData is a function from    *)
(* processes (or nodes): to a set of entries while it is made, because         *)
(* remove_duplicates sorts every message before its order is read, and then to  *)
(* a sequence.  What the code addresses by indptr[i] + k is <<procs[i], k>>.     *)
(***************************************************************************)
EXTENDS Integers, Sequences, FiniteSets, FiniteSetsExt, Functions

CONSTANTS
  NumNodes, PPN,  \* nodes, and ranks per node
  Place,          \* Place[n][l]: the rank with local rank l on node n
  MaxTag,         \* the max_tag field of the MPIL_Comm
  Inputs          \* what may be asked, by name: a sequence of calls; Inputs[i][c][p][d]
                  \* is the sequence of global indices that p sends to its neighbor d

Nodes == 0 .. NumNodes - 1
LocalRanks == 0 .. PPN - 1
Proc == 0 .. NumNodes * PPN - 1
Sides == {"S", "R"}

(* What a call may be asked: sends[p][d] is what p sends to d.  The caller     *)
(* drops zero counts; an element has one sender.                               *)
IsRequest(sends) ==
  /\ DOMAIN sends = Proc
  /\ \A p \in Proc :
       /\ DOMAIN sends[p] \subseteq Proc
       /\ \A d \in DOMAIN sends[p] :
            /\ sends[p][d] \in Seq(Nat) \ {<< >>}
            /\ IsInjective(sends[p][d])
            /\ \A q \in Proc \ {p} : \A e \in DOMAIN sends[q] :
                 Range(sends[p][d]) \cap Range(sends[q][e]) = {}

ASSUME PlanAssumption ==
  /\ NumNodes \in Nat \ {0} /\ PPN \in Nat \ {0} /\ MaxTag \in Nat \ {0}
  /\ Place \in [Nodes -> [LocalRanks -> Proc]]
  /\ \A p \in Proc : \E n \in Nodes, l \in LocalRanks :
       Place[n][l] = p /\ \A m \in Nodes, k \in LocalRanks : Place[m][k] = p => m = n /\ k = l
  /\ \A i \in DOMAIN Inputs :
       /\ Len(Inputs[i]) \in Nat /\ DOMAIN Inputs[i] = 1 .. Len(Inputs[i])
       /\ \A c \in DOMAIN Inputs[i] : IsRequest(Inputs[i][c])

(* get_node, get_local_proc, get_global_proc *)
Node == [p \in Proc |-> CHOOSE n \in Nodes : \E l \in LocalRanks : Place[n][l] = p]
Local == [p \in Proc |-> CHOOSE l \in LocalRanks : Place[Node[p]][l] = p]
Mates(p) == { q \in Proc : Node[q] = Node[p] }

VARIABLES
  input,    \* the input the calls are made with
  eager,    \* whether the MPI library buffers sends
  call,     \* calls of init_locality each rank has begun
  at,       \* <<step, side>> where each rank is in its call
  commTag,  \* mpil_comm->tag
  tags,     \* send_tag and recv_tag of update_global_comm
  flight,   \* messages not yet received
  got,      \* the messages the current receive loop of each rank has received
  half,     \* half[p][c][side]: the half of the plan being built
  learned,  \* learned[p][side]: recv_nodes (of "S") and send_nodes (of "R")
  plan      \* plan[p]: the finished plans

vars == <<input, eager, call, at, commTag, tags, flight, got, half, learned, plan>>
-----------------------------------------------------------------------------
Asked(c) == Inputs[input][c]

(* The neighbors and indices init_locality is given for one side.              *)
Orig(sends, p, s) ==
  IF s = "S" THEN sends[p]
  ELSE [q \in { r \in Proc : p \in DOMAIN sends[r] } |-> sends[q][p]]

(* map_procs_to_nodes: how much the ranks of node n exchange with node m, the    *)
(* result of its Allreduce.                                                   *)
NodeSize(sends, n, s, m) ==
  Cardinality(UNION { {w} \X (DOMAIN Orig(sends, w[1], s)[w[2]]) : w \in
                { pd \in Proc \X Proc : /\ Node[pd[1]] = n /\ Node[pd[2]] = m
                                       /\ pd[2] \in DOMAIN Orig(sends, pd[1], s) } })

(* The elements of S in order, before[e] being those that precede e.            *)
Sorted(S, before) ==
  [k \in 1 .. Cardinality(S) |-> CHOOSE e \in S : Cardinality(before[e]) = k - 1]

(* The other nodes by decreasing size; small arrays are sorted stably.         *)
MsgNodes(sends, n, s) ==
  LET size == [m \in Nodes |-> NodeSize(sends, n, s, m)]
      others == { m \in Nodes \ {n} : size[m] > 0 }
  IN  Sorted(others, [m \in others |->
                        { k \in others : size[k] > size[m] \/ (size[k] = size[m] /\ k < m) }])

(* The k-th node goes to the local ranks in turn, there and back, upwards      *)
(* from 0 for sends and downwards from PPN-1 for receives.                    *)
Dealt(k, s) ==
  LET r == (k - 1) % (2 * PPN)
      up == IF r < PPN THEN r ELSE 2 * PPN - 1 - r
  IN  IF s = "S" THEN up ELSE PPN - 1 - up

(* msg_node_to_local: the rank of node n in charge of node m.                  *)
InCharge(sends, n, s, m) ==
  LET order == MsgNodes(sends, n, s)
  IN  Place[n][Dealt(CHOOSE k \in DOMAIN order : order[k] = m, s)]

(* form_local_comm: what p hands to the ranks of its node, an entry            *)
(* <<index, node, p, neighbor>> for every element of its messages abroad.      *)
SendData(sends, p, s) ==
  LET orig == Orig(sends, p, s)
      entries == UNION { { <<orig[d][k], Node[d], p, d>> : k \in DOMAIN orig[d] } :
                           d \in DOMAIN orig \ Mates(p) }
      charge == [n \in { e[2] : e \in entries } |-> InCharge(sends, Node[p], s, n)]
  IN  [q \in Range(charge) |-> { e \in entries : charge[e[2]] = q }]
LocalData(sends, p, s) ==
  [q \in DOMAIN Orig(sends, p, s) \cap Mates(p) |-> Orig(sends, p, s)[q]]

(* The result of its Allreduce: the number of indices to be handed to p.        *)
HandedSize(p, c, s) ==
  Cardinality(UNION { {q} \X half[q][c][s].send[p] :
                        q \in { r \in Mates(p) : p \in DOMAIN half[r][c][s].send } })

(* What the ranks of its node have handed to p so far.                         *)
RecvData(p) ==
  [q \in { m.src : m \in got[p] } |-> UNION { m.body : m \in { n \in got[p] : n.src = q } }]
ReceivedSize(p) == Cardinality(UNION { {m} \X m.body : m \in got[p] })

(* form_global_comm: the same entries by node.                                *)
GlobalData(p) ==
  LET entries == UNION { m.body : m \in got[p] }
  IN  [n \in { e[2] : e \in entries } |-> { e \in entries : e[2] = n }]
-----------------------------------------------------------------------------
(* remove_duplicates: the indices of a message in increasing order, each once.  *)
KeepDuplicates(data) ==
  [q \in DOMAIN data |->
     LET order == Sorted(data[q], [e \in data[q] |->
                    { d \in data[q] : d[1] < e[1] \/ (d[1] = e[1] /\ d[3] < e[3])
                                                 \/ (d[1] = e[1] /\ d[3] = e[3] /\ d[4] < e[4]) }])
     IN  [k \in DOMAIN order |-> order[k][1]]]
RemoveDuplicates(data) ==
  [q \in DOMAIN data |->
     LET indices == { e[1] : e \in data[q] }
     IN  Sorted(indices, [i \in indices |-> { j \in indices : j < i }])]

(* form_global_map, map_indices: where an index is in a buffer; a std::map     *)
(* gives 0 for an index it does not hold.                                     *)
Nowhere == <<0, 0>>
PositionIn(data, idx) ==
  LET places == { pos \in UNION { {q} \X (DOMAIN data[q]) : q \in DOMAIN data } :
                    data[pos[1]][pos[2]] = idx }
  IN  IF places = {} THEN Nowhere ELSE CHOOSE pos \in places : TRUE
MapIndicesInPlace(data, mapData) == [q \in DOMAIN data |-> [k \in DOMAIN data[q] |-> <<q, k>>]]
MapIndices(data, mapData) ==
  [q \in DOMAIN data |-> [k \in DOMAIN data[q] |-> PositionIn(mapData, data[q][k])]]

(* update_global_comm: node ids are replaced by processes.                    *)
Largest(p, s, n) == Max({ learned[q][s][n] : q \in Mates(p) })
CounterpartOwn(p, s, n) == learned[p][IF s = "S" THEN "R" ELSE "S"][n]
Counterpart(p, s, n) == Largest(p, IF s = "S" THEN "R" ELSE "S", n)
Procs(p, s) ==
  [n \in DOMAIN half[p][call[p]][s].global |-> Counterpart(p, s, n)]

(* update_indices: S and L are packed from the user's buffer and G from what S *)
(* brought, R from what G brought; R and L are unpacked into the user's buffer. *)
UpdateIndices(p) ==
  LET S == half[p][call[p]]["S"]
      R == half[p][call[p]]["R"]
      sends == Orig(Asked(call[p]), p, "S")
      recvs == Orig(Asked(call[p]), p, "R")
      sRecv == RemoveDuplicates(S.recv)
      gRecv == RemoveDuplicates(R.global)
  IN  [sSend |-> MapIndices(RemoveDuplicates(S.send), sends),
       sRecv |-> sRecv,
       gSend |-> MapIndices(RemoveDuplicates(S.global), sRecv),
       gRecv |-> gRecv,
       rSend |-> MapIndices(RemoveDuplicates(R.recv), gRecv),
       rRecv |-> MapIndices(RemoveDuplicates(R.send), recvs),
       lSend |-> MapIndices(S.local, sends),
       lRecv |-> MapIndices(R.local, recvs),
       to    |-> Procs(p, "S"),
       from  |-> Procs(p, "R")]
-----------------------------------------------------------------------------
NoHalf == [send |-> << >>, recv |-> << >>, local |-> << >>, global |-> << >>]

Init ==
  /\ input \in DOMAIN Inputs
  /\ eager \in BOOLEAN
  /\ call = [p \in Proc |-> 0]
  /\ at = [p \in Proc |-> <<"idle", "R">>]
  /\ commTag = [p \in Proc |-> 126 % MaxTag]
  /\ tags = [p \in Proc |-> [s \in Sides |-> 0]]
  /\ flight = {}
  /\ got = [p \in Proc |-> {}]
  /\ half = [p \in Proc |-> [c \in DOMAIN Inputs[input] |-> [s \in Sides |-> NoHalf]]]
  /\ learned = [p \in Proc |-> [s \in Sides |-> [n \in Nodes |-> 0]]]
  /\ plan = [p \in Proc |-> << >>]

NumCalls == Len(Inputs[input])

(* Where a rank is, as a number that only grows.                              *)
Order == << <<"sizes", "S">>, <<"form", "S">>, <<"probe", "S">>,
            <<"sizes", "R">>, <<"form", "R">>, <<"probe", "R">>,
            <<"find", "S">>, <<"learn", "S">>, <<"find", "R">>, <<"learn", "R">>,
            <<"nodes", "R">>, <<"idle", "R">> >>
Progress(p) == call[p] * Len(Order) + (CHOOSE i \in DOMAIN Order : Order[i] = at[p])

(* MPI_Allreduce: everyone in S has entered the collective p is in.           *)
AllEntered(p, S) == \A q \in S : Progress(q) >= Progress(p)

NextTagStuck(t) == t
NextTagUnbounded(t) == t + 1
NextTag(t) == (t + 1) % MaxTag

Fixed(s) == IF s = "S" THEN 19483 ELSE 32048
Goto(p, step, s) == at' = [at EXCEPT ![p] = <<step, s>>]
In(p, step) == at[p][1] = step
Side(p) == at[p][2]

(* A receive by p from MPI_ANY_SOURCE may match these.                        *)
Matching(p, comm, tag) ==
  { m \in flight :
      /\ m.comm = comm /\ m.dst = p /\ m.tag = tag
      /\ \A n \in flight : n.comm = comm /\ n.src = m.src /\ n.dst = p /\ n.tag = tag
                             => m.call <= n.call }
Receive(p, m) ==
  /\ flight' = flight \ {m}
  /\ got' = [got EXCEPT ![p] = @ \cup {m}]

(* MPI_Waitall over the sends of p.                                           *)
Waitall(p) == eager \/ \A m \in flight : m.src # p

(* init_locality up to the Allreduce in map_procs_to_nodes for the sends;     *)
(* init_locality_comm takes the tags of the four steps.                      *)
InitLocality(p) ==
  /\ In(p, "idle") /\ call[p] < NumCalls
  /\ call' = [call EXCEPT ![p] = @ + 1]
  /\ commTag' = [commTag EXCEPT ![p] = NextTag(NextTag(NextTag(NextTag(@))))]
  /\ Goto(p, "sizes", "S")
  /\ UNCHANGED <<input, eager, tags, flight, got, half, learned, plan>>

(* The rest of map_procs_to_nodes, and form_local_comm up to its Allreduce,    *)
(* whose result only the receives need: the sends are posted here.            *)
MapProcsToNodes(p) ==
  /\ In(p, "sizes") /\ AllEntered(p, Mates(p))
  /\ LET s == Side(p)
         c == call[p]
         data == SendData(Asked(c), p, s)
     IN  /\ half' = [half EXCEPT ![p][c][s] =
                       [@ EXCEPT !.send = data, !.local = LocalData(Asked(c), p, s)]]
         /\ flight' = flight \cup
              { [comm |-> "local", tag |-> Fixed(s), src |-> p, dst |-> q,
                 call |-> c, side |-> s, node |-> Node[p], body |-> data[q]] : q \in DOMAIN data }
         /\ Goto(p, "form", s)
  /\ UNCHANGED <<input, eager, call, commTag, tags, got, learned, plan>>

FormAllreduce(p) ==
  /\ In(p, "form") /\ AllEntered(p, Mates(p))
  /\ Goto(p, "probe", Side(p))
  /\ UNCHANGED <<input, eager, call, commTag, tags, flight, got, half, learned, plan>>

MoreHanded(p) == ReceivedSize(p) < HandedSize(p, call[p], Side(p))

FormProbe(p) ==
  /\ In(p, "probe") /\ MoreHanded(p)
  /\ \E m \in Matching(p, "local", Fixed(Side(p))) : Receive(p, m)
  /\ UNCHANGED <<input, eager, call, at, commTag, tags, half, learned, plan>>

(* The ranks in charge on p's side that p sends its node id to.               *)
Announced(p, s, global, tag) ==
  { [comm |-> "global", tag |-> tag, src |-> p, dst |-> Place[n][Local[p]],
     call |-> call[p], side |-> s, node |-> Node[p], body |-> {}] : n \in DOMAIN global }

(* The end of form_local_comm and form_global_comm.  After the receive side    *)
(* update_global_comm takes two tags and announces the sends.                 *)
FormGlobal(p) ==
  /\ In(p, "probe") /\ ~ MoreHanded(p) /\ Waitall(p)
  /\ LET s == Side(p)
         global == GlobalData(p)
     IN  /\ half' = [half EXCEPT ![p][call[p]][s] =
                       [@ EXCEPT !.recv = RecvData(p), !.global = global]]
         /\ IF s = "S"
            THEN /\ Goto(p, "sizes", "R")
                 /\ UNCHANGED <<commTag, tags, flight, learned>>
            ELSE /\ Goto(p, "find", "S")
                 /\ tags' = [tags EXCEPT ![p]["S"] = commTag[p], ![p]["R"] = NextTag(commTag[p])]
                 /\ commTag' = [commTag EXCEPT ![p] = NextTag(NextTag(@))]
                 /\ flight' = flight \cup
                      Announced(p, "S", half[p][call[p]]["S"].global, commTag[p])
                 /\ learned' = [learned EXCEPT ![p] = [t \in Sides |-> [n \in Nodes |-> 0]]]
  /\ got' = [got EXCEPT ![p] = {}]
  /\ UNCHANGED <<input, eager, call, plan>>

FindAllreduce(p) ==
  /\ In(p, "find") /\ AllEntered(p, Proc)
  /\ Goto(p, "learn", Side(p))
  /\ UNCHANGED <<input, eager, call, commTag, tags, flight, got, half, learned, plan>>

(* comm_procs[rank] after the Allreduce: the ranks that announce themselves to p. *)
Announcers(p, s) ==
  { q \in Proc : \E n \in DOMAIN half[q][call[p]][s].global : Place[n][Local[q]] = p }
NumToRecvBoth(p) ==
  Cardinality(Announcers(p, "S")) + IF Side(p) = "R" THEN Cardinality(Announcers(p, "R")) ELSE 0
NumToRecv(p) == Cardinality(Announcers(p, Side(p)))

LearnProbe(p) ==
  /\ In(p, "learn") /\ Cardinality(got[p]) < NumToRecv(p)
  /\ \E m \in Matching(p, "global", tags[p][Side(p)]) :
       /\ Receive(p, m)
       /\ learned' = [learned EXCEPT ![p][Side(p)][m.node] = m.src]
  /\ UNCHANGED <<input, eager, call, at, commTag, tags, half, plan>>

(* All announcements have come: announce the receives, or wait for all sends.  *)
Learned(p) ==
  /\ In(p, "learn") /\ Cardinality(got[p]) = NumToRecv(p)
  /\ IF Side(p) = "S"
     THEN /\ Goto(p, "find", "R")
          /\ flight' = flight \cup
               Announced(p, "R", half[p][call[p]]["R"].global, tags[p]["R"])
     ELSE /\ Waitall(p)
          /\ Goto(p, "nodes", "R")
          /\ UNCHANGED flight
  /\ got' = [got EXCEPT ![p] = {}]
  /\ UNCHANGED <<input, eager, call, commTag, tags, half, learned, plan>>

(* The Allreduces of send_nodes and recv_nodes, update_indices, the return.    *)
FinishPlan(p) ==
  /\ In(p, "nodes") /\ AllEntered(p, Mates(p))
  /\ plan' = [plan EXCEPT ![p] = Append(@, UpdateIndices(p))]
  /\ Goto(p, "idle", "R")
  /\ UNCHANGED <<input, eager, call, commTag, tags, flight, got, half, learned>>

Step(p) ==
  \/ InitLocality(p) \/ MapProcsToNodes(p) \/ FormAllreduce(p) \/ FormProbe(p)
  \/ FormGlobal(p) \/ FindAllreduce(p) \/ LearnProbe(p) \/ Learned(p) \/ FinishPlan(p)

Returned(p) == In(p, "idle") /\ call[p] = NumCalls
AllReturned == (\A p \in Proc : Returned(p)) /\ UNCHANGED vars

Next == AllReturned \/ \E p \in Proc : Step(p)
Spec == Init /\ [][Next]_vars
(* MPI makes progress and every rank runs.                                    *)
FairSpec == Spec /\ \A p \in Proc : WF_vars(Step(p))
-----------------------------------------------------------------------------
(* Types: the plan is built from known ranks, nodes and tags.                 *)
TypeOK ==
  /\ call \in [Proc -> 0 .. NumCalls]
  /\ at \in [Proc -> Range(Order)]
  /\ commTag \in [Proc -> 0 .. MaxTag - 1] /\ tags \in [Proc -> [Sides -> 0 .. MaxTag - 1]]
  /\ \A m \in flight : m.src \in Proc /\ m.dst \in Proc /\ m.call \in 1 .. call[m.src]
  /\ \A p \in Proc : \A m \in got[p] : m.dst = p
  /\ learned \in [Proc -> [Sides -> [Nodes -> Proc]]]
  /\ \A p \in Proc : Len(plan[p]) = IF In(p, "idle") THEN call[p] ELSE call[p] - 1

(* A probe of MPI_ANY_SOURCE finds only messages of its own call and half,    *)
(* though form_local_comm uses the same tag in every call: a rank that is       *)
(* ahead posts nothing a rank still in an earlier receive loop could take.      *)
HandshakesSeparate ==
  \A p \in Proc : \A m \in
       CASE In(p, "probe") -> Matching(p, "local", Fixed(Side(p)))
         [] In(p, "learn") -> Matching(p, "global", tags[p][Side(p)])
         [] OTHER -> {} :
    m.call = call[p] /\ m.side = Side(p)

(* Calls that every rank has returned from.                                   *)
Complete == { c \in 1 .. NumCalls : \A p \in Proc : Len(plan[p]) >= c }

Paired(c, send, recv) ==
  \A p, q \in Proc :
    LET out == plan[p][c][send]
        in == plan[q][c][recv]
    IN  /\ q \in DOMAIN out <=> p \in DOMAIN in
        /\ q \in DOMAIN out => Len(out[q]) = Len(in[p])

(* Every send of a finished plan has its receive at the other end, of the      *)
(* same length, and every receive its send: the requests made of it match.      *)
(* Over global_comm the two ranks in charge, which assigned themselves on       *)
(* different nodes in different orders, have found each other.                 *)
EndsAgree ==
  \A c \in Complete :
    /\ Paired(c, "sSend", "sRecv") /\ Paired(c, "rSend", "rRecv") /\ Paired(c, "lSend", "lRecv")
    /\ \A p \in Proc :
         LET me == plan[p][c] IN
         /\ \A n \in DOMAIN me.to :
              LET you == plan[me.to[n]][c] IN
              /\ Node[me.to[n]] = n
              /\ Node[p] \in DOMAIN you.from /\ you.from[Node[p]] = p
              /\ Len(me.gSend[n]) = Len(you.gRecv[Node[p]])
         /\ \A n \in DOMAIN me.from :
              LET you == plan[me.from[n]][c] IN
              Node[p] \in DOMAIN you.to /\ you.to[Node[p]] = p

(* The elements that ranks of node n send to ranks of node m.                  *)
Between(c, n, m) ==
  UNION { Range(Asked(c)[pq[1]][pq[2]]) : pq \in
            { r \in Proc \X Proc : /\ Node[r[1]] = n /\ Node[r[2]] = m
                                  /\ r[2] \in DOMAIN Asked(c)[r[1]] } }

(* What locality awareness is for: between two nodes there is one message, and *)
(* in it each element once, however many ranks send it and want it.            *)
CrossesOnce ==
  \A c \in Complete : \A n, m \in Nodes :
    n # m =>
      LET senders == { p \in Proc : Node[p] = n /\ m \in DOMAIN plan[p][c].gSend }
      IN  IF Between(c, n, m) = {} THEN senders = {}
          ELSE \E p \in Proc : /\ senders = {p}
                               /\ Len(plan[p][c].gSend[m]) = Cardinality(Between(c, n, m))

(* Executing a plan: Pick packs a message, Brought is what a step leaves in     *)
(* the receive buffer of p.  Every element holds its global index.             *)
Lost == -1
Pick(buf, positions) ==
  [k \in DOMAIN positions |->
     LET pos == positions[k]
     IN  IF pos[1] \in DOMAIN buf /\ pos[2] \in DOMAIN buf[pos[1]]
         THEN buf[pos[1]][pos[2]] ELSE Lost]
PickFor(buf, out, key) == IF key \in DOMAIN out THEN Pick(buf, out[key]) ELSE << >>

BroughtL(p, c) ==
  [q \in DOMAIN plan[p][c].lRecv |-> PickFor(Asked(c)[q], plan[q][c].lSend, p)]
BroughtS(p, c) ==
  [q \in DOMAIN plan[p][c].sRecv |-> PickFor(Asked(c)[q], plan[q][c].sSend, p)]
BroughtG(p, c) ==
  [n \in DOMAIN plan[p][c].gRecv |->
     LET q == plan[p][c].from[n] IN PickFor(BroughtS(q, c), plan[q][c].gSend, Node[p])]
BroughtR(p, c) ==
  [q \in DOMAIN plan[p][c].rRecv |-> PickFor(BroughtG(q, c), plan[q][c].rSend, p)]

Writes(brought, recv, step) ==
  { [step |-> step, from |-> w, at |-> recv[w[1]][w[2]],
     value |-> IF w[2] \in DOMAIN brought[w[1]] THEN brought[w[1]][w[2]] ELSE Lost] :
       w \in UNION { {q} \X (DOMAIN recv[q]) : q \in DOMAIN recv } }

(* Executed as neighbor_start and neighbor_wait do, a plan writes each position  *)
(* of the user's receive buffer exactly once, with the element its neighbor    *)
(* sends for that position, and nothing else.                                 *)
PlanDelivers ==
  \A c \in Complete : \A p \in Proc :
    LET writes == Writes(BroughtL(p, c), plan[p][c].lRecv, "L")
                    \cup Writes(BroughtR(p, c), plan[p][c].rRecv, "R")
        wanted == Orig(Asked(c), p, "R")
        places == UNION { {q} \X (DOMAIN wanted[q]) : q \in DOMAIN wanted }
    IN  /\ { w.at : w \in writes } = places /\ Cardinality(writes) = Cardinality(places)
        /\ \A w \in writes : w.value = wanted[w.at[1]][w.at[2]]

(* Every call of init_locality returns on every rank, also if a send completes  *)
(* only when it is received.                                                  *)
CallsReturn == <>(\A p \in Proc : Returned(p))
=============================================================================
