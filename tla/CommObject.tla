----------------------------- MODULE CommObject -----------------------------
(***************************************************************************)
(* The life of one MPIL_Comm: what its fields hold on every rank, who owns  *)
(* the memory behind them, and which communicators the hierarchical          *)
(* alltoalls find in it.  The functions below carry the names of the C       *)
(* functions and take the object to the object they leave behind; every call *)
(* of the public interface is collective and is one step.                    *)
(*                                                                          *)
(* A communicator is the set of its members, seen from each rank, and {} is  *)
(* MPI_COMM_NULL: every split of the code keys on the rank, so the members'   *)
(* order is the order of their global ranks.                                 *)
(***************************************************************************)
EXTENDS Naturals, FiniteSets, FiniteSetsExt

CONSTANTS
  NumProcs,       \* size of global_comm
  Placements,     \* where the ranks may run: functions from ranks to hosts
  PpnArgs,        \* arguments given to MPIL_Comm_update_locality
  LeaderArgs,     \* arguments given to MPIL_Comm_leader_init
  RequestArgs,    \* numbers of requests asked for
  WinArgs,        \* sizes in bytes of the windows alltoall_crs_rma wants
  LeadersPerNode, \* 4 in the code
  MaxTag,         \* xcomm->max_tag
  Careful         \* the caller makes anew what it freed itself before it goes on

Rank == 0 .. NumProcs - 1

ASSUME CommAssumption ==
  /\ NumProcs \in Nat \ {0}
  /\ \A h \in Placements : DOMAIN h = Rank
  /\ PpnArgs \cup LeaderArgs \cup {LeadersPerNode, MaxTag} \subseteq Nat \ {0}
  /\ RequestArgs \cup WinArgs \subseteq Nat
  /\ Careful \in BOOLEAN

VARIABLES
  host,   \* where each rank runs
  xcomm,  \* the MPIL_Comm
  use,    \* the communicators the last call, a hierarchical alltoall, ran over
  hung,   \* ranks have entered different collectives
  freed   \* MPIL_Comm_free has been called

vars == <<host, xcomm, use, hung, freed>>

CommFields == { "neighbor_comm", "local_comm", "group_comm",
                "leader_comm", "leader_group_comm", "leader_local_comm" }
LeaderComms == {"leader_comm", "leader_group_comm", "leader_local_comm"}
TopoArrays == {"global_rank_to_local", "global_rank_to_node", "ordered_global_ranks"}
Arrays == TopoArrays \cup {"win_array", "requests", "statuses"}

World == [r \in Rank |-> Rank]
Null == [r \in Rank |-> {}]
None == [local |-> Null, group |-> Null, leaders |-> Null]

(* MPI_Comm_split, a rank's number in a communicator, and its size. *)
Split(c, color) == [r \in Rank |-> { s \in c[r] : color[s] = color[r] }]
Numbers(c) == [r \in Rank |-> Cardinality({ s \in c[r] : s < r })]
Sizes(c) == [r \in Rank |-> Cardinality(c[r])]
-----------------------------------------------------------------------------
(* Ownership.  A communicator overwritten while live is lost; MPI_Comm_free  *)
(* resets the handle.  free() leaves the pointer as it was: freeing it again, *)
(* or writing through it, is undefined.                                      *)
Overwrite(x, new) ==
  [x EXCEPT !.comm = [f \in CommFields |-> IF f \in DOMAIN new THEN new[f] ELSE @[f]],
            !.lost = @ \cup { f \in DOMAIN new : x.comm[f] # Null }]

FreeComms(x, S) ==
  [x EXCEPT !.comm = [f \in CommFields |-> IF f \in S THEN Null ELSE @[f]]]

Allocate(x, S) ==
  [x EXCEPT !.heap = [a \in Arrays |-> IF a \in S THEN "live" ELSE @[a]],
            !.lost = @ \cup { a \in S : x.heap[a] = "live" }]

Realloc(x, S) ==
  [x EXCEPT !.heap = [a \in Arrays |-> IF a \in S THEN "live" ELSE @[a]],
            !.misuse = @ \cup { a \in S : x.heap[a] = "dangling" }]

Release(x, S) ==
  [x EXCEPT !.heap = [a \in Arrays |->
                        IF a \in S /\ @[a] = "live" THEN "dangling" ELSE @[a]],
            !.misuse = @ \cup { a \in S : x.heap[a] = "dangling" }]

Access(x, a) == [x EXCEPT !.misuse = @ \cup { b \in {a} : x.heap[b] # "live" }]
-----------------------------------------------------------------------------
(* The rank maps.  ordered_global_ranks is filled in rank order at           *)
(* node * n + local, with n the rank's own notion of the processes per node; *)
(* an index past its end writes outside the array.                           *)
IndexOf(toNode, toLocal, n, s) == toNode[s] * n + toLocal[s]

Ordered(toNode, toLocal, n) ==
  [k \in { IndexOf(toNode, toLocal, n, s) : s \in Rank } |->
     Max({ s \in Rank : IndexOf(toNode, toLocal, n, s) = k })]

Overrun(toNode, toLocal, n) ==
  { a \in {"ordered_global_ranks"} :
      \E r, s \in Rank : IndexOf(toNode, toLocal, n[r], s) >= NumProcs }

FillMapsKeepingNodes(x, n) ==
  LET toLocal == Numbers(x.comm["local_comm"])
      toNode  == IF x.toNode = << >> THEN Numbers(x.comm["group_comm"]) ELSE x.toNode
      ppn     == Sizes(x.comm["local_comm"])
  IN  [x EXCEPT !.toLocal = toLocal, !.toNode = toNode, !.ppn = ppn,
                !.ordered = [r \in Rank |-> Ordered(toNode, toLocal, n[r])],
                !.misuse = @ \cup Overrun(toNode, toLocal, n),
                !.num_nodes = [r \in Rank |-> (NumProcs - 1) \div ppn[r] + 1]]
FillMaps(x, n) ==
  LET toLocal == Numbers(x.comm["local_comm"])
      toNode  == Numbers(x.comm["group_comm"])
      ppn     == Sizes(x.comm["local_comm"])
  IN  [x EXCEPT !.toLocal = toLocal, !.toNode = toNode, !.ppn = ppn,
                !.ordered = [r \in Rank |-> Ordered(toNode, toLocal, n[r])],
                !.misuse = @ \cup Overrun(toNode, toLocal, n),
                !.num_nodes = [r \in Rank |-> (NumProcs - 1) \div ppn[r] + 1]]

Topology(local) ==
  [local_comm |-> local, group_comm |-> Split(World, Numbers(local))]

topo_init(x) ==
  LET local == Split(World, host)
  IN  FillMaps(Allocate(Overwrite(x, Topology(local)), TopoArrays), Sizes(local))

(* The arrays are allocated only where the pointer is NULL. *)
update_locality(x, ppn) ==
  LET local == Split(World, [r \in Rank |-> r \div ppn])
      y     == Overwrite(FreeComms(x, {"local_comm", "group_comm"}), Topology(local))
  IN  FillMaps(Realloc(y, TopoArrays), [r \in Rank |-> ppn])

topo_free(x) == Release(FreeComms(x, {"local_comm", "group_comm"}), TopoArrays)

WithTopology(x) == IF x.comm["local_comm"] = Null THEN topo_init(x) ELSE x

LeaderColorShifted(ppl) == [r \in Rank |-> (r + 1) \div ppl[r]]
LeaderColor(ppl) == [r \in Rank |-> r \div ppl[r]]

(* ppl[r] is the argument on rank r. *)
leader_init(x, ppl) ==
  LET leader == Split(World, LeaderColor(ppl))
      y      == WithTopology(x)
  IN  Overwrite(y, [leader_comm |-> leader,
                    leader_group_comm |-> Split(World, Numbers(leader)),
                    leader_local_comm |->
                      Split(y.comm["local_comm"], Numbers(leader))])

leader_free(x) == FreeComms(x, LeaderComms)
-----------------------------------------------------------------------------
win_freeKeepingWin(x) ==
  [Release(x, {"win_array"}) EXCEPT !.win_bytes = 0, !.win_type_bytes = 0]
win_free(x) ==
  [Release(x, {"win_array"}) EXCEPT
     !.win = FALSE, !.win_bytes = 0, !.win_type_bytes = 0]

win_init(x, bytes, type_bytes) ==
  [Allocate(x, {"win_array"}) EXCEPT
     !.win = TRUE, !.win_bytes = bytes, !.win_type_bytes = type_bytes,
     !.lost = @ \cup { w \in {"win"} : x.win }]

(* What alltoall_crs_rma does to the object: it clears the window it finds  *)
(* or makes.                                                                *)
crs_rma(x, bytes) ==
  LET y == IF x.win_bytes # bytes \/ x.win_type_bytes # 1 THEN win_free(x) ELSE x
      z == IF ~ y.win THEN win_init(y, bytes, 1) ELSE y
  IN  IF bytes > 0 THEN Access(z, "win_array") ELSE z

req_resize(x, n) ==
  IF n = 0 THEN x
  ELSE [Realloc(x, {"requests", "statuses"}) EXCEPT !.n_requests = n]

comm_free(x) ==
  LET y == IF x.n_requests > 0 THEN Release(x, {"requests"}) ELSE x
  IN  win_free(leader_free(topo_free(FreeComms(y, {"neighbor_comm"}))))

get_tagUnwrapped(x) == [x EXCEPT !.tag = @ + 1]
get_tag(x) == [x EXCEPT !.tag = (@ + 1) % MaxTag]
-----------------------------------------------------------------------------
(* ppn / n_leaders, n_leaders being cut down to ppn. *)
ProcsPerLeader(x) ==
  [r \in Rank |-> LET ppn == Cardinality(x.comm["local_comm"][r])
                  IN  ppn \div Min({ppn, LeadersPerNode})]

(* Each rank frees the leader_comm it has if its size is not the one wanted. *)
FreeStaleNever(x, ppl) == x
FreeStaleOnLeaders(x, ppl) ==
  [x EXCEPT !.comm["leader_comm"] =
     [r \in Rank |-> IF Cardinality(@[r]) # ppl[r] /\ r = Min(@[r] \cup {r}) THEN {} ELSE @[r]]]
FreeStale(x, ppl) ==
  [x EXCEPT !.comm["leader_comm"] =
     [r \in Rank |-> IF Cardinality(@[r]) = ppl[r] THEN @[r] ELSE {}]]

Missing(x) == { r \in Rank : x.comm["leader_comm"][r] = {} }

(* leader_init on the ranks without a leader_comm. *)
WithLeaders(x, ppl) == IF Missing(x) = Rank THEN leader_init(x, ppl) ELSE x

(* The object and the two communicators after the head of                   *)
(* alltoall_multileader or alltoall_locality_aware with LeadersPerNode       *)
(* leaders, after the head of alltoall_multileader_locality, and with one.   *)
TagAndTopology(x) == WithTopology(get_tag(x))
Checked(x) == FreeStale(TagAndTopology(x), ProcsPerLeader(TagAndTopology(x)))
Multileader(x) == WithLeaders(Checked(x), ProcsPerLeader(Checked(x)))
MultileaderLocality(x) ==
  WithLeaders(TagAndTopology(x), ProcsPerLeader(TagAndTopology(x)))

Uses(x, l, g) == [None EXCEPT !.local = x.comm[l], !.group = x.comm[g]]
-----------------------------------------------------------------------------
(* MPIL_Comm_init, alone or within MPIL_Dist_graph_create_adjacent, which    *)
(* sets neighbor_comm; win_type_bytes is left uninitialised.                 *)
Init ==
  /\ host \in Placements
  /\ \E neighbor \in {Null, World}, type_bytes \in {0, 1} :
       xcomm = [ comm |-> [f \in CommFields |->
                             IF f = "neighbor_comm" THEN neighbor ELSE Null],
                 heap |-> [a \in Arrays |-> "null"],
                 toLocal |-> << >>, toNode |-> << >>, ordered |-> << >>,
                 ppn |-> << >>, num_nodes |-> << >>,
                 win |-> FALSE, win_bytes |-> 0, win_type_bytes |-> type_bytes,
                 n_requests |-> 0, tag |-> 126 % MaxTag,
                 lost |-> {}, misuse |-> {} ]
  /\ use = None
  /\ hung = FALSE
  /\ freed = FALSE

Ready == ~ freed /\ ~ hung

Becomes(x) ==
  /\ xcomm' = x
  /\ use' = None
  /\ UNCHANGED <<host, hung, freed>>

(* topo_free and win_free do not reset the pointers they free, and the        *)
(* functions below free or use those again.                                   *)
Intact(S) == Careful => \A a \in S : xcomm.heap[a] # "dangling"

TopoInit == Ready /\ Becomes(topo_init(xcomm))
TopoFree == Ready /\ Intact(TopoArrays) /\ Becomes(topo_free(xcomm))
UpdateLocality ==
  /\ Ready
  /\ Intact(TopoArrays)
  /\ \E n \in PpnArgs : Becomes(update_locality(xcomm, n))
LeaderInit ==
  Ready /\ \E n \in LeaderArgs : Becomes(leader_init(xcomm, [r \in Rank |-> n]))
LeaderFree == Ready /\ Becomes(leader_free(xcomm))
WinInit == Ready /\ \E b \in WinArgs : Becomes(win_init(xcomm, b, 1))
WinFree == Ready /\ Intact({"win_array"}) /\ Becomes(win_free(xcomm))
CrsRma ==
  /\ Ready
  /\ Intact({"win_array"})
  /\ \E b \in WinArgs : Becomes(crs_rma(xcomm, b))
ReqResize == Ready /\ \E n \in RequestArgs : Becomes(req_resize(xcomm, n))

(* A collective with n requests grows the arrays if they are too short. *)
GrowRequests ==
  /\ Ready
  /\ \E n \in RequestArgs : xcomm.n_requests < n /\ Becomes(req_resize(xcomm, n))

(* alltoall_hierarchical and alltoall_node_aware: one leader per node. *)
AlltoallNode ==
  LET x == TagAndTopology(xcomm)
  IN  /\ Ready
      /\ xcomm' = x
      /\ use' = Uses(x, "local_comm", "group_comm")
      /\ UNCHANGED <<host, hung, freed>>

(* alltoall_multileader and alltoall_locality_aware.  The ranks that miss a  *)
(* leader_comm call the collective leader_init, the others go on.            *)
AlltoallLeaders ==
  LET x == Multileader(xcomm)
  IN  /\ Ready
      /\ xcomm' = x
      /\ hung' = (Missing(Checked(xcomm)) \notin {{}, Rank})
      /\ use' = IF hung' THEN None ELSE Uses(x, "leader_comm", "leader_group_comm")
      /\ UNCHANGED <<host, freed>>

(* alltoall_multileader_locality, which takes the leaders it finds. *)
AlltoallMultileaderLocality ==
  LET x == MultileaderLocality(xcomm)
  IN  /\ Ready
      /\ xcomm' = x
      /\ use' = [Uses(x, "leader_comm", "group_comm") EXCEPT
                   !.leaders = x.comm["leader_local_comm"]]
      /\ UNCHANGED <<host, hung, freed>>

CommFree ==
  /\ Ready
  /\ Intact(Arrays)
  /\ xcomm' = comm_free(xcomm)
  /\ freed' = TRUE
  /\ use' = None
  /\ UNCHANGED <<host, hung>>

Finished == ~ Ready /\ UNCHANGED vars

Next ==
  \/ TopoInit \/ TopoFree \/ UpdateLocality
  \/ LeaderInit \/ LeaderFree
  \/ WinInit \/ WinFree \/ CrsRma
  \/ ReqResize \/ GrowRequests
  \/ AlltoallNode \/ AlltoallLeaders \/ AlltoallMultileaderLocality
  \/ CommFree \/ Finished

Spec == Init /\ [][Next]_vars
-----------------------------------------------------------------------------
(* The fields keep their types on every rank. *)
TypeOK ==
  /\ host \in Placements
  /\ xcomm.comm \in [CommFields -> [Rank -> SUBSET Rank]]
  /\ xcomm.heap \in [Arrays -> {"null", "live", "dangling"}]
  /\ xcomm.n_requests \in RequestArgs \cup {0}
  /\ xcomm.win_bytes \in WinArgs \cup {0}
  /\ xcomm.tag \in 0 .. MaxTag - 1
  /\ \A r \in Rank : xcomm.ppn = << >> \/ xcomm.ppn[r] \in 1 .. NumProcs
  /\ xcomm.lost \subseteq CommFields \cup Arrays \cup {"win"}
  /\ hung \in BOOLEAN /\ freed \in BOOLEAN

(* However the calls follow each other, memory is never freed twice, written  *)
(* after it was freed or past its end, as long as the caller is Careful:       *)
(* inside the library a pointer left dangling (by the win_free of a window of  *)
(* another size, the free of the requests) is set again before it is used.     *)
NoDanglingUse == xcomm.misuse = {}

(* get_global_proc inverts get_node and get_local_proc, on every rank and for *)
(* every process, whichever calls have reshaped the topology.                 *)
MapsLocate ==
  xcomm.heap["ordered_global_ranks"] = "live" =>
    \A r, s \in Rank :
      LET k == xcomm.toLocal[s] + xcomm.toNode[s] * xcomm.ppn[r]
      IN  k \in DOMAIN xcomm.ordered[r] /\ xcomm.ordered[r][k] = s

(* get_node says two processes are on one node exactly if they share a        *)
(* local_comm: "these arrays allow for these methods to work with any         *)
(* ordering".                                                                 *)
NodesAreLocalComms ==
  xcomm.comm["local_comm"] # Null =>
    \A r, s \in Rank :
      xcomm.toNode[r] = xcomm.toNode[s] <=> s \in xcomm.comm["local_comm"][r]

(* What the two-level alltoalls exchange over is a grid: each rank's local    *)
(* and group communicators have the same sizes on all ranks, meet in the rank *)
(* alone and reach every process, even if the leaders were made for another   *)
(* locality.                                                                  *)
ExchangesOverGrid ==
  use # None /\ use.leaders = Null =>
    \A r \in Rank :
      /\ use.local[r] \cap use.group[r] = {r}
      /\ UNION { use.local[s] : s \in use.group[r] } = Rank
      /\ Cardinality(use.local[r]) * Cardinality(use.group[r]) = NumProcs

(* Where nodes are blocks of consecutive ranks, the leaders serve ranks of    *)
(* their own node: leaders made for another locality, or another number of    *)
(* ranks per leader, are replaced before the exchange.                        *)
LeadersWithinNode ==
  (\A r, s \in Rank : xcomm.toNode # << >> /\ r < s => xcomm.toNode[r] <= xcomm.toNode[s])
  /\ use.leaders = Null =>
    \A r \in Rank : use.local[r] \subseteq xcomm.comm["local_comm"][r]

(* Ranks part, some in leader_init and the others past it, only if the leader  *)
(* communicators they find, or the nodes, are not all of one size.  Leaders of  *)
(* one size, made by whichever call for whichever locality, are replaced on all *)
(* ranks or on none, although each rank decides on its own.  Leaders of two     *)
(* sizes come from a caller (ranks that the argument of leader_init does not    *)
(* divide) or from the library (9 ranks on a node, 4 leaders: 2, 2, 2, 2, 1).   *)
OneSize(c) == \A r, s \in Rank : Cardinality(c[r]) = Cardinality(c[s])

RanksPartOnlyIfUneven ==
  [][hung' => \/ hung
              \/ ~ OneSize(xcomm.comm["leader_comm"])
              \/ ~ OneSize(xcomm'.comm["local_comm"])]_vars

(* "Global communicator is split into sub-communicators of maximum size       *)
(* proc_per_leader": with leaders of at most that size, the last of them         *)
(* perhaps smaller, no later call leaves some ranks in a collective that the     *)
(* others do not enter.                                                         *)
RanksAgree == ~ hung

(* The leader_local_comm that alltoall_multileader_locality exchanges over is *)
(* the "communicator containing all leaders on a single node".                *)
LeadersOnOneNode ==
  \A r \in Rank : use.leaders[r] \subseteq xcomm.comm["local_comm"][r]
=============================================================================
