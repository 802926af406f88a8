# Verification of the locality_aware library

TLA+ models, TLC runs and TLAPS proofs kept beside `locality_aware` (MPI Advance), a
C/C++ library of optimised `MPI_Alltoall(v)`, sparse dynamic exchanges
(`MPIL_Alltoall(v)_crs`) and persistent neighbor collectives. Paths below are relative to
`src/library/` unless they begin with `include/locality_aware.h`, which is in `src/`.

## 1. Inventory of the system

Every MPI rank runs the library as one sequential program. There are no threads; all
concurrency is between ranks, through MPI messages, collectives and one RMA window. A rank
may be a whole call ahead of another, methods are chosen per call through global variables,
and every call on an `MPIL_Comm` shares that object's tag counter, lazily built
sub-communicators and scratch arrays.

| Component | State | Operations | Interacts through | Must hold |
|---|---|---|---|---|
| Flat sparse exchange (`source/neighborhood/sparse_col/alltoall_crs.cpp`, `alltoallv_crs.cpp`) | tag of the call, requests, what was received | personalized: Allreduce, Isend, Probe/Recv loop, Waitall; nonblocking (NBX): Issend, Iprobe/Recv, Testall, Ibarrier | wildcard receives on the user's communicator, the tag counter | exactly the messages of this call, all of them, and termination |
| `MPIL_Comm` (`bindings/MPIL_Comm/`, `source/communicator/`) | sub-communicators, rank maps, window, request arrays, tag | init, free, topo/leader/win init and free, req_resize, update_locality, get_tag; lazily by every collective | used by every other component | no use after free, maps invert each other, the communicators form a grid, ranks agree on collectives |
| Persistent neighbor exchange (`source/neighborhood/persistent/`) | four arrays of persistent requests and their buffers | `MPIL_Start`, `MPIL_Wait`, `MPIL_Request_free` | local messages L, S, R and global messages G | data of this iteration, no active request restarted, no deadlock |
| Locality plan (`source/neighborhood/locality/neighbor_locality.cpp`) | who sends what to whom in each step, index lists | `init_locality` and its handshakes on fixed tags | local_comm, wildcard receives | L+S/G/R together deliver each index once to each destination |
| Locality-aware sparse exchange (`*_loc`) | as the flat one, twice | exchange over group_comm, then `local_redistribute(v)` over local_comm | two tags per call | as the flat one, on top of the node layout |
| RMA sparse exchange (`alltoall_crs_rma`) | the window | clear, barrier, fence, put, barrier, fence, scan | RMA | window of the right size; all sources reported |
| Hierarchical alltoall (`source/collective/alltoall/`) | node/leader communicators, repacking buffers | hierarchical, multileader, node_aware, locality_aware, multileader_locality | gather, inter-group exchange, scatter | the permutation of blocks equals an alltoall |
| Flat alltoall(v) (`source/collective/`) | requests | pairwise, nonblocking, batch, batch_async | messages | deadlock freedom, each request waited for once |
| One-shot neighbor alltoallv (`source/neighborhood/standard/neighbor_alltoallv_standard.c`, `locality/neighbor_alltoallv_locality.c`) | none | standard: Irecv/Isend to the topology, Waitall; locality: `alltoallv_crs_personalized`, then a permutation | the topology, the sparse exchange | every neighbor's data at its displacement |
| Dispatch (`bindings/`, global variables of `MPIL_set_*`), GPU copies (`source/heterogeneous/`) | the chosen algorithms | switches, copies to the CPU and back | all collectives | a call uses one method on all ranks |
| `MPIL_Topo`, `MPIL_Info`, allocation, sorting; `sparse_coll_utils.cpp`; benchmarks and tests | | | | see section 6 |

What is hard here: wildcard receives with ranks in different calls; the tag counter that
wraps; NBX termination; an object that is built lazily, reshaped (`update_locality`) and
freed in parts; buffers reused from iteration to iteration while neighbors run ahead;
blocking steps inside calls the user takes for local. There is no persistence, no message
loss and no timeout: crash recovery and unreliable delivery do not arise. `PROJECT.json`
lists each hazard at its line, with the properties that cover it or the reason none does.

## 2. Modules

| Module | Models | Notes |
|---|---|---|
| `CrsPromise` | what a sparse exchange promises | abstract: Call, Return with the determined result |
| `SparseExchange` | flat `MPIL_Alltoall(v)_crs`, all ranks, consecutive calls | implements `CrsPromise` |
| `SparseExchange_proofs` | proofs for all constants | TLAPS |
| `CommObject` | the life of one `MPIL_Comm` | functions with the C names |
| `CommObject_proofs` | its properties on even nodes, for any number of ranks and order of calls | TLAPS |
| `NeighborPromise` | what Start/Wait promise | abstract: Start, Complete |
| `NeighborPersistent` | `neighbor_start`, `neighbor_wait` | implements `NeighborPromise` |
| `NeighborPersistent_proofs` | that it does, for every topology and program | TLAPS |
| `SparseMethods` | the `*_loc` sparse exchanges and `alltoall_crs_rma` | implements `CrsPromise` |
| `SparseMethods_proofs` | that they do, for every grid of ranks and sequence of calls | TLAPS |
| `LocalityPlan` | `init_locality`, all ranks, consecutive calls | the plan executed against what was asked |
| `LocalityPlan_proofs` | its handshakes and the finished plans, for every placement and sequence of calls | TLAPS |
| `AlltoallPromise` | what `MPIL_Alltoall(v)` promise | abstract: Call, Return |
| `FlatAlltoall` | pairwise, nonblocking, batch, batch_async, PMPI; CPU copies; the switches | implements `AlltoallPromise` |
| `FlatAlltoall_proofs` | the request arrays for every number of ranks and stride | TLAPS |
| `FlatAlltoall_refinement` | the messages and buffers: `FlatAlltoall` implements `AlltoallPromise` | TLAPS, extends `FlatAlltoall_proofs` |
| `HierarchicalAlltoall` | hierarchical, multileader, node_aware, locality_aware, multileader_locality | implements `AlltoallPromise` |
| `HierarchicalAlltoall_proofs` | that it does, for every number of nodes, of ranks and leaders on a node, and sequence of calls | TLAPS |
| `MC*` | small instances | placements, programs, patterns |

How they compose: `SparseExchange` and `SparseMethods` implement one promise, so a caller may
switch between all methods; `CommObject` makes the communicators whose grid `SparseMethods`
and `HierarchicalAlltoall` take for granted, and explores the window and the leaders they find;
`HierarchicalAlltoall` uses as `f` what `FlatAlltoall` is shown to implement; `LocalityPlan`
makes the plan whose execution `NeighborPersistent` models, and `PlanDelivers` executes it.

### SparseExchange

State: per rank its place in the code (`pc`), number of calls begun, `xcomm->tag`
(`commTag`), the call's own `tag`, the collectives it entered (`sync`); the messages posted
and not received (`flight`) and what was received per call (`got`). Actions:
`EnterPersonalized`, `Allreduce`, `ProbeRecv`, `Waitall` are the four phases of
`alltoall(v)_crs_personalized`; `EnterNonblocking`, `IprobeRecv`, `IprobeNothing`, `Testall`,
`TestBarrier`, `TestIncomplete` the branches of the NBX loop. Step boundaries lie where a
rank waits for others or where what others have done is observed; purely local statements
belong to the action before them. A message is its source, destination, tag, call and count:
the payload is determined by source and call. MPI is modelled by its rules: wildcard
matching with messages of one source and tag in order (`Matching`), an `Issend` complete only
when matched, an `Isend` complete at once if the size is in `Buffered`, otherwise when
matched. `alltoall` and `alltoallv` differ in what the receive loop counts (messages or
elements) and share the module; the results' arrays are abstracted to the set of received
messages.

### CommObject

One record, `xcomm`, holds the fields on all ranks: a communicator is the set of its members
seen from each rank, an array is null, live or dangling, the rank maps are functions. `lost`
collects what was overwritten while allocated and `misuse` what was freed twice, written
after a free or past its end. Every public call is collective and one action; the heads of
the hierarchical alltoalls, which create communicators lazily and choose among them, are
actions too (`AlltoallNode`, `AlltoallLeaders`, `AlltoallMultileaderLocality`), with `use` the
communicators chosen and `hung` set when only some ranks would enter the collective
`leader_init`. `Careful` restricts the caller to making anew what it freed before going on;
without it two calls of `MPIL_Comm_topo_free` are a double free, since the pointers are not
reset. What is lost is recorded and not claimed to be nothing: the code leaks `statuses` and, at
every change of leaders, `leader_group_comm` and `leader_local_comm`.

### NeighborPersistent

An edge is a persistent send/receive pair of a request in a step L, S, G or R; `Load` is the
set of source/destination pairs whose data it carries, and the data is the number of the
`Start` that packed it, so that stale and premature data are told apart. `Start` packs and
starts L and S and waits for S, `StartGlobal` copies what arrived to the global buffer and
starts G; `WaitGlobal`, `WaitLocalR` and `WaitLocalL` are the three waits of `neighbor_wait`,
`Deliver` is MPI matching a started send with a started receive. Both buffered and synchronous
sends are explored (`eager`). Who is in charge of which node is a constant, `Via`, that stands
for the plan of `init_locality`, assumed only to name a rank of the right node on each side
(`EndsAgree` of `LocalityPlan` shows that the plan does).

### SparseMethods

State: `pc`, `call`, `commTag`, `tag` and the collectives `entered` per rank as in
`SparseExchange`; `nodeBuf`, what a rank holds for its node between the phases; the window
`win`; `flight`, the messages and puts under way. `AlltoallPersonalizedLoc` ...
`AlltoallvNonblockingLoc` are the heads of the four functions; `GroupAllreduce`, `GroupProbe`
or `GroupIprobe`, `Testall` are the phase over `group_comm`; `LocalRedistribute(v)`,
`LocalAllreduce(v)`, `LocalProbe`, `Return` the one over `local_comm`. `local_redistribute`
takes its tag before its Allreduce and `local_redistributev` after it, hence two actions each.
An entry of a buffer is its header (destination, or origin) and its payload; `Bytes` is how the
receive loops count them, an entry of `Width` units being that many, so that a loop may end or
go on too long as the code's would.
`RmaClear`, `RmaPut`, `RmaScan` are the three stretches of `alltoall_crs_rma` between its
barriers; `PutLands` is the MPI library writing to a window, at any time before the fence.
Ranks are numbered node by node ("Assumes SMP Ordering", `alltoall_crs.cpp:488`), and
`MPI_COMM_WORLD`, over which `alltoall_crs_rma` makes its barriers, has the same ranks as
`global_comm`. The constant `Eager` says which messages the MPI library copies before they are
received. `alltoall_crs_personalized_loc` never waits for its Isends over `group_comm`
(`alltoall_crs.cpp:611`), and its buffer is gone when it returns: a message among them that MPI
does not copy is read from freed memory. The run does not let MPI copy them, so such messages do
outlive the call in it. `OnlyUnawaitedOutlive` names them (`NeverAwaited`) as the one exception,
and says of all other sends of the four methods that the waits cover them.

`crs_num_initialized` is left out: the branch around the Allreduce (`alltoall_crs.cpp:140`) would
skip it if the field were set, which nothing in the library does.

### LocalityPlan

`half[p][c][side]` is a half of the plan while it is built: `MapProcsToNodes` (the Allreduce of
the sizes, who is in charge, and the messages of `form_local_comm`), `FormAllreduce`,
`FormProbe` (the wildcard receives with the fixed tags 19483 and 32048), `FormGlobal`. After
both halves `FindAllreduce`, `LearnProbe`, `Learned` are the two handshakes of
`update_global_comm`, and `FinishPlan` the last Allreduces, `remove_duplicates`,
`form_global_map`, `map_indices` and the return. Messages are sets of entries <<index, node,
process, neighbor>> until `remove_duplicates` sorts them: before that their order is never
read. What a receive loop has received, `got`, is a set for the same reason, and the sums the
loops compare are cardinalities of disjoint unions. Positions in a buffer are <<process, k>> for the code's `indptr[i] + k`. The tags of the
four steps are taken (they move the counter) but not stored. Inputs obey what the callers
guarantee: no zero counts, no index twice in one message, one sender per index.
`PlanDelivers` executes a plan: a write remembers the place of the message it comes from, so that
two writes of one element to one position count as two.

### FlatAlltoall

State: per rank the loop variable `step`, the entries of the array that the next step uses
(`slot`, the pointer arithmetic of the four methods), the array `requests` itself, and the
operations `active` in the library. `Begin` is the head of an exchange, `LoopStep` one Isend
and one Irecv (or Sendrecv), `WaitanySend`/`WaitanyRecv` the two waits of `batch_async` that
hand a freed entry on, `WaitallAndGoOn` a Waitall inside the loop, `WaitallAndFinish` the one
after it. `todo` is the exchanges of a call: two for `alltoallv_nonblocking` on one rank, whose
call of `alltoallv_pairwise` is not followed by a return. `cpu` holds the copies of the
`copy_to_cpu` methods, written back at the return. A message is taken at the wait that frees
its receive, since the caller can rely on it from there on. Displacements are those of gap-free
buffers: a block lies at the place of its source.

### HierarchicalAlltoall

`passed[p]` is what p has handed to each collective of each call; a collective returns when
those it needs have entered it (a Gather needs all ranks of the group at its leader, a Scatter
only the leader). `Call`, `TopoInit`, `LeaderInit` are the lazy creation of communicators,
`Gathered`, `GroupExchanged`, `LocalExchanged`, `LeadersExchanged`, `Scattered` the collectives
of data. The seven packing loops are functions from a place in the new buffer to the place a
block is copied from (`PackForLeaders`, ..., `Reorder`), in units of a block. Groups have one
size and ranks are consecutive on a node, as the code assumes; `EvenLeaders` says so of the
leaders the methods make themselves (9 ranks on a node and 4 leaders do not fit it), and TLC
evaluates it on the shapes of the run.

## 3. Runs

| Run | Instance | Shows | Distinct states |
|---|---|---|---|
| `crs_pair` | 2 ranks, 3 calls mixing the methods, 2 tags | types, separation of calls, nothing left behind, refinement of `CrsPromise`, every call returns | 9 489 |
| `crs_three` | 3 ranks, 2 calls, messages of 0, 1, 2 elements, self-messages | the same safety under every arrival order; empty messages are reported by the methods that count messages | 192 807 |
| `comm` | 4 ranks, 2 hosts in blocks or round robin, leaders of up to 1, 2 or 3 ranks, every order of calls | no memory error for a careful caller, maps, nodes, grids, leaders; ranks part only over leaders of two sizes | 99 652 |
| `neighbor` | 2 nodes of 2 ranks, three programs: restart, overlap, standard | right iteration in every buffer, nothing active restarted, refinement of `NeighborPromise`, every Wait returns | 60 408 |
| `sparse_methods` | 2 nodes of 2 ranks, 2 calls, 5 mixes of methods, 5 tags | implementation of `CrsPromise`, phases and calls do not mix, no message but those never waited for outlives its buffer, every call returns | 15 405 |
| `plan` | 2 nodes of 2 ranks placed round robin, a busy and a sparse pattern in both orders, 7 tags | handshakes separate, both ends of a message agree, one message per pair of nodes without duplicates, the plan delivers, every call returns | 15 905 |
| `flat_alltoall` | 1 to 4 ranks, 2 calls, batches of 2, buffered or synchronous sends | no request lost or reused too early, implementation of `AlltoallPromise`, every call returns | 137 767 |
| `hierarchical` | 2x2, 3x2, 1x4, 2x4 ranks, 2 leaders per node, with and without earlier leaders | implementation of `AlltoallPromise`, every call returns | 70 498 |
| `comm_order` | hosts A,B,B,A | violation: `get_node` puts ranks of different hosts on one node | |
| `comm_leaders` | leaders, then `update_locality` | violation: stale `leader_local_comm` joins different nodes | |
| `comm_uneven` | as `comm` | violation: after `leader_init` with 3 on four ranks, only some ranks enter the next `leader_init` | |
| `neighbor_orders` | two requests waited for in two orders | violation: the ranks of a node wait for each other for ever | |

Why the bounds are enough. `MaxCalls`: a rank is never more than one call ahead of another
(proved as `Skew`, for `SparseMethods` along each communicator), so three calls with two tags already reuse a tag at the closest distance
that can occur, and `crs_three` needs two calls for a fast rank to overtake. Three ranks give
two sources that race into a wildcard receive while a third is a call behind. The tag counter
is bounded by `MaxTag`, the code's own modulus. In `CommObject` all state is finite but
`n_requests` and the window sizes, which take two values each, so that both the same and a
different size are met; two nodes with two ranks and two leaders per node give every
combination of one/many ranks per leader, and leaders of at most three ranks are of two sizes.
Arguments of `update_locality` divide the ranks, as the header assumes of nodes
(`include/locality_aware.h:163`); with others `get_global_proc` goes wrong on the last node, a
hazard no run covers. Programs of `NeighborPersistent` have four or six
calls: a third iteration meets no buffer state the second does not. In `SparseMethods` a node
of two and two nodes give each phase a wildcard race; ranks of different columns of the grid
can be in different calls, and the five sequences of methods are those in which a rank can
meet messages of another phase or method. A call takes two tags: five tags let the counter
wrap in the second call. `LocalityPlan` uses a placement where neither node nor local rank is
a quotient, so that a confusion of ranks shows; the busy pattern has indices that several ranks
send or want, out of order, to oneself and within the node; MaxTag 7 wraps, as a call takes
six. It was also explored with three nodes of two ranks, where several nodes are dealt to one
rank, which takes longer. `nb_stride`, 5 in the code, is 2 in `FlatAlltoall`: three ranks are
more than a batch and no multiple of one, four are two full batches, and `FlatAlltoall_proofs`
is about every stride. `HierarchicalAlltoall` has more nodes than ranks on each, as many, and
fewer, with groups of one and of two ranks, so that no two of the sizes that the packing loops
multiply are equal everywhere; `num_leaders_per_node`, 4 in the code, is 2.

Fairness. `SparseExchange!FairSpec` has weak fairness of each rank and strong fairness of a
successful Iprobe, Testall and barrier test. The loop polls: a rank that tests for ever must
at some time see what has happened, which is MPI's progress rule; and ranks make their calls,
which is what MPI demands of callers of a collective. `NeighborPersistent!FairSpec` only asks
that something happens while anything can, because no call polls; the same holds for
`FlatAlltoall` and `HierarchicalAlltoall`, all of whose waits block. `SparseMethods` and
`LocalityPlan` have weak fairness of each rank, and the former of a put, which MPI completes at
the latest at the fence; an unsuccessful poll changes nothing in them and is not a step.

## 4. Findings

* `comm_order`. `MPIL_Comm_topo_init` derives node ids from ranks in `group_comm`. The header
  (`include/locality_aware.h:161`) says the arrays "allow for these methods to work with any
  ordering"; with hosts A,B,B,A they do not.
* `comm_leaders`. After `update_locality`, `alltoall_multileader_locality` uses leaders of the
  old locality; `MPIL_Comm.h:35` calls `leader_local_comm` "Communicator containing all leaders
  on a single node".
* `comm_uneven`. `alltoall_multileader` lets each rank decide whether its `leader_comm` must be
  made anew, by its own `leader_comm`'s size. The header (`include/locality_aware.h:192`) speaks of
  "sub-communicators of maximum size proc_per_leader"; with 3 on four ranks they have 3 and 1, and
  where one rank per leader is wanted three ranks enter `leader_init` and one does not.
* `neighbor_orders`. `MPIL_Wait` starts and completes a step that needs the other ranks of the
  node in the same Wait, so waiting in different orders deadlocks, unlike MPI's own requests.

## 5. Proofs

`SparseExchange_proofs` is checked by TLAPS for any set of ranks, number of calls, message
sizes, set of buffered sizes, patterns and sequence of methods. `TypeCorrect` needs no
hypothesis. The others assume two facts the code relies on: `SameTagSpace`, that the ranks
hold the same `max_tag`, at least 2 (MPI guarantees 32767; the code's way of reading it may
break the equality, see the hazard at `MPIL_Comm_init.c:33`), and `EmptiesApart`. The latter is
about messages without elements, which `alltoallv_personalized` does not wait for: one that is
left in flight has a tag that a later call may take again. So either there are none
(`NoEmptyMessages`), or no call counts elements (`NoElementCounts`), or the ranks do not make
more calls than there are tags (`TagsLast`), as in the run `crs_three`.

* `TagsSeparate` (`TagsSeparateCalls`), `LeavesNothing` (`NothingLeftBehind`),
  `SourcesReported` (`EmptyMessagesReported`), `ExactDelivery` (a returned call has received
  what was addressed to it, messages without elements perhaps not in a call that counts
  elements), and `Refinement` (`KeepsPromise`).

None of these is inductive. The invariant `IInv` adds: `Control`, the place of a rank fits the
method of its call and `sync` counts its collectives; `Skew`, no rank is past the collective of
a call another has not entered, hence ranks are at most one call apart; `TagByCall`, the tag of a
call follows from its number (`CallTag`), so that of adjacent calls differ;
`FlightInv`, a message in flight is still awaited, by its sender's Issend or by the loop of a
receiver whose Allreduce counted it (`Awaited`), or it has no element and was left behind
(`Overlooked`); `GotInv` and `NothingLost`, messages are received once and
never vanish; `Exact`, a finished call is complete. The argument: skew is at most one, so a
visible message belongs to the receiver's call or the next one; those have different tags; so
a receive takes only messages of its call (`OwnCall`), and the personalized loop ends exactly
when everything has come (`AllReceived`, on cardinalities), while an NBX rank leaves only when
all ranks entered the barrier, hence all their Issends were matched.

`FlatAlltoall_proofs` proves `Tracked` (`RequestsTracked`) for every number of ranks, every
nb_stride, tag space and sequence of calls, from `FlatAssumption` alone (sizes, stride and tag
space are positive). The property is about one rank, but says nothing of which entries the loop
will use next, so it is not inductive. `IInv` adds, per rank: `Control`, an exchange in progress
is one the call can have, batch_async only with more ranks than nb_stride; `Recorded`, the
operations under way are exactly those in the array, each once, and belong to steps already
made, so a new one (`Partners`: two steps have different partners) is in no entry yet; and
`Layout`, one part per method, which entries can hold an operation. The two hard parts are
`Batch`, where `step % Stride` gives the fill of the current batch (`ModStep`), and
`BatchAsync`, where after nb_stride steps the entry that Waitany freed is the free one, while
the other entries are in no order any more. `SlotsFree` (a step overwrites no operation) and
`AllAwaited` (a Waitall is given every operation and no unset entry) are what the loop needs.

`FlatAlltoall_refinement` proves `Refinement` (`KeepsPromise`): for every number of ranks,
nb_stride, number of tags and sequence of calls, each step of `FlatAlltoall` is a `Call` or a
`Return` of `AlltoallPromise` or changes nothing it is about. It extends the module above with
`RInv`: `InCall`, what a rank in an exchange has received is in its place, and its operations
are of this call; `Skew`, no rank is more than one call ahead of a rank that has returned;
`TagSync`, ranks in one call use one tag; `MessageInv`, a message is in flight exactly while it
is sent (`Sent`, by the steps of its source) and not taken (`Took`, by the receives of its
destination that a wait has freed). The argument: `Match`, a receive takes the message of its
own call, for its source has sent that one first, and MPI gives messages of one tag in order
(so one tag is enough: a tag counter that wraps does no harm to these methods); `WaitEffect`, a
wait takes one message for each receive it frees; `LastWaitall` and `Everyone`, after n steps
and the last wait nothing is left, so the buffer is complete; and `ReturnKeepsAll`, who returns
has a message of every rank, hence none is behind. The step from `<<"pairwise",
"nonblocking">>` (`alltoallv_nonblocking` on one rank exchanges twice) is `AgainKeepsAll`.

`NeighborPersistent_proofs` proves `TypeCorrect` (`TypeOK`), `RestartsIdle`
(`IdleWhenRestarted`), `ReceivesOwnIteration` (`OwnIteration`) and `Refinement`
(`KeepsPromise`) for every set of ranks and of requests of both kinds, every topology,
placement of the aggregating ranks and set of programs, with and without buffered sends. It
assumes `NeighborAssumption` (aggregating ranks are on the nodes they act for) and
`ProgramAssumption` (each rank starts and waits for a request in turn, as MPI demands). None of
the four is inductive: a buffer that is right now says nothing about the messages that will
overwrite it. `IInv` looks at one edge at a time. `Launched` counts how often an end of the
edge has been through its step, `Open` says whether it has still to wait for the last time, and
`EdgeInv` relates the two ends: the sender is ahead of what has been received (`Got`) by the
length of the channel, the k-th message carries the k-th exchange, and what is active is open.
`Turns` keeps the rank on its program; `OutInv` says what the user's buffer holds of each pair.
The argument: a rank that forwards has waited for the edge that brought the data, so `Got` of
that edge is the number of the current exchange (`Forwarded`), and a step that launches an edge
finds it not open, hence not active (`EndMoves`, `EdgeKeeps`). The refinement follows the data
backwards over R, G and S: each hop has got at most what the one before has sent
(`SentBefore`, `GotBefore`), so when the last Wait of a rank returns, every source has started
this exchange (`SourceStarted`).

`SparseMethods_proofs` is about every number of nodes, of ranks per node and of calls, every
placement of the loads and sequence of the five methods. `TypeCorrect` needs no hypothesis. The
others assume `EnoughTags`, at least three tags (MPI guarantees 32767): a call takes two, and
with two in all the tags of successive calls would be the same. Nothing is assumed of what the
library buffers: `WaitsCoverSends` shows that the first phase of `alltoall_crs_personalized_loc`
is the only one whose messages can outlive their buffer.

* `CallsKeptApart` (`TagsSeparateCalls`), `HeldForThisNode` (`HeldIsForThisNode`),
  `PhaseOneComplete` (`FirstPhaseComplete`), `SourcesReported` (`EverySourceReported`),
  `WaitsCoverSends` (`OnlyUnawaitedOutlive`) and `Refinement` (`KeepsPromise`).

`IInv` has four parts. `Ranks`: `Control`, the place of a rank and the collectives it has
entered; `Skew`, no rank is past a collective that a rank of the same `group_comm`, `local_comm`
or world has not entered, while ranks with none of these in common may be in different calls;
`TagSync`, the tags a rank holds follow from the call and the phase it is in (`CallTag`), though
one method takes its second tag before its Allreduce and the other after it. `PhaseOne` and `PhaseTwo` say of each phase which message is in flight, that it
is of the receiver's call (`NodeMessage`, `LocalMessage`), that what is held was sent and what
was sent is held or in flight, and that a rank which left the loop has everything. `OneSided`
says the same of puts and the window. Two arguments are not routine. A personalized loop counts
bytes, so `CountingBytes` shows, on cardinalities, that the bytes received equal the bytes
expected only if every message has come; then the loop cannot stop early (`LoopComplete`) nor
wait for a message that will not come (`ProbeComplete`). And `Lockstep` and `NothingBehind` show
that a message a rank can see is of its own call or of the next, whose tag is another: an NBX
rank of the next call has not left a barrier this rank must enter, and what an earlier call sent
was received in it. The refinement maps a return to
`Return` with the sources reported (`Outcome`), which are those that `Contributed`.
`CallTag`, the tag with which each call begins, is a sequence defined by what each method takes;
that it exists is an induction over the naturals, done from the well-founded minimum
(`LeastNumber`), which takes no operator parameter.

`CommObject_proofs` is about every number of ranks, every set of placements, arguments and order
of calls. `TypeCorrect` and `PartOnlyIfUneven` (`RanksPartOnlyIfUneven`) need no hypothesis: where
leaders are of one size and nodes too, all ranks find their leaders stale or none does
(`AllOrNone`). The other invariants of the run `comm` are proved under hypotheses on the machine
and the caller, all of which the instance of the run satisfies:

* `EvenNodes`: the same number of processes on each host, and `update_locality` is given a
  divisor of the number of ranks (`include/locality_aware.h:163` says the library assumes it).
  With it, `MapsAreRight` (`MapsLocate`) and, for a `Careful` caller, `MemoryIsSafe`
  (`NoDanglingUse`).
* `HostsInStep`: the hosts take turns in one order. With it, `NodesAreRight`
  (`NodesAreLocalComms`); the finding `comm_order` is what happens without it.
* `EvenLeaders`: the processes of a node divide evenly among the leaders that the library makes.
  With it, and whatever leaders the caller makes, `GridIsThere` (`ExchangesOverGrid`) and
  `LeadersAtHome` (`LeadersWithinNode`): leaders that would not do are replaced on all ranks, or
  part the ranks (`comm_uneven` shows it for an argument of the caller), and then nothing is
  exchanged over them. Without it the library parts the ranks itself: with 9 processes per node
  and 4 leaders the last leader's group is smaller than the size wanted, so at the second call
  its ranks alone free their `leader_comm` and enter `leader_init`.

The first half of the module is about communicators alone: a split is a `Partition`; if it is
`Even`, ranks with one number in their classes form the other side of a `Grid` (`GridOf`, by
counting pairs), node and local number give each rank an index of its own below the number of
ranks (`IndexInjective`, `NoOverrun`), so `ordered_global_ranks` inverts them (`OrderedInverts`);
if the hosts are `InStep`, a node's ranks have one number (`NodesOf`); and if nodes ascend they
are blocks (`NodeIsBlock`), so smaller blocks lie within them (`LeadersInside`). The second half
gives the effect of each function on the object (`TopoInitEffect`, ..., `CommFreeTyped`), and
what it keeps (`Fit`, `Spared`, transitive, so that a chain such as `get_tag`, `topo_init`,
the stale leaders' free, `leader_init` is followed link by link). The invariant says that the
maps are those of the local communicator there is, or neither is there (`Located`); that leaders
are blocks of consecutive ranks as long as the ranks go on together (`LedTogether`), perhaps not
of the size wanted now and the last perhaps shorter, so that those which `FreeStale` leaves on
every rank are the ones wanted (`StaleGone`, from `BlocksOfSize`); that arrays used without being
made are live (`Memory`); and over which communicators the last exchange ran (`Usage`).

`LocalityPlan_proofs` proves every invariant of the run `plan`, for every number of nodes and of
ranks per node, every placement of the ranks and every sequence of calls, under one hypothesis,
`EnoughTags`: the number of tags is neither 1 nor 5. The S and R announcements of a call have
tags that differ by one, and the R announcements of a call and the S announcements of the next
tags that differ by five, and no Allreduce keeps those apart, so they must not wrap onto each
other (MPI guarantees 32767 tags).

* `Separate` (`HandshakesSeparate`) and `TypeCorrect` (`TypeOK`) follow from `PlanInvariant`. A
  rank's place is a number that only grows (`Progress`; `When` gives the number of a step of a
  call), so that "no one has left an Allreduce that another has not entered" is an inequality
  (`Skew`). `HalfIs` and `TagsAre` give the halves and tags of a rank as functions of its place.
  `InFlight` bounds the progress of the receiver of a message: it has not left the loop the
  message is meant for. Together they tell which loop a visible message belongs to (`HandOwn`,
  `AnnOwn`): a message of `form_local_comm`, whose tag is fixed, is posted only after all ranks
  of the node are in the same half. That the loops end when everything has come, not before, is
  an argument on cardinalities (`AllHanded`, `AllAnnounced`); with `NoneLost`, that a message is
  in flight or received until its loop ends, nothing is left behind (`NothingLeft`).
* `PlansFollow`: the plan of a rank is `PlanOf` what was asked, a function without messages.
  `LearnedIs` says what a rank knows of the other nodes' ranks in charge while it learns it and
  until the next call overwrites it. Only ranks of its own local rank tell it anything, so the
  maximum over the node finds the rank in charge among zeros (`LargestTold`), also if that is
  rank 0.
* `Agree` (`EndsAgree`), `CrossOnce` (`CrossesOnce`) and `Deliver` (`PlanDelivers`) are then facts
  about `PlanOf`. Both nodes of a pair agree that they exchange something, and what
  (`BothSides`), though each deals out its partners in its own order; so both ends sort the same
  indices (`GlobalList`, `AcrossNodes`). A message that is packed from a buffer which holds all
  its indices carries just these (`Packed`), and each of the buffers does (`OrigHolds`,
  `RecvHolds`, `GlobalHoldsRecv`), so what S, G, R and L bring is known in closed form
  (`BroughtSIs`, ..., `BroughtLIs`). An index is wanted at one place (`WantedOnce`), so L writes
  the places of the node's own elements and R the others (`LWrites`, `RWrites`), which gives a
  bijection from writes to places.

`HierarchicalAlltoall_proofs` proves `Layouts` (`Spec => []IInv`) and `Refinement`
(`KeepsPromise`) for every number of nodes and ranks per node, every number of leaders, every
size of the leaders the user has made before and every sequence of the five methods, from the
two assumptions of the module: `HierarchicalAssumption` (sizes are positive) and `EvenLeaders`
(the ranks of a node divide evenly among the leaders the methods make). Without the second the
groups differ in size and the packings overlap.

* Which groups a call works with is not local to it: `leader_comm` is kept from call to call,
  `multileader` replaces one of another size and `multileader_locality` does not. `Place` says
  what a rank finds as a function of the calls made so far (`LeaderWidth`): the user's size until
  the first call that makes leaders, from then on `ProcsPerLeader(NumLeaders)`, for every method
  that makes any wants as many. So ranks in one call work with groups of one size, though they
  enter it at different times, and `Entries` can say of every buffer ever passed what is in it.
* `Entry` gives the layout of each buffer in coordinates of groups and ranks: `FromGroup` (what a
  leader has gathered), `ForScatter`, `ForGroup` and `ForLocal`; each with the ranks that must
  have begun the call for the buffer to exist. `Cell` and `Quotient` invert a place in a buffer,
  so the divisions and remainders of each packing become coordinates (`PackedForLeaders`, ...,
  `PackedLocalForScatter`); then each step from collective to collective takes one layout to the
  next (`LeaderGathers`, `LeadersExchange`, `CounterpartsExchange`, `GroupExchange`,
  `NodesExchange`, `NodeExchange`).
* `EnterKeeps` and `ReturnKeeps` carry the invariant over any step that enters a collective or
  returns; what is left for an action is that it passes on the right layout. A rank that returns
  has the transpose of all send buffers (`Complete`), and all ranks have begun its call, which is
  what `Return` of `AlltoallPromise` asks.

Model-checked only: `CallsReturn` is liveness under fairness, which the provers do not reach, nor
ENABLED: it stays with TLC in every module. What a recursive operator computes for
every input is out of reach too, hence the modules proved about have none, and their invariants
count instead. `MaxTag`, a function of the rank, is deliberately not assumed constant in
`SparseExchange` itself.

## 6. Not modelled, and what is left

* One-shot neighbor alltoallv. The standard method posts every receive and send of the topology
  and waits once for all, with nothing that `FlatAlltoall`'s nonblocking method does not have;
  the locality method is a sparse exchange, which is modelled, and a permutation of its result.
  What goes wrong there with empty messages is a hazard of `PROJECT.json`.
* `sparse_coll_utils.cpp` is an older set of the functions of `alltoall(v)_crs.cpp`, with
  signatures that no header declares and nothing calls.
* GPU: the copies of `gpu_aware` and `copy_to_cpu` are methods of `FlatAlltoall`; the threaded
  variants are reached by no switch, and streams and memory queries belong to the GPU library.
* `MPIL_Request_free` and `MPIL_Request_reorder` (a flag), `MPIL_Topo` and `MPIL_Info` (arrays
  and numbers without behaviour), allocation wrappers, sorting, benchmarks and tests.
* Data itself: datatypes, element values, displacements with gaps. Blocks, messages and indices
  carry their identity instead. Overflow of byte counts and of global indices kept in `int` is
  listed as a hazard; no instance that TLC could check is large enough to meet it.

What could be proved next: every safety property and refinement that a passing run checks is
proved under the hypotheses of section 5, some without any. Within them the properties say less
than one might wish in three places, each a hazard: messages without elements in calls that count
elements, the sends that are never waited for, and nodes or leaders of two sizes. What is left is
on the model's side: that the communicators `CommObject` makes are the
grid of consecutive groups `HierarchicalAlltoall` takes for granted is shown by `LeadersAtHome`
and `GridIsThere` there, but not stated as a theorem about both modules.
