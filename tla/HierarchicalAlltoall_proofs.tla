-------------------- MODULE HierarchicalAlltoall_proofs --------------------
(***************************************************************************)
(* HierarchicalAlltoall implements AlltoallPromise, for every number of nodes, *)
(* of ranks and leaders on a node, size of the leaders the user may have made,  *)
(* and sequence of calls: the packings of each method compose to the transpose. *)
(***************************************************************************)
EXTENDS HierarchicalAlltoall, FiniteSetTheorems, TLAPS

(* The way of call c, whether it makes leaders when it finds those of size g,   *)
(* and the size of the leaders and of the groups in call c, when the user has   *)
(* made leaders of size g (0: none).                                         *)
Way(c) == Alltoall(program[c]).way
Groups(c) == Alltoall(program[c]).groups
Needs(c, g) ==
  IF Way(c) = "multileader_locality" THEN g = 0 ELSE Groups(c) > 1 /\ g # ProcsPerLeader(Groups(c))
LeaderWidth(c, g) == IF \E d \in 1 .. c : Needs(d, g) THEN ProcsPerLeader(NumLeaders) ELSE g
Width(c, g) ==
  IF Way(c) # "multileader_locality" /\ Groups(c) <= 1 THEN PPN ELSE LeaderWidth(c, g)
-----------------------------------------------------------------------------
(* What lies in the buffers between the steps of call c, with groups of g       *)
(* ranks, and who must have begun the call by then.  The ranks of group a are    *)
(* a * g + i; group z * u + l is group l of node z, of u.                      *)
NumGroups(g) == NumProcs \div g
Local(g) == PPN \div g

(* multileader: what leader a has gathered, by group, source and destination.    *)
FromGroup(buf, a, g, c) ==
  /\ \A o \in 0 .. g - 1 : call[a * g + o] >= c
  /\ \A dest \in 0 .. NumGroups(g) - 1 : \A o, j \in 0 .. g - 1 :
       buf[(dest * g + o) * g + j] = Block(a * g + o, dest * g + j, c)
(* What leader a scatters.                                                   *)
ForScatter(buf, a, g, c) ==
  /\ \A q \in Proc : call[q] >= c
  /\ \A dest \in 0 .. g - 1 : \A r \in Proc :
       buf[dest * NumProcs + r] = Block(r, a * g + dest, c)
(* locality_aware: what rank i of group a has received for its group.          *)
ForGroup(buf, a, i, g, c) ==
  /\ \A b \in 0 .. NumGroups(g) - 1 : call[b * g + i] >= c
  /\ \A dest \in 0 .. g - 1 : \A b \in 0 .. NumGroups(g) - 1 :
       buf[dest * NumGroups(g) + b] = Block(b * g + i, a * g + dest, c)
(* multileader_locality: what leader l of node x has received for those of its   *)
(* node from leader l of each node z.                                        *)
ForLocal(buf, x, l, g, c) ==
  LET u == Local(g) IN
  /\ \A z \in 0 .. NumNodes - 1 : \A o \in 0 .. g - 1 : call[(z * u + l) * g + o] >= c
  /\ \A m \in 0 .. u - 1 : \A z \in 0 .. NumNodes - 1 : \A o, j \in 0 .. g - 1 :
       buf[(m * NumNodes + z) * (g * g) + (o * g + j)]
         = Block((z * u + l) * g + o, (x * u + m) * g + j, c)

(* What q may have passed to a collective of call c, in groups of g.            *)
Entry(q, c, name, buf, g) ==
  /\ name = "gather" => buf = SendBuf(q, c)
  /\ name = "group" =>
       IF Way(c) = "locality_aware" THEN buf = SendBuf(q, c) ELSE FromGroup(buf, q \div g, g, c)
  /\ name = "local" =>
       IF Way(c) = "locality_aware" THEN ForGroup(buf, q \div g, q % g, g, c)
       ELSE ForLocal(buf, q \div PPN, (q % PPN) \div g, g, c)
  /\ name = "scatter" => (IsLeader(q, g) => ForScatter(buf, q \div g, g, c))
-----------------------------------------------------------------------------
Counted(g) ==
  /\ shape \in Shapes /\ program \in Programs[shape]
  /\ g \in LeaderSizes /\ (g = 0 \/ PPN % g = 0)
  /\ call \in [Proc -> 0 .. Len(program)]
  /\ leaderSize = [p \in Proc |-> leaderSize[p]]
  /\ DOMAIN at = Proc /\ DOMAIN passed = Proc /\ DOMAIN recvbuf = Proc

(* Where a rank may be, and the leaders it has there.                         *)
Place(p, g) ==
  /\ at[p] # "idle" => call[p] \in 1 .. Len(program)
  /\ at[p] = "leaders" => Needs(call[p], leaderSize[p])
  /\ leaderSize[p] =
       LeaderWidth(IF at[p] \in {"topo", "leaders"} THEN call[p] - 1 ELSE call[p], g)
  /\ at[p] \in {"gather", "scatter"} => Way(call[p]) # "locality_aware"
  /\ at[p] \in {"group", "local"} /\ Way(call[p]) # "locality_aware" =>
       IsLeader(p, Width(call[p], g))
  /\ at[p] = "local" => Way(call[p]) # "multileader"

Entries(g) ==
  \A q \in Proc : \A key \in DOMAIN passed[q] :
    /\ key[1] \in 1 .. call[q]
    /\ Entry(q, key[1], key[2], passed[q][key], Width(key[1], g))

InvOf(g) == Counted(g) /\ (\A p \in Proc : Place(p, g)) /\ Entries(g)
IInv == \E g \in LeaderSizes : InvOf(g)
-----------------------------------------------------------------------------
(* Arithmetic: places q * k + r, in rows of k.                                *)
LEMMA Multiples ==
  ASSUME NEW a \in Nat, NEW b \in Nat, NEW k \in Nat
  PROVE  /\ a * k \in Nat /\ b * k \in Nat
         /\ a < b => a * k + k <= b * k
<1>1. a * k \in Nat /\ b * k \in Nat
  BY SMT
<1>2. ASSUME a < b PROVE a * k + k <= b * k
  <2>1. PICK d \in Nat : b = a + 1 + d
    BY <1>2, SMT
  <2>2. b * k = a * k + k + d * k /\ d * k \in Nat
    BY <2>1, SMT
  <2>. QED  BY <1>1, <2>2, SMT
<1>. QED  BY <1>1, <1>2

LEMMA Division ==
  ASSUME NEW a \in Nat, NEW k \in Nat \ {0}
  PROVE  /\ a \div k \in Nat /\ (a \div k) * k \in Nat
         /\ (a \div k) * k <= a /\ a < (a \div k) * k + k
         /\ a % k = a - (a \div k) * k
BY SMT

LEMMA Quotient ==
  ASSUME NEW a \in Nat, NEW q \in Nat, NEW k \in Nat \ {0}, q * k <= a, a < q * k + k
  PROVE  a \div k = q /\ a % k = a - q * k
<1>1. /\ a \div k \in Nat /\ (a \div k) * k \in Nat /\ q * k \in Nat
      /\ (a \div k) * k <= a /\ a < (a \div k) * k + k
      /\ a % k = a - (a \div k) * k
  BY Division, Multiples
<1>2. /\ q < a \div k => q * k + k <= (a \div k) * k
      /\ a \div k < q => (a \div k) * k + k <= q * k
  BY <1>1, Multiples
<1>3. a \div k = q
  BY <1>1, <1>2, SMT
<1>. QED  BY <1>1, <1>3

(* Row q, column r of Q rows of k columns.                                    *)
LEMMA Cell ==
  ASSUME NEW Q \in Nat, NEW k \in Nat \ {0}, NEW q \in 0 .. Q - 1, NEW r \in 0 .. k - 1
  PROVE  /\ q * k + r \in 0 .. Q * k - 1 /\ q * k + r \in Nat
         /\ (q * k + r) \div k = q /\ (q * k + r) % k = r
<1>1. /\ q \in Nat /\ r \in Nat /\ q < Q /\ r < k
      /\ q * k \in Nat /\ Q * k \in Nat /\ q * k + k <= Q * k
  BY Multiples
<1>2. q * k + r \in Nat /\ q * k <= q * k + r /\ q * k + r < q * k + k
  BY <1>1
<1>3. (q * k + r) \div k = q /\ (q * k + r) % k = (q * k + r) - q * k
  BY <1>1, <1>2, Quotient
<1>. QED  BY <1>1, <1>2, <1>3

LEMMA Cells ==
  ASSUME NEW Q \in Nat, NEW k \in Nat \ {0}, NEW x \in 0 .. Q * k - 1
  PROVE  \E q \in 0 .. Q - 1 : \E r \in 0 .. k - 1 : x = q * k + r
<1>1. Q * k \in Nat
  BY SMT
<1>2. x \in Nat /\ x < Q * k
  BY <1>1
<1>3. /\ x \div k \in Nat /\ (x \div k) * k \in Nat
      /\ (x \div k) * k <= x /\ x < (x \div k) * k + k
  BY <1>2, Division
<1>4. x \div k < Q
  <2>1. Q < x \div k => Q * k + k <= (x \div k) * k
    BY <1>3, Multiples
  <2>. QED  BY <1>1, <1>2, <1>3, <2>1, SMT
<1>5. x \div k \in 0 .. Q - 1 /\ x - (x \div k) * k \in 0 .. k - 1
      /\ x = (x \div k) * k + (x - (x \div k) * k)
  BY <1>2, <1>3, <1>4
<1>. QED  BY <1>5

LEMMA Regroup ==
  ASSUME NEW a \in Nat, NEW b \in Nat, NEW k \in Nat, NEW r \in Nat
  PROVE  (a * k + b) * k + r = a * (k * k) + (b * k + r)
BY SMT

LEMMA Products ==
  ASSUME NEW a \in Nat, NEW b \in Nat, NEW k \in Nat
  PROVE  (a * b) * k = a * (b * k) /\ a * b = b * a /\ a * b \in Nat
BY SMT

LEMMA Square ==
  ASSUME NEW k \in Nat \ {0}
  PROVE  k * k \in Nat \ {0}
BY SMT
-----------------------------------------------------------------------------
(* The ranks, when groups of g divide the nodes.                              *)
Even(g) ==
  /\ NumNodes \in Nat \ {0} /\ PPN \in Nat \ {0} /\ g \in Nat \ {0}
  /\ PPN % g = 0

LEMMA GroupsOfNodes ==
  ASSUME NEW g, Even(g)
  PROVE  /\ Local(g) \in Nat \ {0} /\ PPN = Local(g) * g
         /\ NumGroups(g) \in Nat \ {0} /\ NumGroups(g) = NumNodes * Local(g)
         /\ NumProcs = NumGroups(g) * g /\ NumProcs = NumNodes * PPN /\ NumProcs \in Nat \ {0}
<1>1. /\ PPN \div g \in Nat /\ PPN = (PPN \div g) * g /\ PPN \in Nat \ {0} /\ g \in Nat \ {0}
      /\ NumNodes \in Nat \ {0}
  BY Division DEF Even
<1>2. PPN \div g # 0
  BY <1>1, SMT
<1>3. PICK u \in Nat \ {0} : u = PPN \div g /\ PPN = u * g
  BY <1>1, <1>2
<1>4. NumProcs = (NumNodes * u) * g /\ NumNodes * u \in Nat \ {0} /\ NumNodes * PPN \in Nat \ {0}
  BY <1>1, <1>3, SMT DEF NumProcs
<1>5. NumProcs \div g = NumNodes * u
  <2>1. PICK m \in Nat \ {0} : m = NumNodes * u
    BY <1>4
  <2>2. m * g \in Nat
    BY <1>1, <2>1, Multiples
  <2>3. (m * g) \div g = m
    BY <1>1, <2>1, <2>2, Quotient
  <2>. QED  BY <1>4, <2>1, <2>3
<1>. QED  BY <1>1, <1>3, <1>4, <1>5 DEF Local, NumGroups, NumProcs

LEMMA NodesAreEven ==
  ASSUME NEW g, Even(g)
  PROVE  Even(PPN) /\ NumGroups(PPN) = NumNodes
<1>1. Even(PPN)
  <2>1. PPN \in Nat \ {0} /\ NumNodes \in Nat \ {0}
    BY DEF Even
  <2>2. PPN % PPN = 0
    BY <2>1, Cell, SMT
  <2>. QED  BY <2>1, <2>2 DEF Even
<1>2. Local(PPN) = 1
  <2>1. PPN \in Nat \ {0} /\ 1 * PPN <= PPN /\ PPN < 1 * PPN + PPN
    BY DEF Even
  <2>2. PPN \div PPN = 1
    BY <2>1, Quotient
  <2>. QED  BY <2>2 DEF Local
<1>. QED  BY <1>1, <1>2, GroupsOfNodes DEF Even

(* Rank i of group a ...                                                     *)
LEMMA RankOfGroup ==
  ASSUME NEW g, Even(g), NEW a \in 0 .. NumGroups(g) - 1, NEW i \in 0 .. g - 1
  PROVE  /\ a * g + i \in Proc /\ a * g + i \in Nat
         /\ (a * g + i) \div g = a /\ (a * g + i) % g = i
<1>1. PICK n \in Nat : n = NumGroups(g) /\ NumProcs = n * g
  BY GroupsOfNodes
<1>2. g \in Nat \ {0} /\ a \in 0 .. n - 1
  BY <1>1 DEF Even
<1>3. /\ a * g + i \in 0 .. n * g - 1 /\ a * g + i \in Nat
      /\ (a * g + i) \div g = a /\ (a * g + i) % g = i
  BY <1>2, Cell
<1>. QED  BY <1>1, <1>3 DEF Proc

LEMMA LeaderOfGroup ==
  ASSUME NEW g, Even(g), NEW a \in 0 .. NumGroups(g) - 1
  PROVE  /\ a * g + 0 = a * g /\ a * g \in Proc /\ a * g \in Nat
         /\ (a * g) \div g = a /\ (a * g) % g = 0
<1>1. 0 \in 0 .. g - 1 /\ a \in Nat /\ g \in Nat
  BY DEF Even
<1>2. a * g \in Nat
  BY <1>1, Multiples
<1>3. a * g + 0 = a * g
  BY <1>2
<1>4. /\ a * g + 0 \in Proc /\ (a * g + 0) \div g = a /\ (a * g + 0) % g = 0
  BY <1>1, RankOfGroup
<1>. QED  BY <1>2, <1>3, <1>4

(* ... and every rank is one; group l of node x is group x * u + l.            *)
LEMMA RanksAreOfGroups ==
  ASSUME NEW g, Even(g), NEW p \in Proc
  PROVE  \E a \in 0 .. NumGroups(g) - 1 : \E i \in 0 .. g - 1 : p = a * g + i
<1>1. PICK n \in Nat : n = NumGroups(g) /\ NumProcs = n * g
  BY GroupsOfNodes
<1>2. g \in Nat \ {0} /\ p \in 0 .. n * g - 1
  BY <1>1 DEF Even, Proc
<1>3. \E a \in 0 .. n - 1 : \E i \in 0 .. g - 1 : p = a * g + i
  BY <1>2, Cells
<1>. QED  BY <1>1, <1>3

LEMMA GroupOfNode ==
  ASSUME NEW g, Even(g), NEW x \in 0 .. NumNodes - 1, NEW l \in 0 .. Local(g) - 1
  PROVE  x * Local(g) + l \in 0 .. NumGroups(g) - 1
<1>1. PICK u \in Nat \ {0} : u = Local(g) /\ NumGroups(g) = NumNodes * u
  BY GroupsOfNodes
<1>2. NumNodes \in Nat /\ l \in 0 .. u - 1
  BY <1>1 DEF Even
<1>3. x * u + l \in 0 .. NumNodes * u - 1
  BY <1>2, Cell
<1>. QED  BY <1>1, <1>3

LEMMA GroupsAreOfNodes ==
  ASSUME NEW g, Even(g), NEW a \in 0 .. NumGroups(g) - 1
  PROVE  \E x \in 0 .. NumNodes - 1 : \E l \in 0 .. Local(g) - 1 : a = x * Local(g) + l
<1>1. PICK u \in Nat \ {0} : u = Local(g) /\ NumGroups(g) = NumNodes * u
  BY GroupsOfNodes
<1>2. NumNodes \in Nat /\ a \in 0 .. NumNodes * u - 1
  BY <1>1 DEF Even
<1>3. \E x \in 0 .. NumNodes - 1 : \E l \in 0 .. u - 1 : a = x * u + l
  BY <1>2, Cells
<1>. QED  BY <1>1, <1>3

(* The node of rank o of group l of node x.                                    *)
LEMMA NodeOfRank ==
  ASSUME NEW g, Even(g), NEW x \in 0 .. NumNodes - 1, NEW l \in 0 .. Local(g) - 1,
         NEW o \in 0 .. g - 1
  PROVE  /\ l * g + o \in 0 .. PPN - 1
         /\ (x * Local(g) + l) * g + o = x * PPN + (l * g + o)
         /\ ((x * Local(g) + l) * g + o) \div PPN = x
         /\ (((x * Local(g) + l) * g + o) % PPN) \div g = l
<1>1. PICK u \in Nat \ {0} : u = Local(g) /\ PPN = u * g
  BY GroupsOfNodes
<1>2. x \in Nat /\ l \in Nat /\ g \in Nat \ {0} /\ o \in Nat /\ NumNodes \in Nat /\ PPN \in Nat \ {0}
  BY <1>1 DEF Even
<1>3. l * g + o \in 0 .. PPN - 1 /\ (l * g + o) \div g = l
  BY <1>1, <1>2, Cell
<1>4. (x * u + l) * g + o = x * (u * g) + (l * g + o)
  BY <1>1, <1>2, SMT
<1>5. PICK k : k = l * g + o /\ k \in 0 .. PPN - 1
  BY <1>3
<1>6. (x * PPN + k) \div PPN = x /\ (x * PPN + k) % PPN = k
  BY <1>2, <1>5, Cell
<1>7. (x * u + l) * g + o = x * PPN + (l * g + o)
  BY <1>1, <1>4
<1>. QED  BY <1>1, <1>3, <1>5, <1>6, <1>7
-----------------------------------------------------------------------------
(* Communicators.                                                            *)
LEMMA SizeOfRanks ==
  ASSUME NEW first, NEW by, NEW size \in Nat, NEW comm, comm = Ranks(first, by, size)
  PROVE  DOMAIN comm = 0 .. size - 1 /\ SizeOf(comm) = size
<1>1. DOMAIN comm = 0 .. size - 1
  BY DEF Ranks
<1>2. Cardinality(0 .. size - 1) = size
  BY FS_Interval
<1>. QED  BY <1>1, <1>2 DEF SizeOf

LEMMA RankInOf ==
  ASSUME NEW comm, NEW i \in DOMAIN comm, \A j \in DOMAIN comm : comm[j] = comm[i] => j = i
  PROVE  RankIn(comm[i], comm) = i
BY DEF RankIn

LEMMA ByDiffer ==
  ASSUME NEW first \in Nat, NEW by \in Nat \ {0}, NEW i \in Nat, NEW j \in Nat,
         first + j * by = first + i * by
  PROVE  j = i
<1>1. /\ i * by \in Nat /\ j * by \in Nat
      /\ (i < j => i * by + by <= j * by) /\ (j < i => j * by + by <= i * by)
  BY Multiples
<1>. QED  BY <1>1

LEMMA GroupComm ==
  ASSUME NEW g, Even(g), NEW a \in 0 .. NumGroups(g) - 1, NEW i \in 0 .. g - 1
  PROVE  LET p == a * g + i IN
         /\ DOMAIN Group(p, g) = 0 .. g - 1 /\ SizeOf(Group(p, g)) = g
         /\ RankIn(p, Group(p, g)) = i
         /\ \A e \in 0 .. g - 1 : Group(p, g)[e] = a * g + e
<1>1. PICK p : p = a * g + i /\ p \div g = a
  BY RankOfGroup
<1>2. PICK first \in Nat : first = a * g
  BY LeaderOfGroup
<1>3. Group(p, g) = Ranks(first, 1, g) /\ g \in Nat
  BY <1>1, <1>2 DEF Group, Even
<1>4. /\ DOMAIN Group(p, g) = 0 .. g - 1 /\ SizeOf(Group(p, g)) = g
      /\ \A e \in 0 .. g - 1 :
           Group(p, g)[e] = first + e * 1 /\ RankIn(Group(p, g)[e], Group(p, g)) = e
  <2>1. PICK comm : comm = Ranks(first, 1, g)
    OBVIOUS
  <2>2. g \in Nat /\ 1 \in Nat \ {0}
    BY <1>3
  <2>3. DOMAIN comm = 0 .. g - 1 /\ SizeOf(comm) = g
    BY <2>1, <2>2, SizeOfRanks
  <2>4. ASSUME NEW e \in 0 .. g - 1 PROVE comm[e] = first + e * 1 /\ RankIn(comm[e], comm) = e
    <3>1. \A j \in 0 .. g - 1 : comm[j] = first + j * 1
      BY <2>1 DEF Ranks
    <3>2. \A j \in DOMAIN comm : comm[j] = comm[e] => j = e
      BY <2>2, <2>3, <3>1
    <3>. QED  BY <2>3, <3>1, <3>2, RankInOf
  <2>. QED  BY <1>3, <2>1, <2>3, <2>4
<1>5. \A e \in 0 .. g - 1 : first + e * 1 = first + e
  BY <1>3
<1>. QED  BY <1>1, <1>2, <1>4, <1>5

LEMMA CounterpartsComm ==
  ASSUME NEW g, Even(g), NEW a \in 0 .. NumGroups(g) - 1, NEW i \in 0 .. g - 1
  PROVE  LET p == a * g + i IN
         /\ DOMAIN Counterparts(p, g) = 0 .. NumGroups(g) - 1
         /\ SizeOf(Counterparts(p, g)) = NumGroups(g)
         /\ RankIn(p, Counterparts(p, g)) = a
         /\ \A b \in 0 .. NumGroups(g) - 1 : Counterparts(p, g)[b] = b * g + i
<1>1. PICK p : p = a * g + i /\ p % g = i
  BY RankOfGroup
<1>2. PICK n \in Nat : n = NumGroups(g)
  BY GroupsOfNodes
<1>3. Counterparts(p, g) = Ranks(i, g, n) /\ g \in Nat \ {0} /\ i \in Nat
  BY <1>1, <1>2 DEF Counterparts, NumGroups, Even
<1>4. /\ DOMAIN Counterparts(p, g) = 0 .. n - 1 /\ SizeOf(Counterparts(p, g)) = n
      /\ \A b \in 0 .. n - 1 :
           Counterparts(p, g)[b] = i + b * g /\ RankIn(Counterparts(p, g)[b], Counterparts(p, g)) = b
  <2>1. PICK comm : comm = Ranks(i, g, n)
    OBVIOUS
  <2>2. DOMAIN comm = 0 .. n - 1 /\ SizeOf(comm) = n
    BY <1>2, <2>1, SizeOfRanks
  <2>3. ASSUME NEW b \in 0 .. n - 1 PROVE comm[b] = i + b * g /\ RankIn(comm[b], comm) = b
    <3>1. \A j \in 0 .. n - 1 : comm[j] = i + j * g
      BY <2>1 DEF Ranks
    <3>2. ASSUME NEW j \in DOMAIN comm, comm[j] = comm[b] PROVE j = b
      <4>1. j \in Nat /\ b \in Nat /\ i + j * g = i + b * g
        BY <2>2, <3>1, <3>2
      <4>. QED  BY <1>3, <4>1, ByDiffer
    <3>. QED  BY <2>2, <3>1, <3>2, RankInOf
  <2>. QED  BY <1>3, <2>1, <2>2, <2>3
<1>5. \A b \in 0 .. n - 1 : i + b * g = b * g + i
  <2>1. \A b \in 0 .. n - 1 : b * g \in Nat
    BY <1>3, Multiples
  <2>. QED  BY <1>3, <2>1
<1>. QED  BY <1>1, <1>2, <1>4, <1>5

LEMMA LocalLeadersComm ==
  ASSUME NEW g, Even(g), NEW x \in 0 .. NumNodes - 1, NEW l \in 0 .. Local(g) - 1
  PROVE  LET p == (x * Local(g) + l) * g IN
         /\ DOMAIN LocalLeaders(p, g) = 0 .. Local(g) - 1
         /\ SizeOf(LocalLeaders(p, g)) = Local(g)
         /\ RankIn(p, LocalLeaders(p, g)) = l
         /\ \A m \in 0 .. Local(g) - 1 : LocalLeaders(p, g)[m] = (x * Local(g) + m) * g
<1>1. PICK u \in Nat \ {0} : u = Local(g) /\ PPN = u * g
  BY GroupsOfNodes
<1>2. 0 \in 0 .. g - 1 /\ g \in Nat \ {0} /\ x \in Nat /\ PPN \in Nat
  BY DEF Even
<1>3. ASSUME NEW m \in 0 .. u - 1
      PROVE  /\ (x * u + m) * g = x * PPN + m * g
             /\ ((x * u + m) * g) \div PPN = x /\ ((x * u + m) * g) % g = 0
  <2>1. x * u + m \in 0 .. NumGroups(g) - 1
    BY <1>1, GroupOfNode
  <2>2. (x * u + m) * g + 0 = (x * u + m) * g /\ ((x * u + m) * g) % g = 0
    BY <2>1, LeaderOfGroup
  <2>3. m * g \in Nat
    BY <1>2, Multiples
  <2>4. /\ (x * u + m) * g + 0 = x * PPN + (m * g + 0)
        /\ ((x * u + m) * g + 0) \div PPN = x
    BY <1>1, <1>2, NodeOfRank
  <2>. QED  BY <2>2, <2>3, <2>4
<1>4. PICK p : p = (x * u + l) * g
  OBVIOUS
<1>5. PICK first \in Nat : first = x * PPN
  BY <1>2, Multiples
<1>6. LocalLeaders(p, g) = Ranks(first, g, u)
  <2>1. p \div PPN = x /\ p % g = 0 /\ PPN \div g = u
    BY <1>1, <1>3, <1>4 DEF Local
  <2>. QED  BY <1>5, <2>1 DEF LocalLeaders
<1>7. /\ DOMAIN LocalLeaders(p, g) = 0 .. u - 1 /\ SizeOf(LocalLeaders(p, g)) = u
      /\ \A m \in 0 .. u - 1 :
           LocalLeaders(p, g)[m] = first + m * g /\ RankIn(LocalLeaders(p, g)[m], LocalLeaders(p, g)) = m
  <2>1. PICK comm : comm = Ranks(first, g, u)
    OBVIOUS
  <2>2. DOMAIN comm = 0 .. u - 1 /\ SizeOf(comm) = u
    BY <2>1, SizeOfRanks
  <2>3. ASSUME NEW m \in 0 .. u - 1 PROVE comm[m] = first + m * g /\ RankIn(comm[m], comm) = m
    <3>1. \A j \in 0 .. u - 1 : comm[j] = first + j * g
      BY <2>1 DEF Ranks
    <3>2. ASSUME NEW j \in DOMAIN comm, comm[j] = comm[m] PROVE j = m
      <4>1. j \in Nat /\ m \in Nat /\ first + j * g = first + m * g
        BY <2>2, <3>1, <3>2
      <4>. QED  BY <1>2, <4>1, ByDiffer
    <3>. QED  BY <2>2, <3>1, <3>2, RankInOf
  <2>. QED  BY <1>6, <2>1, <2>2, <2>3
<1>. QED  BY <1>1, <1>3, <1>4, <1>5, <1>7

(* What an exchange of count blocks gives p.                                  *)
LEMMA Exchanged ==
  ASSUME NEW p, NEW comm, NEW name, NEW count \in Nat \ {0}, NEW size \in Nat,
         SizeOf(comm) = size, NEW b \in 0 .. size - 1, NEW m \in 0 .. count - 1
  PROVE  Exchange(p, comm, name, count)[b * count + m]
           = passed[comm[b]][<<call[p], name>>][RankIn(p, comm) * count + m]
<1>1. /\ b * count + m \in 0 .. size * count - 1
      /\ (b * count + m) \div count = b /\ (b * count + m) % count = m
  BY Cell
<1>2. PICK k : k = b * count + m
  OBVIOUS
<1>. QED  BY <1>1, <1>2 DEF Exchange, Passed

LEMMA Gathering ==
  ASSUME NEW p, NEW comm, NEW size \in Nat, SizeOf(comm) = size, NumProcs \in Nat \ {0},
         NEW o \in 0 .. size - 1, NEW d \in Proc
  PROVE  Gather(p, comm)[o * NumProcs + d] = passed[comm[o]][<<call[p], "gather">>][d]
<1>1. d \in 0 .. NumProcs - 1
  BY DEF Proc
<1>2. /\ o * NumProcs + d \in 0 .. size * NumProcs - 1
      /\ (o * NumProcs + d) \div NumProcs = o /\ (o * NumProcs + d) % NumProcs = d
  BY <1>1, Cell
<1>3. PICK k : k = o * NumProcs + d
  OBVIOUS
<1>. QED  BY <1>2, <1>3 DEF Gather, Passed
-----------------------------------------------------------------------------
(* From where each packing copies a block.                                    *)
LEMMA PackedForLeaders ==
  ASSUME NEW g, Even(g), NEW buf, NEW dest \in 0 .. NumGroups(g) - 1,
         NEW o \in 0 .. g - 1, NEW j \in 0 .. g - 1
  PROVE  PackForLeaders(buf, g)[(dest * g + o) * g + j] = buf[o * NumProcs + (dest * g + j)]
<1>1. PICK n \in Nat \ {0} : n = NumGroups(g) /\ NumProcs = n * g
  BY GroupsOfNodes
<1>2. g \in Nat \ {0} /\ dest \in Nat /\ o \in Nat /\ j \in Nat /\ NumProcs \in Nat
  BY <1>1, GroupsOfNodes DEF Even
<1>3. dest * g + o \in 0 .. n * g - 1 /\ (dest * g + o) % g = o
  BY <1>1, <1>2, Cell
<1>4. PICK row : row = dest * g + o /\ row \in 0 .. NumProcs - 1 /\ row % g = o
  BY <1>1, <1>3
<1>5. /\ row * g + j \in 0 .. NumProcs * g - 1
      /\ (row * g + j) \div g = row /\ (row * g + j) % g = j
  <2>1. NumProcs \in Nat /\ g \in Nat \ {0} /\ row \in 0 .. NumProcs - 1
    BY <1>2, <1>4
  <2>. QED  BY <2>1, Cell
<1>6. PICK k : k = row * g + j
  OBVIOUS
<1>7. k = dest * (g * g) + (o * g + j)
  BY <1>2, <1>4, <1>6, Regroup
<1>8. o * g + j \in 0 .. g * g - 1 /\ g * g \in Nat \ {0}
  BY <1>2, Cell, Square
<1>9. k \div (g * g) = dest
  <2>1. PICK G : G = g * g
    OBVIOUS
  <2>2. PICK m : m = o * g + j
    OBVIOUS
  <2>3. G \in Nat \ {0} /\ m \in 0 .. G - 1 /\ n \in Nat /\ dest \in 0 .. n - 1
    BY <1>1, <1>8, <2>1, <2>2
  <2>4. (dest * G + m) \div G = dest
    BY <2>3, Cell
  <2>. QED  BY <1>7, <2>1, <2>2, <2>4
<1>10. k \in 0 .. g * NumProcs - 1
  <2>1. NumProcs * g = g * NumProcs
    BY <1>2, Products
  <2>. QED  BY <1>5, <1>6, <2>1
<1>11. k \div g = row /\ k % g = j
  BY <1>5, <1>6
<1>12. PackForLeaders(buf, g)[k] = buf[o * NumProcs + dest * g + j]
  BY <1>4, <1>9, <1>10, <1>11 DEF PackForLeaders
<1>13. o * NumProcs + dest * g + j = o * NumProcs + (dest * g + j)
  <2>1. o * NumProcs \in Nat /\ dest * g \in Nat
    BY <1>2, Multiples
  <2>. QED  BY <1>2, <2>1
<1>. QED  BY <1>4, <1>6, <1>12, <1>13

LEMMA PackedForScatter ==
  ASSUME NEW g, Even(g), NEW buf, NEW dest \in 0 .. g - 1, NEW r \in Proc
  PROVE  PackForScatter(buf, g)[dest * NumProcs + r] = buf[r * g + dest]
<1>1. g \in Nat /\ NumProcs \in Nat \ {0} /\ r \in 0 .. NumProcs - 1
  BY GroupsOfNodes DEF Even, Proc
<1>2. /\ dest * NumProcs + r \in 0 .. g * NumProcs - 1
      /\ (dest * NumProcs + r) \div NumProcs = dest /\ (dest * NumProcs + r) % NumProcs = r
  BY <1>1, Cell
<1>3. PICK k : k = dest * NumProcs + r
  OBVIOUS
<1>4. k \in 0 .. g * NumProcs - 1 /\ k \div NumProcs = dest /\ k % NumProcs = r
  BY <1>2, <1>3
<1>. QED  BY <1>3, <1>4 DEF PackForScatter

LEMMA PackedForGroup ==
  ASSUME NEW g, Even(g), NEW buf, NEW dest \in 0 .. g - 1, NEW b \in 0 .. NumGroups(g) - 1
  PROVE  PackForGroup(buf, g)[dest * NumGroups(g) + b] = buf[b * g + dest]
<1>1. PICK n \in Nat \ {0} : n = NumGroups(g) /\ NumProcs = g * n
  <2>1. NumGroups(g) \in Nat \ {0} /\ g \in Nat /\ NumProcs = NumGroups(g) * g
    BY GroupsOfNodes DEF Even
  <2>. QED  BY <2>1, Products
<1>2. g \in Nat
  BY DEF Even
<1>3. /\ dest * n + b \in 0 .. g * n - 1 /\ (dest * n + b) \div n = dest /\ (dest * n + b) % n = b
  <2>1. b \in 0 .. n - 1
    BY <1>1
  <2>. QED  BY <1>2, <2>1, Cell
<1>4. PICK k : k = dest * n + b
  OBVIOUS
<1>5. k \in 0 .. NumProcs - 1 /\ k \div n = dest /\ k % n = b
  BY <1>1, <1>3, <1>4
<1>6. PackForGroup(buf, g) =
        [m \in 0 .. NumProcs - 1 |-> buf[(m % n) * g + (m \div n)]]
  BY <1>1 DEF PackForGroup, NumGroups
<1>. QED  BY <1>1, <1>4, <1>5, <1>6

LEMMA Reordered ==
  ASSUME NEW g, Even(g), NEW buf, NEW b \in 0 .. NumGroups(g) - 1, NEW i \in 0 .. g - 1
  PROVE  Reorder(buf, g)[b * g + i] = buf[i * NumGroups(g) + b]
<1>1. PICK n \in Nat \ {0} : n = NumGroups(g) /\ NumProcs = n * g
  BY GroupsOfNodes
<1>2. g \in Nat \ {0} /\ b \in Nat /\ i \in Nat
  BY <1>1 DEF Even
<1>3. /\ b * g + i \in 0 .. n * g - 1 /\ (b * g + i) \div g = b /\ (b * g + i) % g = i
  BY <1>1, <1>2, Cell
<1>4. PICK k : k = b * g + i
  OBVIOUS
<1>5. k \in 0 .. NumProcs - 1 /\ k \div g = b /\ k % g = i
  BY <1>1, <1>3, <1>4
<1>6. Reorder(buf, g) = [m \in 0 .. NumProcs - 1 |-> buf[(m \div g) + (m % g) * n]]
  BY <1>1 DEF Reorder, NumGroups
<1>7. b + i * n = i * n + b
  BY <1>1, <1>2, Multiples
<1>. QED  BY <1>1, <1>4, <1>5, <1>6, <1>7

LEMMA PackedForLocalLeaders ==
  ASSUME NEW g, Even(g), NEW buf, NEW m \in 0 .. Local(g) - 1, NEW z \in 0 .. NumNodes - 1,
         NEW t \in 0 .. g * g - 1
  PROVE  PackForLocalLeaders(buf, g)[(m * NumNodes + z) * (g * g) + t]
           = buf[z * (PPN * g) + (m * (g * g) + t)]
<1>1. PICK u \in Nat \ {0} : u = Local(g) /\ PPN = u * g
  BY GroupsOfNodes
<1>2. /\ g \in Nat \ {0} /\ m \in Nat /\ z \in Nat /\ NumNodes \in Nat \ {0} /\ PPN \in Nat
      /\ NumProcs = NumNodes * PPN
  BY <1>1, GroupsOfNodes DEF Even
<1>3. PICK G \in Nat \ {0} : G = g * g
  BY <1>2, Square
<1>4. /\ m * NumNodes + z \in 0 .. u * NumNodes - 1 /\ (m * NumNodes + z) \div NumNodes = m
      /\ (m * NumNodes + z) % NumNodes = z
  BY <1>1, <1>2, Cell
<1>5. PICK row : row = m * NumNodes + z
  OBVIOUS
<1>6. PICK Q \in Nat : Q = u * NumNodes
  BY <1>1, <1>2, Products
<1>7. /\ row * G + t \in 0 .. Q * G - 1 /\ (row * G + t) \div G = row /\ (row * G + t) % G = t
  <2>1. row \in 0 .. Q - 1 /\ t \in 0 .. G - 1
    BY <1>3, <1>4, <1>5, <1>6
  <2>. QED  BY <2>1, Cell
<1>8. PICK k : k = row * G + t
  OBVIOUS
<1>9. Q * G = g * NumProcs
  BY <1>1, <1>2, <1>3, <1>6, SMT
<1>10. k \div (NumNodes * G) = m
  <2>1. z * G + t \in 0 .. NumNodes * G - 1
    BY <1>2, <1>3, Cell
  <2>2. PICK H \in Nat \ {0} : H = NumNodes * G
    BY <1>2, <1>3, SMT
  <2>3. PICK s : s = z * G + t
    OBVIOUS
  <2>4. (m * H + s) \div H = m
    <3>1. m \in 0 .. u - 1 /\ s \in 0 .. H - 1
      BY <1>1, <2>1, <2>2, <2>3
    <3>. QED  BY <3>1, Cell
  <2>5. k = m * H + s
    <3>1. t \in Nat
      BY <1>3
    <3>2. row * G + t = m * (NumNodes * G) + (z * G + t)
      BY <1>2, <1>3, <1>5, <3>1, SMT
    <3>. QED  BY <1>8, <2>2, <2>3, <3>2
  <2>. QED  BY <2>2, <2>4, <2>5
<1>11. NumNodes * g * g = NumNodes * G
  BY <1>2, <1>3, SMT
<1>12. (k \div G) % NumNodes = z /\ k % G = t /\ k \in 0 .. g * NumProcs - 1
  BY <1>4, <1>5, <1>7, <1>8, <1>9
<1>13. PackForLocalLeaders(buf, g)[k] = buf[z * PPN * g + m * g * g + t]
  BY <1>3, <1>10, <1>11, <1>12 DEF PackForLocalLeaders
<1>14. z * PPN * g + m * g * g + t = z * (PPN * g) + (m * (g * g) + t)
  <2>1. z * PPN * g = z * (PPN * g) /\ m * g * g = m * (g * g)
    BY <1>2, Products
  <2>2. /\ PPN * g \in Nat /\ z * (PPN * g) \in Nat /\ m * (g * g) \in Nat /\ t \in Nat
    BY <1>2, <1>3, Products
  <2>. QED  BY <2>1, <2>2
<1>. QED  BY <1>3, <1>5, <1>8, <1>13, <1>14

LEMMA PackedLocalForScatter ==
  ASSUME NEW g, Even(g), NEW buf, NEW dest \in 0 .. g - 1, NEW z \in 0 .. NumNodes - 1,
         NEW m \in 0 .. Local(g) - 1, NEW o \in 0 .. g - 1
  PROVE  PackLocalForScatter(buf, g)[dest * NumProcs + ((z * Local(g) + m) * g + o)]
           = buf[m * (NumNodes * g * g) + (z * (g * g) + (o * g + dest))]
<1>1. PICK a : a = z * Local(g) + m /\ a \in 0 .. NumGroups(g) - 1
  BY GroupOfNode
<1>2. PICK r : r = a * g + o
  OBVIOUS
<1>3. /\ r \in Proc /\ r % g = o /\ r \div PPN = z /\ (r % PPN) \div g = m
  BY <1>1, <1>2, RankOfGroup, NodeOfRank
<1>4. /\ g \in Nat /\ NumProcs \in Nat \ {0} /\ r \in 0 .. NumProcs - 1 /\ dest \in Nat
      /\ NumNodes \in Nat /\ m \in Nat /\ z \in Nat /\ o \in Nat
  BY <1>3, GroupsOfNodes DEF Even, Proc
<1>5. /\ dest * NumProcs + r \in 0 .. g * NumProcs - 1
      /\ (dest * NumProcs + r) \div NumProcs = dest /\ (dest * NumProcs + r) % NumProcs = r
  BY <1>4, Cell
<1>6. PICK k : k = dest * NumProcs + r
  OBVIOUS
<1>7. k \in 0 .. g * NumProcs - 1 /\ k \div NumProcs = dest /\ k % NumProcs = r
  BY <1>5, <1>6
<1>8. PackLocalForScatter(buf, g)[k] = buf[z * g * g + m * NumNodes * g * g + o * g + dest]
  BY <1>3, <1>7 DEF PackLocalForScatter
<1>9. z * g * g + m * NumNodes * g * g + o * g + dest
        = m * (NumNodes * g * g) + (z * (g * g) + (o * g + dest))
  BY <1>4, SMT
<1>. QED  BY <1>1, <1>2, <1>6, <1>8, <1>9
-----------------------------------------------------------------------------
(* The steps of the data, from one layout to the next.                        *)

(* A leader has the blocks of its group.                                      *)
LEMMA LeaderGathers ==
  ASSUME NEW g, Even(g), NEW a \in 0 .. NumGroups(g) - 1, NEW p, p = a * g, NEW c, c = call[p],
         \A e \in 0 .. g - 1 : /\ passed[a * g + e][<<c, "gather">>] = SendBuf(a * g + e, c)
                               /\ call[a * g + e] >= c
  PROVE  FromGroup(PackForLeaders(Gather(p, Group(p, g)), g), a, g, c)
<1> DEFINE comm == Group(p, g)
           buf == Gather(p, comm)
<1>1. 0 \in 0 .. g - 1 /\ p = a * g + 0 /\ g \in Nat
  BY LeaderOfGroup DEF Even
<1>2. SizeOf(comm) = g /\ \A e \in 0 .. g - 1 : comm[e] = a * g + e
  <2>1. /\ SizeOf(Group(a * g + 0, g)) = g
        /\ \A e \in 0 .. g - 1 : Group(a * g + 0, g)[e] = a * g + e
    BY <1>1, GroupComm
  <2>. QED  BY <1>1, <2>1
<1>3. ASSUME NEW dest \in 0 .. NumGroups(g) - 1, NEW o \in 0 .. g - 1, NEW j \in 0 .. g - 1
      PROVE  PackForLeaders(buf, g)[(dest * g + o) * g + j] = Block(a * g + o, dest * g + j, c)
  <2>1. PICK d : d = dest * g + j /\ d \in Proc
    BY RankOfGroup
  <2>2. buf[o * NumProcs + d] = passed[comm[o]][<<c, "gather">>][d]
    <3>1. NumProcs \in Nat \ {0}
      BY GroupsOfNodes
    <3>. QED  BY <1>1, <1>2, <2>1, <3>1, Gathering
  <2>3. passed[comm[o]][<<c, "gather">>] = SendBuf(a * g + o, c)
    BY <1>2
  <2>4. SendBuf(a * g + o, c)[d] = Block(a * g + o, d, c)
    BY <2>1 DEF SendBuf
  <2> HIDE DEF buf
  <2>5. PackForLeaders(buf, g)[(dest * g + o) * g + j] = buf[o * NumProcs + (dest * g + j)]
    BY PackedForLeaders
  <2>. QED  BY <2>1, <2>2, <2>3, <2>4, <2>5
<1> HIDE DEF buf
<1>4. FromGroup(PackForLeaders(buf, g), a, g, c)
  BY <1>3 DEF FromGroup
<1>. QED  BY <1>4 DEF buf

(* multileader: from all leaders, a leader has what all ranks have for its own.  *)
LEMMA LeadersExchange ==
  ASSUME NEW g, Even(g), NEW a \in 0 .. NumGroups(g) - 1, NEW p, p = a * g, NEW c, c = call[p],
         \A b \in 0 .. NumGroups(g) - 1 : FromGroup(passed[b * g][<<c, "group">>], b, g, c)
  PROVE  ForScatter(PackForScatter(Exchange(p, Counterparts(p, g), "group", g * g), g), a, g, c)
<1> DEFINE comm == Counterparts(p, g)
           buf == Exchange(p, comm, "group", g * g)
<1>1. 0 \in 0 .. g - 1 /\ p = a * g + 0 /\ g \in Nat \ {0} /\ a \in Nat
  BY LeaderOfGroup DEF Even
<1>2. PICK n \in Nat : n = NumGroups(g)
  BY GroupsOfNodes
<1>3. /\ SizeOf(comm) = n /\ RankIn(p, comm) = a
      /\ \A b \in 0 .. n - 1 : comm[b] = b * g + 0
  BY <1>1, <1>2, CounterpartsComm
<1>4. ASSUME NEW dest \in 0 .. g - 1, NEW b \in 0 .. NumGroups(g) - 1, NEW o \in 0 .. g - 1
      PROVE  PackForScatter(buf, g)[dest * NumProcs + (b * g + o)] = Block(b * g + o, a * g + dest, c)
  <2>1. PICK r : r = b * g + o /\ r \in Proc
    BY RankOfGroup
  <2>2. PICK m : m = o * g + dest /\ m \in 0 .. g * g - 1
    BY <1>1, Cell
  <2>3. o \in Nat /\ b \in Nat /\ dest \in Nat
    BY <1>1
  <2>4. r * g + dest = b * (g * g) + m /\ (a * g + o) * g + dest = a * (g * g) + m
    BY <1>1, <2>1, <2>2, <2>3, Regroup
  <2>5. g * g \in Nat \ {0}
    BY <1>1, Square
  <2>6. buf[b * (g * g) + m] = passed[comm[b]][<<c, "group">>][RankIn(p, comm) * (g * g) + m]
    BY <1>2, <1>3, <2>2, <2>5, Exchanged
  <2>7. comm[b] = b * g
    BY <1>2, <1>3, LeaderOfGroup
  <2>8. passed[b * g][<<c, "group">>][(a * g + o) * g + dest] = Block(b * g + o, a * g + dest, c)
    BY DEF FromGroup
  <2>9. buf[b * (g * g) + m] = Block(b * g + o, a * g + dest, c)
    BY <1>3, <2>4, <2>6, <2>7, <2>8
  <2> HIDE DEF buf
  <2>10. PackForScatter(buf, g)[dest * NumProcs + r] = buf[r * g + dest]
    BY <2>1, PackedForScatter
  <2>. QED  BY <2>1, <2>4, <2>9, <2>10
<1>5. ASSUME NEW q \in Proc PROVE call[q] >= c
  <2>1. PICK b \in 0 .. NumGroups(g) - 1, o \in 0 .. g - 1 : q = b * g + o
    BY RanksAreOfGroups
  <2>. QED  BY <2>1 DEF FromGroup
<1>6. ASSUME NEW dest \in 0 .. g - 1, NEW r \in Proc
      PROVE  PackForScatter(buf, g)[dest * NumProcs + r] = Block(r, a * g + dest, c)
  <2>1. PICK b \in 0 .. NumGroups(g) - 1, o \in 0 .. g - 1 : r = b * g + o
    BY RanksAreOfGroups
  <2>. QED  BY <1>4, <2>1
<1> HIDE DEF buf
<1>7. ForScatter(PackForScatter(buf, g), a, g, c)
  BY <1>5, <1>6 DEF ForScatter
<1>. QED  BY <1>7 DEF buf

(* locality_aware: from its counterparts, a rank has what they have for its      *)
(* group ...                                                                 *)
LEMMA CounterpartsExchange ==
  ASSUME NEW g, Even(g), NEW a \in 0 .. NumGroups(g) - 1, NEW i \in 0 .. g - 1,
         NEW p, p = a * g + i, NEW c, c = call[p],
         \A b \in 0 .. NumGroups(g) - 1 :
           /\ passed[b * g + i][<<c, "group">>] = SendBuf(b * g + i, c)
           /\ call[b * g + i] >= c
  PROVE  ForGroup(PackForGroup(Exchange(p, Counterparts(p, g), "group", g), g), a, i, g, c)
<1> DEFINE comm == Counterparts(p, g)
           buf == Exchange(p, comm, "group", g)
<1>1. g \in Nat \ {0}
  BY DEF Even
<1>2. PICK n \in Nat : n = NumGroups(g)
  BY GroupsOfNodes
<1>3. /\ SizeOf(comm) = n /\ RankIn(p, comm) = a
      /\ \A b \in 0 .. n - 1 : comm[b] = b * g + i
  BY <1>2, CounterpartsComm
<1>4. ASSUME NEW dest \in 0 .. g - 1, NEW b \in 0 .. NumGroups(g) - 1
      PROVE  PackForGroup(buf, g)[dest * NumGroups(g) + b] = Block(b * g + i, a * g + dest, c)
  <2>1. PICK d : d = a * g + dest /\ d \in Proc
    BY RankOfGroup
  <2>2. buf[b * g + dest] = passed[comm[b]][<<c, "group">>][RankIn(p, comm) * g + dest]
    BY <1>1, <1>2, <1>3, Exchanged
  <2>3. passed[comm[b]][<<c, "group">>] = SendBuf(b * g + i, c)
    BY <1>2, <1>3
  <2>4. SendBuf(b * g + i, c)[d] = Block(b * g + i, d, c)
    BY <2>1 DEF SendBuf
  <2>5. buf[b * g + dest] = Block(b * g + i, a * g + dest, c)
    BY <1>3, <2>1, <2>2, <2>3, <2>4
  <2> HIDE DEF buf
  <2>6. PackForGroup(buf, g)[dest * NumGroups(g) + b] = buf[b * g + dest]
    BY PackedForGroup
  <2>. QED  BY <2>5, <2>6
<1> HIDE DEF buf
<1>5. ForGroup(PackForGroup(buf, g), a, i, g, c)
  BY <1>4 DEF ForGroup
<1>. QED  BY <1>5 DEF buf

(* ... and then, from its group, what all ranks have for it.                   *)
LEMMA GroupExchange ==
  ASSUME NEW g, Even(g), NEW a \in 0 .. NumGroups(g) - 1, NEW i \in 0 .. g - 1,
         NEW p, p = a * g + i, NEW c, c = call[p],
         \A e \in 0 .. g - 1 : ForGroup(passed[a * g + e][<<c, "local">>], a, e, g, c)
  PROVE  /\ Reorder(Exchange(p, Group(p, g), "local", NumProcs \div g), g)
              = [s \in Proc |-> Block(s, p, c)]
         /\ \A q \in Proc : call[q] >= c
<1> DEFINE comm == Group(p, g)
           buf == Exchange(p, comm, "local", NumGroups(g))
<1>1. g \in Nat /\ NumGroups(g) \in Nat \ {0}
  BY GroupsOfNodes DEF Even
<1>2. /\ SizeOf(comm) = g /\ RankIn(p, comm) = i
      /\ \A e \in 0 .. g - 1 : comm[e] = a * g + e
  BY GroupComm
<1>3. ASSUME NEW b \in 0 .. NumGroups(g) - 1, NEW e \in 0 .. g - 1
      PROVE  Reorder(buf, g)[b * g + e] = Block(b * g + e, p, c) /\ call[b * g + e] >= c
  <2>1. buf[e * NumGroups(g) + b]
          = passed[comm[e]][<<c, "local">>][RankIn(p, comm) * NumGroups(g) + b]
    BY <1>1, <1>2, Exchanged
  <2>2. passed[a * g + e][<<c, "local">>][i * NumGroups(g) + b] = Block(b * g + e, a * g + i, c)
    BY DEF ForGroup
  <2>3. buf[e * NumGroups(g) + b] = Block(b * g + e, p, c)
    BY <1>2, <2>1, <2>2
  <2> HIDE DEF buf
  <2>4. Reorder(buf, g)[b * g + e] = buf[e * NumGroups(g) + b]
    BY Reordered
  <2>5. call[b * g + e] >= c
    BY DEF ForGroup
  <2>. QED  BY <2>3, <2>4, <2>5
<1>4. ASSUME NEW s \in Proc PROVE Reorder(buf, g)[s] = Block(s, p, c) /\ call[s] >= c
  <2>1. PICK b \in 0 .. NumGroups(g) - 1, e \in 0 .. g - 1 : s = b * g + e
    BY RanksAreOfGroups
  <2>. QED  BY <1>3, <2>1
<1> HIDE DEF buf
<1>5. Reorder(buf, g) = [s \in Proc |-> Reorder(buf, g)[s]]
  BY DEF Reorder, Proc
<1>6. Reorder(buf, g) = [s \in Proc |-> Block(s, p, c)]
  BY <1>4, <1>5
<1>7. Reorder(Exchange(p, Group(p, g), "local", NumProcs \div g), g) = Reorder(buf, g)
  BY DEF buf, NumGroups
<1>. QED  BY <1>4, <1>6, <1>7

(* multileader_locality: from its counterparts, leader l of node x has what their *)
(* groups have for the groups of its node ...                                 *)
LEMMA NodesExchange ==
  ASSUME NEW g, Even(g), NEW x \in 0 .. NumNodes - 1, NEW l \in 0 .. Local(g) - 1,
         NEW p, p = (x * Local(g) + l) * g, NEW c, c = call[p],
         \A z \in 0 .. NumNodes - 1 :
           FromGroup(passed[(z * Local(g) + l) * g][<<c, "group">>], z * Local(g) + l, g, c)
  PROVE  ForLocal(PackForLocalLeaders(Exchange(p, Counterparts(p, PPN), "group", PPN * g), g), x, l, g, c)
<1> DEFINE comm == Counterparts(p, PPN)
           buf == Exchange(p, comm, "group", PPN * g)
<1>1. PICK u \in Nat \ {0} : u = Local(g) /\ PPN = u * g
  BY GroupsOfNodes
<1>2. /\ g \in Nat \ {0} /\ PPN \in Nat \ {0} /\ NumNodes \in Nat \ {0} /\ x \in Nat /\ l \in Nat
      /\ 0 \in 0 .. g - 1
  BY <1>1 DEF Even
<1>3. ASSUME NEW z \in 0 .. NumNodes - 1
      PROVE  l * g + 0 \in 0 .. PPN - 1 /\ (z * u + l) * g = z * PPN + (l * g + 0)
  <2>1. z * u + l \in 0 .. NumGroups(g) - 1
    BY <1>1, GroupOfNode
  <2>2. (z * u + l) * g + 0 = (z * u + l) * g
    BY <2>1, LeaderOfGroup
  <2>3. l * g + 0 \in 0 .. PPN - 1 /\ (z * u + l) * g + 0 = z * PPN + (l * g + 0)
    BY <1>1, <1>2, NodeOfRank
  <2>. QED  BY <2>2, <2>3
<1>4. PICK i : i = l * g + 0 /\ i \in 0 .. PPN - 1
  BY <1>3
<1>5. p = x * PPN + i
  BY <1>1, <1>3, <1>4
<1>6. /\ SizeOf(comm) = NumNodes /\ RankIn(p, comm) = x
      /\ \A z \in 0 .. NumNodes - 1 : comm[z] = z * PPN + i
  <2>1. Even(PPN) /\ NumGroups(PPN) = NumNodes
    BY NodesAreEven
  <2>2. x \in 0 .. NumGroups(PPN) - 1
    BY <2>1
  <2>3. /\ SizeOf(Counterparts(x * PPN + i, PPN)) = NumGroups(PPN)
        /\ RankIn(x * PPN + i, Counterparts(x * PPN + i, PPN)) = x
        /\ \A z \in 0 .. NumGroups(PPN) - 1 : Counterparts(x * PPN + i, PPN)[z] = z * PPN + i
    BY <1>4, <2>1, <2>2, CounterpartsComm
  <2>. QED  BY <1>5, <2>1, <2>3
<1>7. PPN * g \in Nat \ {0} /\ PPN * g = u * (g * g)
  BY <1>1, <1>2, SMT
<1>8. ASSUME NEW m \in 0 .. u - 1, NEW z \in 0 .. NumNodes - 1, NEW o \in 0 .. g - 1, NEW j \in 0 .. g - 1
      PROVE  PackForLocalLeaders(buf, g)[(m * NumNodes + z) * (g * g) + (o * g + j)]
               = Block((z * u + l) * g + o, (x * u + m) * g + j, c)
  <2>1. o * g + j \in 0 .. g * g - 1 /\ g * g \in Nat \ {0}
    BY <1>2, Cell, Square
  <2>2. m * (g * g) + (o * g + j) \in 0 .. PPN * g - 1
    <3>1. PICK G \in Nat \ {0}, t \in Nat : G = g * g /\ t = o * g + j
      BY <2>1
    <3>2. t \in 0 .. G - 1
      BY <2>1, <3>1
    <3>3. m * G + t \in 0 .. u * G - 1
      BY <3>2, Cell
    <3>. QED  BY <1>7, <3>1, <3>3
  <2>3. PICK t : t = m * (g * g) + (o * g + j) /\ t \in 0 .. PPN * g - 1
    BY <2>2
  <2>4. buf[z * (PPN * g) + t] = passed[comm[z]][<<c, "group">>][RankIn(p, comm) * (PPN * g) + t]
    BY <1>2, <1>6, <1>7, <2>3, Exchanged
  <2>5. comm[z] = (z * u + l) * g
    BY <1>3, <1>4, <1>6
  <2>6. passed[(z * u + l) * g][<<c, "group">>][((x * u + m) * g + o) * g + j]
          = Block((z * u + l) * g + o, (x * u + m) * g + j, c)
    <3>1. x * u + m \in 0 .. NumGroups(g) - 1
      BY <1>1, GroupOfNode
    <3>2. FromGroup(passed[(z * u + l) * g][<<c, "group">>], z * u + l, g, c)
      BY <1>1
    <3>. QED  BY <3>1, <3>2 DEF FromGroup
  <2>7. x * (PPN * g) + t = ((x * u + m) * g + o) * g + j
    <3>1. m \in Nat /\ o \in Nat /\ j \in Nat
      BY <1>1, <1>2
    <3>2. x * (u * (g * g)) + (m * (g * g) + (o * g + j)) = ((x * u + m) * g + o) * g + j
      BY <1>1, <1>2, <3>1, SMT
    <3>. QED  BY <1>7, <2>3, <3>2
  <2>8. buf[z * (PPN * g) + t] = Block((z * u + l) * g + o, (x * u + m) * g + j, c)
    BY <1>6, <2>4, <2>5, <2>6, <2>7
  <2> HIDE DEF buf
  <2>9. PackForLocalLeaders(buf, g)[(m * NumNodes + z) * (g * g) + (o * g + j)]
          = buf[z * (PPN * g) + (m * (g * g) + (o * g + j))]
    <3>1. PICK s : s = o * g + j /\ s \in 0 .. g * g - 1
      BY <2>1
    <3>2. PackForLocalLeaders(buf, g)[(m * NumNodes + z) * (g * g) + s]
            = buf[z * (PPN * g) + (m * (g * g) + s)]
      BY <1>1, <3>1, PackedForLocalLeaders
    <3>. QED  BY <3>1, <3>2
  <2>. QED  BY <2>3, <2>8, <2>9
<1>9. ASSUME NEW z \in 0 .. NumNodes - 1, NEW o \in 0 .. g - 1
      PROVE  call[(z * u + l) * g + o] >= c
  BY <1>1 DEF FromGroup
<1> HIDE DEF buf
<1>10. ForLocal(PackForLocalLeaders(buf, g), x, l, g, c)
  BY <1>1, <1>8, <1>9 DEF ForLocal
<1>. QED  BY <1>10 DEF buf

(* ... and then, from the leaders of its node, what all ranks have for its own.  *)
LEMMA NodeExchange ==
  ASSUME NEW g, Even(g), NEW x \in 0 .. NumNodes - 1, NEW l \in 0 .. Local(g) - 1,
         NEW p, p = (x * Local(g) + l) * g, NEW c, c = call[p],
         \A m \in 0 .. Local(g) - 1 :
           ForLocal(passed[(x * Local(g) + m) * g][<<c, "local">>], x, m, g, c)
  PROVE  ForScatter(
           PackLocalForScatter(Exchange(p, LocalLeaders(p, g), "local", NumNodes * g * g), g),
           x * Local(g) + l, g, c)
<1> DEFINE comm == LocalLeaders(p, g)
           buf == Exchange(p, comm, "local", NumNodes * g * g)
<1>1. PICK u \in Nat \ {0} : u = Local(g) /\ PPN = u * g
  BY GroupsOfNodes
<1>2. /\ g \in Nat \ {0} /\ NumNodes \in Nat \ {0} /\ x \in Nat /\ l \in Nat
  BY <1>1 DEF Even
<1>3. /\ SizeOf(comm) = u /\ RankIn(p, comm) = l
      /\ \A m \in 0 .. u - 1 : comm[m] = (x * u + m) * g
  BY <1>1, LocalLeadersComm
<1>4. NumNodes * g * g \in Nat \ {0} /\ NumNodes * g * g = NumNodes * (g * g)
  BY <1>2, SMT
<1>5. ASSUME NEW dest \in 0 .. g - 1, NEW z \in 0 .. NumNodes - 1, NEW m \in 0 .. u - 1,
             NEW o \in 0 .. g - 1
      PROVE  /\ PackLocalForScatter(buf, g)[dest * NumProcs + ((z * u + m) * g + o)]
                  = Block((z * u + m) * g + o, (x * u + l) * g + dest, c)
             /\ call[(z * u + m) * g + o] >= c
  <2>1. o * g + dest \in 0 .. g * g - 1 /\ g * g \in Nat \ {0}
    BY <1>2, Cell, Square
  <2>2. z * (g * g) + (o * g + dest) \in 0 .. NumNodes * g * g - 1
    <3>1. PICK G \in Nat \ {0}, t \in Nat : G = g * g /\ t = o * g + dest
      BY <2>1
    <3>2. t \in 0 .. G - 1
      BY <2>1, <3>1
    <3>3. z * G + t \in 0 .. NumNodes * G - 1
      BY <1>2, <3>2, Cell
    <3>. QED  BY <1>4, <3>1, <3>3
  <2>3. PICK t : t = z * (g * g) + (o * g + dest) /\ t \in 0 .. NumNodes * g * g - 1
    BY <2>2
  <2>4. buf[m * (NumNodes * g * g) + t]
          = passed[comm[m]][<<c, "local">>][RankIn(p, comm) * (NumNodes * g * g) + t]
    BY <1>3, <1>4, <2>3, Exchanged
  <2>5. ForLocal(passed[(x * u + m) * g][<<c, "local">>], x, m, g, c)
    BY <1>1
  <2>6. passed[(x * u + m) * g][<<c, "local">>][(l * NumNodes + z) * (g * g) + (o * g + dest)]
          = Block((z * u + m) * g + o, (x * u + l) * g + dest, c)
    BY <1>1, <2>5 DEF ForLocal
  <2>7. l * (NumNodes * g * g) + t = (l * NumNodes + z) * (g * g) + (o * g + dest)
    <3>1. z \in Nat /\ o \in Nat /\ dest \in Nat
      BY <1>2
    <3>2. l * (NumNodes * g * g) + (z * (g * g) + (o * g + dest))
            = (l * NumNodes + z) * (g * g) + (o * g + dest)
      BY <1>2, <3>1, SMT
    <3>. QED  BY <2>3, <3>2
  <2>8. buf[m * (NumNodes * g * g) + t] = Block((z * u + m) * g + o, (x * u + l) * g + dest, c)
    BY <1>3, <2>4, <2>6, <2>7
  <2> HIDE DEF buf
  <2>9. PackLocalForScatter(buf, g)[dest * NumProcs + ((z * u + m) * g + o)]
          = buf[m * (NumNodes * g * g) + (z * (g * g) + (o * g + dest))]
    BY <1>1, PackedLocalForScatter
  <2>10. call[(z * u + m) * g + o] >= c
    BY <1>1, <2>5 DEF ForLocal
  <2>. QED  BY <2>3, <2>8, <2>9, <2>10
<1>6. ASSUME NEW r \in Proc
      PROVE  \E z \in 0 .. NumNodes - 1 : \E m \in 0 .. u - 1 : \E o \in 0 .. g - 1 :
               r = (z * u + m) * g + o
  <2>1. PICK a \in 0 .. NumGroups(g) - 1, o \in 0 .. g - 1 : r = a * g + o
    BY RanksAreOfGroups
  <2>2. PICK z \in 0 .. NumNodes - 1, m \in 0 .. Local(g) - 1 : a = z * Local(g) + m
    BY GroupsAreOfNodes
  <2>. QED  BY <1>1, <2>1, <2>2
<1>7. ASSUME NEW dest \in 0 .. g - 1, NEW r \in Proc
      PROVE  PackLocalForScatter(buf, g)[dest * NumProcs + r] = Block(r, (x * u + l) * g + dest, c)
  <2>1. PICK z \in 0 .. NumNodes - 1, m \in 0 .. u - 1, o \in 0 .. g - 1 : r = (z * u + m) * g + o
    BY <1>6
  <2>. QED  BY <1>5, <2>1
<1>8. ASSUME NEW q \in Proc PROVE call[q] >= c
  <2>1. PICK z \in 0 .. NumNodes - 1, m \in 0 .. u - 1, o \in 0 .. g - 1 : q = (z * u + m) * g + o
    BY <1>6
  <2>2. 0 \in 0 .. g - 1
    BY <1>2
  <2>. QED  BY <1>5, <2>1, <2>2
<1> HIDE DEF buf
<1>9. ForScatter(PackLocalForScatter(buf, g), x * u + l, g, c)
  BY <1>7, <1>8 DEF ForScatter
<1>. QED  BY <1>1, <1>9 DEF buf

-----------------------------------------------------------------------------
(* The calls.                                                                *)
LEMMA Programmed ==
  ASSUME NEW g, Counted(g)
  PROVE  /\ Len(program) \in Nat /\ Len(program) <= MaxCalls
         /\ \A c \in 1 .. Len(program) : program[c] \in Algorithms
         /\ NumNodes \in Nat \ {0} /\ PPN \in Nat \ {0} /\ NumLeaders \in Nat \ {0} /\ g \in Nat
<1>1. shape \in Shapes /\ program \in Programs[shape] /\ g \in LeaderSizes
  BY DEF Counted
<1>2. shape \in (Nat \ {0}) \X (Nat \ {0}) /\ program \in Seq(Algorithms) /\ Len(program) <= MaxCalls
  BY <1>1, HierarchicalAssumption
<1>3. NumLeaders \in Nat \ {0} /\ g \in Nat
  BY <1>1, HierarchicalAssumption
<1>. QED  BY <1>2, <1>3 DEF NumNodes, PPN

LEMMA Methods ==
  ASSUME NEW g, Counted(g), NEW c \in 1 .. Len(program)
  PROVE  /\ Way(c) \in {"multileader", "locality_aware", "multileader_locality"}
         /\ Groups(c) \in {1, NumLeaders}
         /\ Way(c) = "multileader_locality" => Groups(c) = NumLeaders
<1>1. program[c] \in Algorithms
  BY Programmed
<1>2. ASSUME NEW m, m = Alltoall(program[c])
      PROVE  \/ \E k \in {1, NumLeaders} : m = Multileader(k)
             \/ \E k \in {1, NumLeaders} : m = LocalityAware(k)
             \/ m = MultileaderLocality
  BY <1>1, <1>2 DEF Algorithms, Alltoall, Hierarchical, NodeAware
<1>. QED
  BY <1>2 DEF Way, Groups, Multileader, LocalityAware, MultileaderLocality

(* Leaders divide a node, and are made once.                                  *)
LEMMA LeadersDivide ==
  ASSUME NEW g, Counted(g)
  PROVE  /\ ProcsPerLeader(NumLeaders) \in Nat \ {0}
         /\ PPN % ProcsPerLeader(NumLeaders) = 0
<1>1. PPN \in Nat \ {0} /\ NumLeaders \in Nat \ {0} /\ shape \in Shapes
  BY Programmed DEF Counted
<1>2. PICK k : k = IF PPN < NumLeaders THEN PPN ELSE NumLeaders
  OBVIOUS
<1>3. k \in Nat \ {0} /\ k <= PPN
  BY <1>1, <1>2
<1>4. PPN \div k \in Nat /\ PPN < (PPN \div k) * k + k
  BY <1>1, <1>3, Division
<1>5. PPN \div k # 0
  <2>1. ASSUME PPN \div k = 0 PROVE FALSE
    <3>1. 0 * k = 0
      BY <1>3
    <3>. QED  BY <1>1, <1>3, <1>4, <2>1, <3>1
  <2>. QED  BY <2>1
<1>6. PPN % (PPN \div k) = 0
  BY <1>1, <1>2, EvenLeaders DEF PPN
<1>7. ProcsPerLeader(NumLeaders) = PPN \div k
  BY <1>2 DEF ProcsPerLeader
<1>. QED  BY <1>4, <1>5, <1>6, <1>7

LEMMA LeadersOfCall ==
  ASSUME NEW g, Counted(g), NEW c \in 1 .. Len(program)
  PROVE  /\ LeaderWidth(c, g) =
              IF Needs(c, LeaderWidth(c - 1, g)) THEN ProcsPerLeader(NumLeaders)
              ELSE LeaderWidth(c - 1, g)
         /\ ~ Needs(c, LeaderWidth(c, g))
         /\ LeaderWidth(c, g) \in {g, ProcsPerLeader(NumLeaders)}
         /\ \A s : Needs(c, s) => Groups(c) = NumLeaders
<1> DEFINE P == ProcsPerLeader(NumLeaders)
           Before == \E d \in 1 .. c - 1 : Needs(d, g)
<1>1. c \in Nat \ {0} /\ c \in 1 .. c /\ \A d : d \in 1 .. c <=> (d \in 1 .. c - 1 \/ d = c)
  BY Programmed
<1>2. /\ LeaderWidth(c - 1, g) = IF Before THEN P ELSE g
      /\ LeaderWidth(c, g) = IF Before \/ Needs(c, g) THEN P ELSE g
  BY <1>1 DEF LeaderWidth
<1>3. ~ Needs(c, P) /\ \A s : Needs(c, s) => Groups(c) = NumLeaders
  BY Methods, LeadersDivide DEF Needs
<1> HIDE DEF P, Before
<1>4. CASE Before
  BY <1>2, <1>3, <1>4 DEF P
<1>5. CASE ~ Before /\ Needs(c, g)
  BY <1>2, <1>3, <1>5 DEF P
<1>6. CASE ~ Before /\ ~ Needs(c, g)
  BY <1>2, <1>3, <1>6 DEF P
<1>. QED  BY <1>4, <1>5, <1>6

(* The groups of a call divide a node.                                        *)
LEMMA GroupsAreEven ==
  ASSUME NEW g, Counted(g), NEW c \in 1 .. Len(program)
  PROVE  Even(Width(c, g))
<1>1. NumNodes \in Nat \ {0} /\ PPN \in Nat \ {0} /\ g \in Nat /\ (g = 0 \/ PPN % g = 0)
  BY Programmed DEF Counted
<1>2. CASE Way(c) # "multileader_locality" /\ Groups(c) <= 1
  <2>1. PICK k : Even(k)
    <3>1. 1 \in Nat \ {0} /\ PPN % 1 = 0
      BY <1>1
    <3>2. Even(1)
      BY <1>1, <3>1 DEF Even
    <3>. QED  BY <3>2
  <2>2. Even(PPN)
    BY <2>1, NodesAreEven
  <2>. QED  BY <1>2, <2>2 DEF Width
<1>3. CASE ~ (Way(c) # "multileader_locality" /\ Groups(c) <= 1)
  <2>1. Width(c, g) = LeaderWidth(c, g)
    BY <1>3 DEF Width
  <2>2. LeaderWidth(c, g) # 0
    <3>1. CASE Way(c) = "multileader_locality"
      BY <3>1, LeadersOfCall DEF Needs
    <3>2. CASE Way(c) # "multileader_locality"
      <4>1. Groups(c) = NumLeaders /\ Groups(c) > 1
        BY <1>3, <3>2, Methods, Programmed
      <4>2. LeaderWidth(c, g) = ProcsPerLeader(NumLeaders)
        BY <3>2, <4>1, LeadersOfCall DEF Needs
      <4>. QED  BY <4>2, LeadersDivide
    <3>. QED  BY <3>1, <3>2
  <2>3. LeaderWidth(c, g) \in {g, ProcsPerLeader(NumLeaders)}
    BY LeadersOfCall
  <2>4. LeaderWidth(c, g) \in Nat \ {0} /\ PPN % LeaderWidth(c, g) = 0
    <3>1. CASE LeaderWidth(c, g) = g
      BY <1>1, <2>2, <3>1
    <3>2. CASE LeaderWidth(c, g) = ProcsPerLeader(NumLeaders)
      BY <3>2, LeadersDivide
    <3>. QED  BY <2>3, <3>1, <3>2
  <2>. QED  BY <1>1, <2>1, <2>4 DEF Even
<1>. QED  BY <1>2, <1>3
-----------------------------------------------------------------------------
(* No step changes the shape or the program, or ends a call of another rank.     *)
LEMMA Same ==
  ASSUME shape' = shape, program' = program
  PROVE  /\ NumNodes' = NumNodes /\ PPN' = PPN /\ NumProcs' = NumProcs /\ Proc' = Proc
         /\ \A c : Way(c)' = Way(c) /\ Groups(c)' = Groups(c)
         /\ \A g : ProcsPerLeader(g)' = ProcsPerLeader(g)
         /\ \A g : NumGroups(g)' = NumGroups(g) /\ Local(g)' = Local(g)
         /\ \A q, c : SendBuf(q, c)' = SendBuf(q, c)
<1>1. NumNodes' = NumNodes /\ PPN' = PPN
  BY DEF NumNodes, PPN
<1>2. NumProcs' = NumProcs
  BY <1>1 DEF NumProcs
<1>3. Proc' = Proc
  BY <1>2 DEF Proc
<1>4. \A c : Alltoall(program[c])' = Alltoall(program[c])
  BY Zenon DEF Alltoall, Hierarchical, NodeAware, Multileader, LocalityAware, MultileaderLocality
<1>5. \A c : Way(c)' = Way(c) /\ Groups(c)' = Groups(c)
  BY Zenon, <1>4 DEF Way, Groups
<1>6. \A g : ProcsPerLeader(g)' = ProcsPerLeader(g)
  BY Zenon, <1>1 DEF ProcsPerLeader
<1>7. \A g : NumGroups(g)' = NumGroups(g) /\ Local(g)' = Local(g)
  BY Zenon, <1>1, <1>2 DEF NumGroups, Local
<1>8. \A q, c : SendBuf(q, c)' = SendBuf(q, c)
  BY <1>3 DEF SendBuf
<1>. QED  BY <1>1, <1>2, <1>3, <1>5, <1>6, <1>7, <1>8

LEMMA SameWidths ==
  ASSUME shape' = shape, program' = program
  PROVE  /\ \A c, g : Needs(c, g)' <=> Needs(c, g)
         /\ \A c, g : LeaderWidth(c, g)' = LeaderWidth(c, g)
         /\ \A c, g : Width(c, g)' = Width(c, g)
<1>1. \A c, g : Needs(c, g)' <=> Needs(c, g)
  BY Same DEF Needs, ProcsPerLeader
<1>2. \A c, g : LeaderWidth(c, g)' = LeaderWidth(c, g)
  BY Zenon, <1>1, Same DEF LeaderWidth
<1>3. \A c, g : Width(c, g)' = Width(c, g)
  BY Zenon, <1>2, Same DEF Width
<1>. QED  BY <1>1, <1>2, <1>3

(* Entries stay as they are while calls begin.                                *)
LEMMA EntryStays ==
  ASSUME shape' = shape, program' = program, NEW q \in Proc, NEW c \in Nat, NEW name, NEW buf,
         NEW g, Even(g), Entry(q, c, name, buf, g),
         \A r \in Proc : call[r] >= c => call'[r] >= c
  PROVE  Entry(q, c, name, buf, g)'
<1>1. PICK a \in 0 .. NumGroups(g) - 1, i \in 0 .. g - 1 : q = a * g + i
  BY RanksAreOfGroups
<1>2. PICK x \in 0 .. NumNodes - 1, l \in 0 .. Local(g) - 1 : a = x * Local(g) + l
  BY GroupsAreOfNodes
<1>3. q \div g = a /\ q % g = i
  BY <1>1, RankOfGroup
<1>4. q \div PPN = x /\ (q % PPN) \div g = l
  BY <1>1, <1>2, NodeOfRank
<1>5. (FromGroup(buf, a, g, c) => FromGroup(buf, a, g, c)')
  <2>1. \A o \in 0 .. g - 1 : a * g + o \in Proc
    BY RankOfGroup
  <2>. QED  BY <2>1, Same DEF FromGroup, Block
<1>6. ForScatter(buf, a, g, c) => ForScatter(buf, a, g, c)'
  BY Same DEF ForScatter, Block
<1>7. ForGroup(buf, a, i, g, c) => ForGroup(buf, a, i, g, c)'
  <2>1. \A b \in 0 .. NumGroups(g) - 1 : b * g + i \in Proc
    BY RankOfGroup
  <2>. QED  BY <2>1, Same DEF ForGroup, Block
<1>8. ForLocal(buf, x, l, g, c) => ForLocal(buf, x, l, g, c)'
  <2>1. ASSUME NEW z \in 0 .. NumNodes - 1, NEW o \in 0 .. g - 1
        PROVE  (z * Local(g) + l) * g + o \in Proc
    BY GroupOfNode, RankOfGroup
  <2>. QED  BY <2>1, Same DEF ForLocal, Block
<1>9. /\ name = "gather" => buf = SendBuf(q, c)
      /\ name = "group" => IF Way(c) = "locality_aware" THEN buf = SendBuf(q, c) ELSE FromGroup(buf, a, g, c)
      /\ name = "local" => IF Way(c) = "locality_aware" THEN ForGroup(buf, a, i, g, c)
                           ELSE ForLocal(buf, x, l, g, c)
      /\ name = "scatter" => (IsLeader(q, g) => ForScatter(buf, a, g, c))
  BY <1>3, <1>4 DEF Entry
<1>10. /\ name = "gather" => buf = SendBuf(q, c)'
       /\ name = "group" => IF Way(c)' = "locality_aware" THEN buf = SendBuf(q, c)' ELSE FromGroup(buf, a, g, c)'
       /\ name = "local" => IF Way(c)' = "locality_aware" THEN ForGroup(buf, a, i, g, c)'
                            ELSE ForLocal(buf, x, l, g, c)'
       /\ name = "scatter" => (IsLeader(q, g) => ForScatter(buf, a, g, c)')
  BY <1>5, <1>6, <1>7, <1>8, <1>9, Same
<1>11. q \div PPN' = x /\ (q % PPN') \div g = l
  BY <1>4, Same
<1>. QED  BY <1>3, <1>10, <1>11 DEF Entry, IsLeader

LEMMA PlaceStays ==
  ASSUME shape' = shape, program' = program, NEW g, NEW q, Place(q, g),
         at'[q] = at[q], call'[q] = call[q], leaderSize'[q] = leaderSize[q]
  PROVE  Place(q, g)'
<1>1. /\ Needs(call[q], leaderSize[q])' <=> Needs(call[q], leaderSize[q])
      /\ Way(call[q])' = Way(call[q]) /\ Width(call[q], g)' = Width(call[q], g)
      /\ LeaderWidth(IF at[q] \in {"topo", "leaders"} THEN call[q] - 1 ELSE call[q], g)'
           = LeaderWidth(IF at[q] \in {"topo", "leaders"} THEN call[q] - 1 ELSE call[q], g)
  BY Same, SameWidths
<1>. QED  BY <1>1 DEF Place, IsLeader

(* Rank p is in call c, and its leaders are of size s, after a step.             *)
Continues(p, c, s) ==
  /\ shape' = shape /\ program' = program
  /\ call' = [call EXCEPT ![p] = c] /\ leaderSize' = [leaderSize EXCEPT ![p] = s]
  /\ DOMAIN recvbuf' = Proc
(* It enters a collective of that call.                                        *)
Enters(p, c, name, buf, s) ==
  /\ Continues(p, c, s)
  /\ at' = [at EXCEPT ![p] = name]
  /\ passed' = [passed EXCEPT ![p] = With(@, <<c, name>>, buf)]
(* The call p is in, or the next; what keeps the invariant when p enters.        *)
Current(p, c) == c \in 1 .. Len(program) /\ c \in {call[p], call[p] + 1}
MayEnter(p, c, name, buf, s, g) ==
  /\ Current(p, c)
  /\ Entry(p, c, name, buf, Width(c, g))
  /\ name # "idle"
  /\ name = "leaders" => Needs(c, s)
  /\ s = LeaderWidth(IF name \in {"topo", "leaders"} THEN c - 1 ELSE c, g)
  /\ name \in {"gather", "scatter"} => Way(c) # "locality_aware"
  /\ name \in {"group", "local"} /\ Way(c) # "locality_aware" => IsLeader(p, Width(c, g))
  /\ name = "local" => Way(c) # "multileader"

LEMMA EnterKeeps ==
  ASSUME NEW g, InvOf(g), NEW p \in Proc, NEW c, NEW name, NEW buf, NEW s,
         Enters(p, c, name, buf, s), MayEnter(p, c, name, buf, s, g)
  PROVE  InvOf(g)' /\ at'[p] # "idle" /\ \A q \in Proc \ {p} : at'[q] = at[q]
<1>0. /\ shape' = shape /\ program' = program
      /\ call' = [call EXCEPT ![p] = c] /\ leaderSize' = [leaderSize EXCEPT ![p] = s]
      /\ at' = [at EXCEPT ![p] = name]
      /\ passed' = [passed EXCEPT ![p] = With(@, <<c, name>>, buf)]
      /\ DOMAIN recvbuf' = Proc
      /\ c \in 1 .. Len(program) /\ c \in {call[p], call[p] + 1}
      /\ Entry(p, c, name, buf, Width(c, g))
      /\ name # "idle"
  BY DEF Enters, Continues, MayEnter, Current
<1>1. /\ shape \in Shapes /\ program \in Programs[shape]
      /\ g \in LeaderSizes /\ (g = 0 \/ PPN % g = 0)
      /\ call \in [Proc -> 0 .. Len(program)]
      /\ leaderSize = [q \in Proc |-> leaderSize[q]] /\ DOMAIN leaderSize = Proc
      /\ DOMAIN at = Proc /\ DOMAIN passed = Proc
      /\ Len(program) \in Nat /\ Proc' = Proc /\ PPN' = PPN
  <2>1. leaderSize = [q \in Proc |-> leaderSize[q]]
    BY DEF InvOf, Counted
  <2>2. DOMAIN leaderSize = Proc
    BY <2>1
  <2>. QED  BY <1>0, <2>1, <2>2, Programmed, Same DEF InvOf, Counted
<1>2. /\ call'[p] = c /\ at'[p] = name /\ leaderSize'[p] = s
      /\ \A q \in Proc \ {p} :
           call'[q] = call[q] /\ at'[q] = at[q] /\ leaderSize'[q] = leaderSize[q]
      /\ \A q \in Proc : call'[q] >= call[q] /\ call'[q] \in Nat /\ call[q] \in Nat
  BY <1>0, <1>1
<1>3. Counted(g)'
  <2>1. /\ call' \in [Proc -> 0 .. Len(program)]
        /\ DOMAIN at' = Proc /\ DOMAIN passed' = Proc
    BY <1>0, <1>1
  <2>2. leaderSize' = [q \in Proc |-> leaderSize'[q]]
    BY <1>0, <1>1
  <2>. QED  BY <1>0, <1>1, <2>1, <2>2 DEF Counted
<1>4. Place(p, g)'
  <2>1. /\ Needs(c, s)' <=> Needs(c, s)
        /\ Way(c)' = Way(c) /\ Width(c, g)' = Width(c, g)
        /\ LeaderWidth(IF name \in {"topo", "leaders"} THEN c - 1 ELSE c, g)'
             = LeaderWidth(IF name \in {"topo", "leaders"} THEN c - 1 ELSE c, g)
    BY <1>0, Same, SameWidths
  <2>. QED  BY <1>0, <1>2, <2>1 DEF MayEnter, Place, IsLeader
<1>5. ASSUME NEW q \in Proc, q # p PROVE Place(q, g)'
  BY <1>0, <1>2, <1>5, PlaceStays DEF InvOf
<1>6. ASSUME NEW q \in Proc, NEW key \in DOMAIN passed'[q]
      PROVE  key[1] \in 1 .. call'[q] /\ Entry(q, key[1], key[2], passed[q][key], Width(key[1], g))'
  <2>1. \/ key \in DOMAIN passed[q] /\ passed'[q][key] = passed[q][key]
        \/ q = p /\ key = <<c, name>> /\ passed'[q][key] = buf
    <3>1. CASE q # p
      BY <1>0, <1>1, <3>1
    <3>2. CASE q = p
      <4>1. passed'[q] = With(passed[p], <<c, name>>, buf)
        BY <1>0, <1>1, <3>2
      <4>. QED  BY <3>2, <4>1 DEF With
    <3>. QED  BY <3>1, <3>2
  <2>2. PICK k, w, b : k = key[1] /\ w = key[2] /\ b = passed'[q][key]
    OBVIOUS
  <2>3. k \in 1 .. call'[q] /\ Entry(q, k, w, b, Width(k, g))
    <3>1. CASE key \in DOMAIN passed[q] /\ passed'[q][key] = passed[q][key]
      <4>1. k \in 1 .. call[q] /\ Entry(q, k, w, b, Width(k, g))
        BY <2>2, <3>1 DEF InvOf, Entries
      <4>. QED  BY <1>2, <4>1
    <3>2. CASE q = p /\ key = <<c, name>> /\ passed'[q][key] = buf
      <4>1. k = c /\ w = name /\ b = buf
        BY <2>2, <3>2
      <4>. QED  BY <1>0, <1>2, <3>2, <4>1
    <3>. QED  BY <2>1, <3>1, <3>2
  <2>4. k \in 1 .. Len(program) /\ k \in Nat
    <3>1. call'[q] \in 0 .. Len(program)
      BY <1>0, <1>1, <1>3 DEF Counted
    <3>. QED  BY <1>1, <2>3, <3>1
  <2>5. PICK v : v = Width(k, g) /\ Even(v)
    BY <2>4, GroupsAreEven DEF InvOf
  <2>6. \A r \in Proc : call[r] >= k => call'[r] >= k
    BY <1>2, <2>4
  <2>7. Entry(q, k, w, b, v)'
    BY <1>0, <2>3, <2>4, <2>5, <2>6, EntryStays
  <2>8. Width(k, g)' = v
    BY <1>0, <2>5, SameWidths
  <2>. QED  BY <2>2, <2>3, <2>7, <2>8
<1>. QED  BY <1>0, <1>1, <1>2, <1>3, <1>4, <1>5, <1>6 DEF InvOf, Entries

(* A rank returns from its call.                                              *)
LEMMA ReturnKeeps ==
  ASSUME NEW g, InvOf(g), NEW p \in Proc, at[p] \notin {"idle", "topo", "leaders"},
         shape' = shape, program' = program, call' = call, leaderSize' = leaderSize,
         at' = [at EXCEPT ![p] = "idle"], passed' = passed, DOMAIN recvbuf' = Proc
  PROVE  InvOf(g)'
<1>1. /\ Proc' = Proc /\ PPN' = PPN /\ DOMAIN at = Proc /\ DOMAIN at' = Proc
      /\ at'[p] = "idle" /\ \A q \in Proc \ {p} : at'[q] = at[q]
  BY Same DEF InvOf, Counted
<1>2. Counted(g)'
  BY <1>1 DEF InvOf, Counted
<1>3. Place(p, g)'
  <2>1. leaderSize[p] = LeaderWidth(call[p], g)
    BY DEF InvOf, Place
  <2>2. LeaderWidth(call[p], g)' = LeaderWidth(call[p], g)
    BY SameWidths
  <2>. QED  BY <1>1, <2>1, <2>2 DEF Place
<1>4. ASSUME NEW q \in Proc, q # p PROVE Place(q, g)'
  BY <1>1, <1>4, PlaceStays DEF InvOf
<1>5. ASSUME NEW q \in Proc, NEW key \in DOMAIN passed[q]
      PROVE  key[1] \in 1 .. call[q] /\ Entry(q, key[1], key[2], passed[q][key], Width(key[1], g))'
  <2>1. PICK k, w, b : k = key[1] /\ w = key[2] /\ b = passed[q][key]
    OBVIOUS
  <2>2. k \in 1 .. call[q] /\ Entry(q, k, w, b, Width(k, g))
    BY <2>1 DEF InvOf, Entries
  <2>3. k \in 1 .. Len(program) /\ k \in Nat
    <3>1. call[q] \in 0 .. Len(program) /\ Len(program) \in Nat
      BY Programmed DEF InvOf, Counted
    <3>. QED  BY <2>2, <3>1
  <2>4. PICK v : v = Width(k, g) /\ Even(v)
    BY <2>3, GroupsAreEven DEF InvOf
  <2>5. Entry(q, k, w, b, v)'
    BY <2>2, <2>3, <2>4, EntryStays
  <2>6. Width(k, g)' = v
    BY <2>4, SameWidths
  <2>. QED  BY <2>1, <2>2, <2>5, <2>6
<1>. QED  BY <1>1, <1>2, <1>3, <1>4, <1>5 DEF InvOf, Entries
-----------------------------------------------------------------------------
(* What a rank finds that others have passed.                                 *)
LEMMA Gotten ==
  ASSUME NEW g, InvOf(g), NEW q \in Proc, NEW c, NEW name, HasPassed(q, c, name)
  PROVE  /\ c \in 1 .. call[q] /\ call[q] >= c
         /\ Entry(q, c, name, passed[q][<<c, name>>], Width(c, g))
<1>1. PICK key : key = <<c, name>> /\ key \in DOMAIN passed[q]
  BY DEF HasPassed
<1>2. key[1] = c /\ key[2] = name
  BY <1>1
<1>3. key[1] \in 1 .. call[q] /\ Entry(q, key[1], key[2], passed[q][key], Width(key[1], g))
  BY <1>1 DEF InvOf, Entries
<1>4. call[q] \in Nat
  <2>1. call[q] \in 0 .. Len(program) /\ Len(program) \in Nat
    BY Programmed DEF InvOf, Counted
  <2>. QED  BY <2>1
<1>. QED  BY <1>1, <1>2, <1>3, <1>4

LEMMA AllHavePassed ==
  ASSUME NEW p, NEW comm, NEW name, AllPassed(p, comm, name), NEW i \in DOMAIN comm
  PROVE  HasPassed(comm[i], call[p], name)
BY DEF AllPassed, Members

(* The call of a rank at its data, and the groups of that call.                  *)
LEMMA AtData ==
  ASSUME NEW g, InvOf(g), NEW p \in Proc, at[p] \in {"gather", "group", "local", "scatter"}
  PROVE  /\ call[p] \in 1 .. Len(program) /\ Method(p).way = Way(call[p])
         /\ Place(p, g) /\ leaderSize[p] = LeaderWidth(call[p], g)
         /\ GroupSize(p) = Width(call[p], g) /\ Even(Width(call[p], g))
         /\ Way(call[p]) \in {"multileader", "locality_aware", "multileader_locality"}
<1>1. Place(p, g) /\ Counted(g)
  BY DEF InvOf
<1>2. call[p] \in 1 .. Len(program) /\ leaderSize[p] = LeaderWidth(call[p], g)
  BY <1>1 DEF Place
<1>3. Method(p).way = Way(call[p]) /\ Method(p).groups = Groups(call[p])
  BY DEF Method, Way, Groups
<1>4. GroupSize(p) = Width(call[p], g)
  BY <1>2, <1>3 DEF GroupSize, Width
<1>. QED  BY <1>1, <1>2, <1>3, <1>4, GroupsAreEven, Methods

LEMMA LeadersAreFirst ==
  ASSUME NEW g, Even(g), NEW p \in Proc, IsLeader(p, g)
  PROVE  \E a \in 0 .. NumGroups(g) - 1 : p = a * g /\ p \div g = a
<1>1. PICK a \in 0 .. NumGroups(g) - 1, i \in 0 .. g - 1 : p = a * g + i
  BY RanksAreOfGroups
<1>2. i = 0
  BY <1>1, RankOfGroup DEF IsLeader
<1>3. a * g + 0 = a * g /\ (a * g) \div g = a
  BY LeaderOfGroup
<1>. QED  BY <1>1, <1>2, <1>3

LEMMA LeadersOfNodes ==
  ASSUME NEW g, Even(g), NEW x \in 0 .. NumNodes - 1, NEW l \in 0 .. Local(g) - 1, NEW p,
         p = (x * Local(g) + l) * g
  PROVE  /\ x * Local(g) + l \in 0 .. NumGroups(g) - 1 /\ p \in Proc
         /\ p \div g = x * Local(g) + l /\ p \div PPN = x /\ (p % PPN) \div g = l
<1>1. PICK a : a = x * Local(g) + l /\ a \in 0 .. NumGroups(g) - 1
  BY GroupOfNode
<1>2. a * g + 0 = a * g /\ a * g \in Proc /\ (a * g) \div g = a
  BY <1>1, LeaderOfGroup
<1>3. 0 \in 0 .. g - 1
  BY DEF Even
<1>4. /\ ((x * Local(g) + l) * g + 0) \div PPN = x
      /\ (((x * Local(g) + l) * g + 0) % PPN) \div g = l
  BY <1>3, NodeOfRank
<1>. QED  BY <1>1, <1>2, <1>4
-----------------------------------------------------------------------------
(* A call begins.                                                            *)
LEMMA Unchanged ==
  ASSUME NEW g, InvOf(g), NEW p \in Proc
  PROVE  /\ call = [call EXCEPT ![p] = call[p]]
         /\ leaderSize = [leaderSize EXCEPT ![p] = leaderSize[p]]
         /\ DOMAIN recvbuf = Proc
BY DEF InvOf, Counted

LEMMA EnterDataKeeps ==
  ASSUME NEW g, InvOf(g), NEW p \in Proc, NEW c, NEW s, Current(p, c), Continues(p, c, s),
         s = LeaderWidth(c, g), EnterData(p, c, Alltoall(program[c]))
  PROVE  InvOf(g)' /\ at'[p] # "idle" /\ \A q \in Proc \ {p} : at'[q] = at[q]
<1>1. PICK name : name = IF Way(c) = "locality_aware" THEN "group" ELSE "gather"
  OBVIOUS
<1>2. PICK buf : buf = SendBuf(p, c)
  OBVIOUS
<1>3. /\ at' = [at EXCEPT ![p] = name]
      /\ passed' = [passed EXCEPT ![p] = With(@, <<c, name>>, buf)]
  BY <1>1, <1>2 DEF EnterData, EnterIn, Way
<1>4. Entry(p, c, name, buf, Width(c, g))
  BY <1>1, <1>2 DEF Entry
<1>5. /\ name \in {"group", "gather"} /\ (name = "gather" => Way(c) # "locality_aware")
      /\ (name = "group" => Way(c) = "locality_aware")
  BY <1>1
<1>6. Enters(p, c, name, buf, s) /\ MayEnter(p, c, name, buf, s, g)
  BY <1>3, <1>4, <1>5 DEF Enters, MayEnter
<1>. QED  BY <1>6, EnterKeeps

LEMMA EnterLeadersKeeps ==
  ASSUME NEW g, InvOf(g), NEW p \in Proc, NEW c, NEW s, Current(p, c), Continues(p, c, s),
         s = leaderSize[p], s = LeaderWidth(c - 1, g), EnterLeaders(p, c, Alltoall(program[c]))
  PROVE  InvOf(g)' /\ at'[p] # "idle" /\ \A q \in Proc \ {p} : at'[q] = at[q]
<1>1. NeedsLeaders(p, Alltoall(program[c])) <=> Needs(c, leaderSize[p])
  BY DEF NeedsLeaders, Needs, Way, Groups
<1>2. c \in 1 .. Len(program) /\ Counted(g)
  BY DEF Current, InvOf
<1>3. CASE Needs(c, s)
  <2>1. /\ at' = [at EXCEPT ![p] = "leaders"]
        /\ passed' = [passed EXCEPT ![p] = With(@, <<c, "leaders">>, Undefined)]
    BY <1>1, <1>3 DEF EnterLeaders, EnterIn
  <2>2. Entry(p, c, "leaders", Undefined, Width(c, g))
    BY DEF Entry
  <2>3. PICK name, buf : name = "leaders" /\ buf = Undefined
    OBVIOUS
  <2>4. Enters(p, c, name, buf, s) /\ MayEnter(p, c, name, buf, s, g)
    BY <1>2, <1>3, <2>1, <2>2, <2>3 DEF Enters, MayEnter
  <2>. QED  BY <2>4, EnterKeeps
<1>4. CASE ~ Needs(c, s)
  <2>1. EnterData(p, c, Alltoall(program[c]))
    BY <1>1, <1>4 DEF EnterLeaders
  <2>2. s = LeaderWidth(c, g)
    BY <1>2, <1>4, LeadersOfCall
  <2>. QED  BY <2>1, <2>2, EnterDataKeeps
<1>. QED  BY <1>3, <1>4

LEMMA CallKeeps ==
  ASSUME NEW g, InvOf(g), NEW p \in Proc, Call(p)
  PROVE  InvOf(g)' /\ at'[p] # "idle" /\ \A q \in Proc \ {p} : at'[q] = at[q]
<1>1. PICK c : c = call[p] + 1
  OBVIOUS
<1>2. /\ at[p] = "idle" /\ call[p] < Len(program)
      /\ call' = [call EXCEPT ![p] = c]
      /\ IF topo[p] THEN EnterLeaders(p, c, Alltoall(program[c])) ELSE EnterIn(p, c, "topo", Undefined)
      /\ recvbuf' = [recvbuf EXCEPT ![p] = Undefined]
      /\ shape' = shape /\ program' = program /\ leaderSize' = leaderSize
  BY <1>1 DEF Call
<1>3. /\ call[p] \in 0 .. Len(program) /\ Len(program) \in Nat /\ DOMAIN recvbuf = Proc
      /\ DOMAIN at = Proc
  BY Programmed DEF InvOf, Counted
<1>4. c \in 1 .. Len(program) /\ c \in {call[p], call[p] + 1} /\ c - 1 = call[p]
  BY <1>1, <1>2, <1>3
<1>5. leaderSize[p] = LeaderWidth(c - 1, g)
  BY <1>2, <1>4 DEF InvOf, Place
<1>6. DOMAIN recvbuf' = Proc
  BY <1>2, <1>3
<1>7. PICK s : s = leaderSize[p]
  OBVIOUS
<1>8. Current(p, c) /\ Continues(p, c, s)
  BY <1>2, <1>4, <1>6, <1>7, Unchanged DEF Current, Continues
<1>9. CASE topo[p]
  BY <1>2, <1>5, <1>9, <1>7, <1>8, EnterLeadersKeeps
<1>10. CASE ~ topo[p]
  <2>1. /\ at' = [at EXCEPT ![p] = "topo"]
        /\ passed' = [passed EXCEPT ![p] = With(@, <<c, "topo">>, Undefined)]
    BY <1>2, <1>10 DEF EnterIn
  <2>2. Entry(p, c, "topo", Undefined, Width(c, g))
    BY DEF Entry
  <2>3. PICK name, buf : name = "topo" /\ buf = Undefined
    OBVIOUS
  <2>4. Enters(p, c, name, buf, s) /\ MayEnter(p, c, name, buf, s, g)
    BY <1>5, <1>7, <1>8, <2>1, <2>2, <2>3 DEF Enters, MayEnter
  <2>. QED  BY <2>4, EnterKeeps
<1>. QED  BY <1>9, <1>10

LEMMA TopoInitKeeps ==
  ASSUME NEW g, InvOf(g), NEW p \in Proc, TopoInit(p)
  PROVE  InvOf(g)' /\ at'[p] # "idle" /\ \A q \in Proc \ {p} : at'[q] = at[q]
<1>1. PICK c : c = call[p]
  OBVIOUS
<1>2. /\ at[p] = "topo" /\ EnterLeaders(p, c, Alltoall(program[c]))
      /\ shape' = shape /\ program' = program /\ leaderSize' = leaderSize
      /\ call' = call /\ recvbuf' = recvbuf
  BY <1>1 DEF TopoInit, Method
<1>3. c \in 1 .. Len(program) /\ leaderSize[p] = LeaderWidth(c - 1, g)
  BY <1>1, <1>2 DEF InvOf, Place
<1>4. PICK s : s = leaderSize[p]
  OBVIOUS
<1>5. Current(p, c) /\ Continues(p, c, s)
  BY <1>1, <1>2, <1>3, <1>4, Unchanged DEF Current, Continues
<1>. QED  BY <1>2, <1>3, <1>4, <1>5, EnterLeadersKeeps

LEMMA LeaderInitKeeps ==
  ASSUME NEW g, InvOf(g), NEW p \in Proc, LeaderInit(p)
  PROVE  InvOf(g)' /\ at'[p] # "idle" /\ \A q \in Proc \ {p} : at'[q] = at[q]
<1>1. PICK c : c = call[p]
  OBVIOUS
<1>2. PICK s : s = ProcsPerLeader(Groups(c))
  OBVIOUS
<1>3. /\ at[p] = "leaders" /\ EnterData(p, c, Alltoall(program[c]))
      /\ leaderSize' = [leaderSize EXCEPT ![p] = s]
      /\ shape' = shape /\ program' = program /\ call' = call /\ recvbuf' = recvbuf
  BY <1>1, <1>2 DEF LeaderInit, Method, Groups
<1>4. c \in 1 .. Len(program) /\ Needs(c, leaderSize[p]) /\ leaderSize[p] = LeaderWidth(c - 1, g)
  BY <1>1, <1>3 DEF InvOf, Place
<1>5. s = LeaderWidth(c, g)
  BY <1>2, <1>4, LeadersOfCall DEF InvOf
<1>6. Current(p, c) /\ Continues(p, c, s)
  BY <1>1, <1>3, <1>4, Unchanged DEF Current, Continues
<1>. QED  BY <1>3, <1>5, <1>6, EnterDataKeeps
-----------------------------------------------------------------------------
(* The steps of the data.                                                    *)
LEMMA DataKeeps ==
  ASSUME NEW g, InvOf(g), NEW p \in Proc, at[p] \in {"gather", "group", "local", "scatter"},
         NEW name \in {"group", "local", "scatter"}, NEW buf, Enter(p, name, buf),
         UNCHANGED <<shape, program, topo, leaderSize, call, recvbuf>>,
         Entry(p, call[p], name, buf, Width(call[p], g)),
         IF Way(call[p]) = "locality_aware" THEN name # "scatter"
         ELSE name \in {"group", "local"} => IsLeader(p, Width(call[p], g)),
         name = "local" => Way(call[p]) # "multileader"
  PROVE  InvOf(g)' /\ at'[p] # "idle" /\ \A q \in Proc \ {p} : at'[q] = at[q]
<1>1. PICK c, s : c = call[p] /\ s = leaderSize[p]
  OBVIOUS
<1>2. c \in 1 .. Len(program) /\ s = LeaderWidth(c, g)
  BY <1>1, AtData
<1>3. Continues(p, c, s) /\ Current(p, c)
  BY <1>1, <1>2, Unchanged DEF Continues, Current
<1>4. Enters(p, c, name, buf, s)
  BY <1>1, <1>3 DEF Enters, Enter, EnterIn
<1>5. MayEnter(p, c, name, buf, s, g)
  BY <1>1, <1>2, <1>3 DEF MayEnter
<1>. QED  BY <1>4, <1>5, EnterKeeps

LEMMA GatheredKeeps ==
  ASSUME NEW g, InvOf(g), NEW p \in Proc, Gathered(p)
  PROVE  InvOf(g)' /\ at'[p] # "idle" /\ \A q \in Proc \ {p} : at'[q] = at[q]
<1>1. at[p] = "gather" /\ UNCHANGED <<shape, program, topo, leaderSize, call, recvbuf>>
  BY DEF Gathered
<1>2. PICK c, w : c = call[p] /\ w = Width(c, g) /\ w = GroupSize(p)
  BY <1>1, AtData
<1>3. Even(w) /\ Way(c) # "locality_aware"
  BY <1>1, <1>2, AtData DEF Place
<1>4. CASE IsLeader(p, w)
  <2>1. PICK buf : buf = PackForLeaders(Gather(p, Group(p, w)), w)
    OBVIOUS
  <2>2. AllPassed(p, Group(p, w), "gather") /\ Enter(p, "group", buf)
    BY <1>2, <1>4, <2>1 DEF Gathered
  <2>3. PICK a \in 0 .. NumGroups(w) - 1 : p = a * w /\ p \div w = a
    BY <1>3, <1>4, LeadersAreFirst
  <2>4. ASSUME NEW e \in 0 .. w - 1
        PROVE  /\ passed[a * w + e][<<c, "gather">>] = SendBuf(a * w + e, c)
               /\ call[a * w + e] >= c
    <3>1. 0 \in 0 .. w - 1 /\ p = a * w + 0
      BY <1>3, <2>3, LeaderOfGroup DEF Even
    <3>2. DOMAIN Group(a * w + 0, w) = 0 .. w - 1 /\ Group(a * w + 0, w)[e] = a * w + e
      BY <1>3, <3>1, GroupComm
    <3>3. PICK q : q = a * w + e /\ q \in Proc
      BY <1>3, RankOfGroup
    <3>4. HasPassed(q, c, "gather")
      BY <1>2, <2>2, <3>1, <3>2, <3>3, AllHavePassed
    <3>5. call[q] >= c /\ Entry(q, c, "gather", passed[q][<<c, "gather">>], w)
      BY <1>2, <3>3, <3>4, Gotten
    <3>. QED  BY <3>3, <3>5 DEF Entry
  <2>5. FromGroup(buf, a, w, c)
    BY <1>2, <1>3, <2>1, <2>3, <2>4, LeaderGathers
  <2>6. Entry(p, c, "group", buf, w)
    BY <1>3, <2>3, <2>5 DEF Entry
  <2>. QED  BY <1>1, <1>2, <1>3, <1>4, <2>2, <2>6, DataKeeps
<1>5. CASE ~ IsLeader(p, w)
  <2>1. Enter(p, "scatter", Undefined)
    BY <1>2, <1>5 DEF Gathered
  <2>2. PICK buf : buf = Undefined
    OBVIOUS
  <2>3. Entry(p, c, "scatter", buf, w)
    BY <1>5 DEF Entry
  <2>. QED  BY <1>1, <1>2, <1>3, <2>1, <2>2, <2>3, DataKeeps
<1>. QED  BY <1>4, <1>5

LEMMA GroupExchangedKeeps ==
  ASSUME NEW g, InvOf(g), NEW p \in Proc, GroupExchanged(p)
  PROVE  InvOf(g)' /\ at'[p] # "idle" /\ \A q \in Proc \ {p} : at'[q] = at[q]
<1>1. at[p] = "group" /\ UNCHANGED <<shape, program, topo, leaderSize, call, recvbuf>>
  BY DEF GroupExchanged
<1>2. PICK c, w : c = call[p] /\ w = Width(c, g) /\ w = GroupSize(p)
  BY <1>1, AtData
<1>3. Even(w) /\ Method(p).way = Way(c) /\ (Way(c) # "locality_aware" => IsLeader(p, w))
  BY <1>1, <1>2, AtData DEF Place
<1>4. AllPassed(p, FirstComm(p, w), "group")
  BY <1>2 DEF GroupExchanged
<1>5. ASSUME NEW q \in Proc, HasPassed(q, c, "group")
      PROVE  call[q] >= c /\ Entry(q, c, "group", passed[q][<<c, "group">>], w)
  BY <1>2, <1>5, Gotten
<1>6. CASE Way(c) = "multileader"
  <2>1. PICK buf : buf = PackForScatter(Exchange(p, Counterparts(p, w), "group", w * w), w)
    OBVIOUS
  <2>2. Enter(p, "scatter", buf) /\ FirstComm(p, w) = Counterparts(p, w)
    BY <1>2, <1>3, <1>6, <2>1 DEF GroupExchanged, FirstComm, FirstCount
  <2>3. PICK a \in 0 .. NumGroups(w) - 1 : p = a * w /\ p \div w = a
    BY <1>3, <1>6, LeadersAreFirst
  <2>4. ASSUME NEW b \in 0 .. NumGroups(w) - 1 PROVE FromGroup(passed[b * w][<<c, "group">>], b, w, c)
    <3>1. 0 \in 0 .. w - 1 /\ p = a * w + 0
      BY <1>3, <2>3, LeaderOfGroup DEF Even
    <3>2. /\ DOMAIN Counterparts(a * w + 0, w) = 0 .. NumGroups(w) - 1
          /\ Counterparts(a * w + 0, w)[b] = b * w + 0
      BY <1>3, <3>1, CounterpartsComm
    <3>3. PICK q : q = b * w /\ q = b * w + 0 /\ q \in Proc /\ q \div w = b
      BY <1>3, LeaderOfGroup
    <3>4. HasPassed(q, c, "group")
      BY <1>2, <1>4, <2>2, <3>1, <3>2, <3>3, AllHavePassed
    <3>5. Entry(q, c, "group", passed[q][<<c, "group">>], w)
      BY <1>5, <3>3, <3>4
    <3>. QED  BY <1>6, <3>3, <3>5 DEF Entry
  <2>5. ForScatter(buf, a, w, c)
    BY <1>2, <1>3, <2>1, <2>3, <2>4, LeadersExchange
  <2>6. Entry(p, c, "scatter", buf, w)
    BY <2>3, <2>5 DEF Entry
  <2>. QED  BY <1>1, <1>2, <1>6, <2>2, <2>6, DataKeeps
<1>7. CASE Way(c) = "multileader_locality"
  <2>1. PICK buf : buf = PackForLocalLeaders(Exchange(p, Counterparts(p, PPN), "group", PPN * w), w)
    OBVIOUS
  <2>2. Enter(p, "local", buf) /\ FirstComm(p, w) = Counterparts(p, PPN)
    BY <1>2, <1>3, <1>7, <2>1 DEF GroupExchanged, FirstComm, FirstCount
  <2>3. PICK a \in 0 .. NumGroups(w) - 1 : p = a * w
    BY <1>3, <1>7, LeadersAreFirst
  <2>4. PICK x \in 0 .. NumNodes - 1, l \in 0 .. Local(w) - 1 : a = x * Local(w) + l
    BY <1>3, GroupsAreOfNodes
  <2>5. p = (x * Local(w) + l) * w /\ p \div PPN = x /\ (p % PPN) \div w = l
    BY <1>3, <2>3, <2>4, LeadersOfNodes
  <2>6. ASSUME NEW z \in 0 .. NumNodes - 1
        PROVE  FromGroup(passed[(z * Local(w) + l) * w][<<c, "group">>], z * Local(w) + l, w, c)
    <3>1. PICK q : q = (z * Local(w) + l) * w /\ q \in Proc /\ q \div w = z * Local(w) + l
      BY <1>3, LeadersOfNodes
    <3>2. z \in DOMAIN Counterparts(p, PPN) /\ Counterparts(p, PPN)[z] = q
      <4>1. Even(PPN) /\ NumGroups(PPN) = NumNodes
        BY <1>3, NodesAreEven
      <4>2. 0 \in 0 .. w - 1
        BY <1>3 DEF Even
      <4>3. PICK i : i = l * w + 0 /\ i \in 0 .. PPN - 1
        BY <1>3, <4>2, NodeOfRank
      <4>4. ASSUME NEW y \in 0 .. NumNodes - 1 PROVE (y * Local(w) + l) * w = y * PPN + i
        <5>1. (y * Local(w) + l) * w + 0 = y * PPN + i
          BY <1>3, <4>2, <4>3, NodeOfRank
        <5>2. y * Local(w) + l \in 0 .. NumGroups(w) - 1
          BY <1>3, LeadersOfNodes
        <5>3. (y * Local(w) + l) * w + 0 = (y * Local(w) + l) * w
          BY <1>3, <5>2, LeaderOfGroup
        <5>. QED  BY <5>1, <5>3
      <4>5. p = x * PPN + i /\ q = z * PPN + i
        BY <2>5, <3>1, <4>4
      <4>6. /\ DOMAIN Counterparts(x * PPN + i, PPN) = 0 .. NumGroups(PPN) - 1
            /\ \A y \in 0 .. NumGroups(PPN) - 1 : Counterparts(x * PPN + i, PPN)[y] = y * PPN + i
        BY <4>1, <4>3, CounterpartsComm
      <4>. QED  BY <4>1, <4>5, <4>6
    <3>3. HasPassed(q, c, "group")
      BY <1>2, <1>4, <2>2, <3>2, AllHavePassed
    <3>4. Entry(q, c, "group", passed[q][<<c, "group">>], w)
      BY <1>5, <3>1, <3>3
    <3>. QED  BY <1>7, <3>1, <3>4 DEF Entry
  <2>7. ForLocal(buf, x, l, w, c)
    BY <1>2, <1>3, <2>1, <2>5, <2>6, NodesExchange
  <2>8. Entry(p, c, "local", buf, w)
    BY <1>7, <2>5, <2>7 DEF Entry
  <2>. QED  BY <1>1, <1>2, <1>3, <1>7, <2>2, <2>8, DataKeeps
<1>8. CASE Way(c) = "locality_aware"
  <2>1. PICK buf : buf = PackForGroup(Exchange(p, Counterparts(p, w), "group", w), w)
    OBVIOUS
  <2>2. Enter(p, "local", buf) /\ FirstComm(p, w) = Counterparts(p, w)
    BY <1>2, <1>3, <1>8, <2>1 DEF GroupExchanged, FirstComm, FirstCount
  <2>3. PICK a \in 0 .. NumGroups(w) - 1, i \in 0 .. w - 1 : p = a * w + i
    BY <1>3, RanksAreOfGroups
  <2>4. p \div w = a /\ p % w = i
    BY <1>3, <2>3, RankOfGroup
  <2>5. ASSUME NEW b \in 0 .. NumGroups(w) - 1
        PROVE  /\ passed[b * w + i][<<c, "group">>] = SendBuf(b * w + i, c)
               /\ call[b * w + i] >= c
    <3>1. DOMAIN Counterparts(p, w) = 0 .. NumGroups(w) - 1 /\ Counterparts(p, w)[b] = b * w + i
      <4>1. /\ DOMAIN Counterparts(a * w + i, w) = 0 .. NumGroups(w) - 1
            /\ Counterparts(a * w + i, w)[b] = b * w + i
        BY <1>3, CounterpartsComm
      <4>. QED  BY <2>3, <4>1
    <3>2. PICK q : q = b * w + i /\ q \in Proc
      BY <1>3, RankOfGroup
    <3>3. HasPassed(q, c, "group")
      BY <1>2, <1>4, <2>2, <3>1, <3>2, AllHavePassed
    <3>4. call[q] >= c /\ Entry(q, c, "group", passed[q][<<c, "group">>], w)
      BY <1>5, <3>2, <3>3
    <3>. QED  BY <1>8, <3>2, <3>4 DEF Entry
  <2>6. ForGroup(buf, a, i, w, c)
    BY <1>2, <1>3, <2>1, <2>3, <2>5, CounterpartsExchange
  <2>7. Entry(p, c, "local", buf, w)
    BY <1>8, <2>4, <2>6 DEF Entry
  <2>. QED  BY <1>1, <1>2, <1>8, <2>2, <2>7, DataKeeps
<1>9. Way(c) \in {"multileader", "locality_aware", "multileader_locality"}
  BY <1>1, <1>2, AtData
<1>. QED  BY <1>6, <1>7, <1>8, <1>9

LEMMA LeadersExchangedKeeps ==
  ASSUME NEW g, InvOf(g), NEW p \in Proc, LeadersExchanged(p)
  PROVE  InvOf(g)' /\ at'[p] # "idle" /\ \A q \in Proc \ {p} : at'[q] = at[q]
<1>1. at[p] = "local" /\ UNCHANGED <<shape, program, topo, leaderSize, call, recvbuf>>
  BY DEF LeadersExchanged
<1>2. PICK c, w : c = call[p] /\ w = Width(c, g) /\ w = GroupSize(p)
  BY <1>1, AtData
<1>3. /\ Even(w) /\ Way(c) = "multileader_locality" /\ IsLeader(p, w)
  BY <1>1, <1>2, AtData DEF LeadersExchanged, Place
<1>4. PICK buf :
        buf = PackLocalForScatter(Exchange(p, LocalLeaders(p, w), "local", NumNodes * w * w), w)
  OBVIOUS
<1>5. AllPassed(p, LocalLeaders(p, w), "local") /\ Enter(p, "scatter", buf)
  BY <1>2, <1>4 DEF LeadersExchanged
<1>6. PICK a \in 0 .. NumGroups(w) - 1 : p = a * w
  BY <1>3, LeadersAreFirst
<1>7. PICK x \in 0 .. NumNodes - 1, l \in 0 .. Local(w) - 1 : a = x * Local(w) + l
  BY <1>3, GroupsAreOfNodes
<1>8. p = (x * Local(w) + l) * w /\ p \div w = x * Local(w) + l
  BY <1>3, <1>6, <1>7, LeadersOfNodes
<1>9. ASSUME NEW m \in 0 .. Local(w) - 1
      PROVE  ForLocal(passed[(x * Local(w) + m) * w][<<c, "local">>], x, m, w, c)
  <2>1. PICK q : q = (x * Local(w) + m) * w /\ q \in Proc /\ q \div PPN = x /\ (q % PPN) \div w = m
    BY <1>3, LeadersOfNodes
  <2>2. m \in DOMAIN LocalLeaders(p, w) /\ LocalLeaders(p, w)[m] = q
    <3>1. /\ DOMAIN LocalLeaders((x * Local(w) + l) * w, w) = 0 .. Local(w) - 1
          /\ LocalLeaders((x * Local(w) + l) * w, w)[m] = (x * Local(w) + m) * w
      BY <1>3, LocalLeadersComm
    <3>. QED  BY <1>8, <2>1, <3>1
  <2>3. HasPassed(q, c, "local")
    BY <1>2, <1>5, <2>2, AllHavePassed
  <2>4. Entry(q, c, "local", passed[q][<<c, "local">>], w)
    BY <1>2, <2>1, <2>3, Gotten
  <2>. QED  BY <1>3, <2>1, <2>4 DEF Entry
<1>10. ForScatter(buf, x * Local(w) + l, w, c)
  BY <1>2, <1>3, <1>4, <1>8, <1>9, NodeExchange
<1>11. Entry(p, c, "scatter", buf, w)
  BY <1>8, <1>10 DEF Entry
<1>. QED  BY <1>1, <1>2, <1>3, <1>5, <1>11, DataKeeps

(* A rank that returns has the block of every rank, and every rank has begun     *)
(* the call.                                                                 *)
Complete(p) ==
  /\ at[p] \in {"gather", "group", "local", "scatter"} /\ at' = [at EXCEPT ![p] = "idle"]
  /\ UNCHANGED <<shape, program, topo, leaderSize, call, passed>>
  /\ recvbuf' = [recvbuf EXCEPT ![p] = [s \in Proc |-> Block(s, p, call[p])]]
  /\ \A q \in Proc : call[q] >= call[p]

LEMMA LocalExchangedCompletes ==
  ASSUME NEW g, InvOf(g), NEW p \in Proc, LocalExchanged(p)
  PROVE  Complete(p)
<1>1. at[p] = "local" /\ UNCHANGED <<shape, program, topo, leaderSize, call>>
  BY DEF LocalExchanged
<1>2. PICK c, w : c = call[p] /\ w = Width(c, g) /\ w = GroupSize(p)
  BY <1>1, AtData
<1>3. Even(w) /\ Way(c) = "locality_aware"
  BY <1>1, <1>2, AtData DEF LocalExchanged
<1>4. PICK buf : buf = Reorder(Exchange(p, Group(p, w), "local", NumProcs \div w), w)
  OBVIOUS
<1>5. AllPassed(p, Group(p, w), "local") /\ Return(p, buf)
  BY <1>2, <1>4 DEF LocalExchanged
<1>6. PICK a \in 0 .. NumGroups(w) - 1, i \in 0 .. w - 1 : p = a * w + i
  BY <1>3, RanksAreOfGroups
<1>7. ASSUME NEW e \in 0 .. w - 1
      PROVE  ForGroup(passed[a * w + e][<<c, "local">>], a, e, w, c)
  <2>1. PICK q : q = a * w + e /\ q \in Proc /\ q \div w = a /\ q % w = e
    BY <1>3, RankOfGroup
  <2>2. e \in DOMAIN Group(p, w) /\ Group(p, w)[e] = q
    <3>1. DOMAIN Group(a * w + i, w) = 0 .. w - 1 /\ Group(a * w + i, w)[e] = a * w + e
      BY <1>3, GroupComm
    <3>. QED  BY <1>6, <2>1, <3>1
  <2>3. HasPassed(q, c, "local")
    BY <1>2, <1>5, <2>2, AllHavePassed
  <2>4. Entry(q, c, "local", passed[q][<<c, "local">>], w)
    BY <1>2, <2>1, <2>3, Gotten
  <2>. QED  BY <1>3, <2>1, <2>4 DEF Entry
<1>8. buf = [s \in Proc |-> Block(s, p, c)] /\ \A q \in Proc : call[q] >= c
  BY <1>2, <1>3, <1>4, <1>6, <1>7, GroupExchange
<1>. QED  BY <1>1, <1>2, <1>5, <1>8 DEF Complete, Return

LEMMA ScatteredCompletes ==
  ASSUME NEW g, InvOf(g), NEW p \in Proc, Scattered(p)
  PROVE  Complete(p)
<1>1. at[p] = "scatter" /\ UNCHANGED <<shape, program, topo, leaderSize, call>>
  BY DEF Scattered
<1>2. PICK c, w : c = call[p] /\ w = Width(c, g) /\ w = GroupSize(p) /\ Even(w)
  BY <1>1, AtData
<1>3. PICK buf : buf = Scatter(p, Group(p, w))
  OBVIOUS
<1>4. HasPassed(Group(p, w)[0], c, "scatter") /\ Return(p, buf)
  BY <1>2, <1>3 DEF Scattered
<1>5. PICK a \in 0 .. NumGroups(w) - 1, i \in 0 .. w - 1 : p = a * w + i
  BY <1>2, RanksAreOfGroups
<1>6. PICK q : q = a * w /\ q = a * w + 0 /\ q \in Proc /\ q \div w = a /\ q % w = 0
  BY <1>2, LeaderOfGroup
<1>7. /\ Scatter(p, Group(p, w)) = [s \in Proc |-> Block(s, p, c)]
      /\ \A r \in Proc : call[r] >= c
  <2>1. RankIn(a * w + i, Group(a * w + i, w)) = i /\ Group(a * w + i, w)[0] = a * w + 0
    <3>1. 0 \in 0 .. w - 1
      BY <1>2 DEF Even
    <3>. QED  BY <1>2, <3>1, GroupComm
  <2>2. HasPassed(q, c, "scatter")
    BY <1>4, <1>5, <1>6, <2>1
  <2>3. Entry(q, c, "scatter", passed[q][<<c, "scatter">>], w)
    BY <1>2, <1>6, <2>2, Gotten
  <2>4. ForScatter(passed[q][<<c, "scatter">>], a, w, c)
    BY <1>6, <2>3 DEF Entry, IsLeader
  <2>5. RankIn(p, Group(p, w)) = i /\ Group(p, w)[0] = q
    BY <1>5, <1>6, <2>1
  <2>6. Scatter(p, Group(p, w)) = [s \in Proc |-> passed[q][<<c, "scatter">>][i * NumProcs + s]]
    BY <1>2, <2>5 DEF Scatter, Passed
  <2>. QED  BY <1>5, <2>4, <2>6 DEF ForScatter
<1>8. buf = [s \in Proc |-> Block(s, p, c)] /\ \A r \in Proc : call[r] >= c
  BY <1>3, <1>7
<1>. QED  BY <1>1, <1>2, <1>4, <1>8 DEF Complete, Return

LEMMA CompleteKeeps ==
  ASSUME NEW g, InvOf(g), NEW p \in Proc, Complete(p)
  PROVE  InvOf(g)'
<1>1. DOMAIN recvbuf' = Proc
  BY Unchanged DEF Complete
<1>. QED  BY <1>1, ReturnKeeps DEF Complete
-----------------------------------------------------------------------------
LEMMA Initially == Init => IInv
<1> SUFFICES ASSUME Init PROVE IInv
  OBVIOUS
<1>1. PICK g \in LeaderSizes :
        /\ g = 0 \/ PPN % g = 0
        /\ leaderSize = [p \in Proc |-> g]
  BY DEF Init
<1>2. /\ shape \in Shapes /\ program \in Programs[shape]
      /\ call = [p \in Proc |-> 0] /\ at = [p \in Proc |-> "idle"]
      /\ passed = [p \in Proc |-> << >>] /\ recvbuf = [p \in Proc |-> Undefined]
  BY DEF Init
<1>3. Len(program) \in Nat
  <2>1. program \in Seq(Algorithms)
    BY <1>2, HierarchicalAssumption
  <2>. QED  BY <2>1
<1>4. Counted(g)
  BY <1>1, <1>2, <1>3 DEF Counted
<1>5. LeaderWidth(0, g) = g
  BY DEF LeaderWidth
<1>6. \A p \in Proc : Place(p, g)
  BY <1>1, <1>2, <1>5 DEF Place
<1>7. Entries(g)
  BY <1>2 DEF Entries
<1>. QED  BY <1>4, <1>6, <1>7 DEF IInv, InvOf

LEMMA StutterKeeps ==
  ASSUME NEW g, InvOf(g), UNCHANGED vars
  PROVE  InvOf(g)'
<1>1. /\ shape' = shape /\ program' = program /\ leaderSize' = leaderSize /\ call' = call
      /\ at' = at /\ passed' = passed /\ recvbuf' = recvbuf /\ Proc' = Proc /\ PPN' = PPN
  BY Same DEF vars
<1>2. Counted(g)'
  BY <1>1 DEF InvOf, Counted
<1>3. \A q \in Proc : Place(q, g)'
  BY <1>1, PlaceStays DEF InvOf
<1>4. ASSUME NEW q \in Proc, NEW key \in DOMAIN passed[q]
      PROVE  key[1] \in 1 .. call[q] /\ Entry(q, key[1], key[2], passed[q][key], Width(key[1], g))'
  <2>1. PICK k, w, b : k = key[1] /\ w = key[2] /\ b = passed[q][key]
    OBVIOUS
  <2>2. k \in 1 .. call[q] /\ Entry(q, k, w, b, Width(k, g))
    BY <2>1 DEF InvOf, Entries
  <2>3. k \in 1 .. Len(program) /\ k \in Nat
    <3>1. call[q] \in 0 .. Len(program) /\ Len(program) \in Nat
      BY Programmed DEF InvOf, Counted
    <3>. QED  BY <2>2, <3>1
  <2>4. PICK v : v = Width(k, g) /\ Even(v)
    BY <2>3, GroupsAreEven DEF InvOf
  <2>5. Entry(q, k, w, b, v)'
    BY <1>1, <2>2, <2>3, <2>4, EntryStays
  <2>6. Width(k, g)' = v
    BY <1>1, <2>4, SameWidths
  <2>. QED  BY <1>1, <2>1, <2>2, <2>5, <2>6
<1>. QED  BY <1>1, <1>2, <1>3, <1>4 DEF InvOf, Entries

LEMMA StepKeeps ==
  ASSUME NEW g, InvOf(g), NEW p \in Proc, Step(p)
  PROVE  InvOf(g)'
BY CallKeeps, TopoInitKeeps, LeaderInitKeeps, GatheredKeeps, GroupExchangedKeeps,
   LocalExchangedCompletes, LeadersExchangedKeeps, ScatteredCompletes, CompleteKeeps DEF Step

LEMMA Inductive == IInv /\ [Next]_vars => IInv'
<1> SUFFICES ASSUME IInv, [Next]_vars PROVE IInv'
  OBVIOUS
<1>1. PICK g \in LeaderSizes : InvOf(g)
  BY DEF IInv
<1>2. InvOf(g)'
  BY <1>1, StutterKeeps, StepKeeps DEF Next, AllReturned
<1>. QED  BY <1>2 DEF IInv

(* What lies in every buffer on the way, and who has begun the call by then: the  *)
(* buffers a rank passes to the collectives of the algorithms hold the blocks, in *)
(* the layout, that the next step takes for granted, for every number of nodes,   *)
(* of ranks and leaders on a node, and of calls.                               *)
THEOREM Layouts == Spec => []IInv
BY Initially, Inductive, PTL DEF Spec
-----------------------------------------------------------------------------
(* The refinement mapping.                                                   *)
Returns == [p \in Proc |-> IF at[p] = "idle" THEN call[p] ELSE call[p] - 1]

LEMMA Stutters ==
  ASSUME shape' = shape, program' = program, call' = call, recvbuf' = recvbuf,
         \A q \in Proc : at'[q] = "idle" <=> at[q] = "idle"
  PROVE  UNCHANGED <<call, Returns, recvbuf>>
<1>1. Proc' = Proc
  BY Same
<1>. QED  BY <1>1 DEF Returns

LEMMA CallRefines ==
  ASSUME NEW g, InvOf(g), NEW p \in Proc, Call(p)
  PROVE  Promise!Call(p)
<1>1. /\ at[p] = "idle" /\ call[p] < Len(program) /\ call' = [call EXCEPT ![p] = @ + 1]
      /\ recvbuf' = [recvbuf EXCEPT ![p] = Undefined]
      /\ shape' = shape /\ program' = program
  BY DEF Call
<1>2. /\ Len(program) \in Nat /\ Len(program) <= MaxCalls
      /\ call \in [Proc -> 0 .. Len(program)] /\ Proc' = Proc
  BY <1>1, Programmed, Same DEF InvOf, Counted
<1>3. call[p] < MaxCalls
  <2>1. MaxCalls \in Nat
    BY HierarchicalAssumption
  <2>. QED  BY <1>1, <1>2, <2>1
<1>4. Returns' = Returns
  <2>1. \A q \in Proc : (IF at'[q] = "idle" THEN call'[q] ELSE call'[q] - 1)
                          = IF at[q] = "idle" THEN call[q] ELSE call[q] - 1
    BY <1>1, <1>2, CallKeeps
  <2>. QED  BY <1>2, <2>1 DEF Returns
<1>5. Returns[p] = call[p]
  BY <1>1 DEF Returns
<1>. QED
  BY <1>1, <1>3, <1>4, <1>5 DEF Promise!Call, Promise!Undefined, Returns, Undefined

LEMMA ReturnRefines ==
  ASSUME NEW g, InvOf(g), NEW p \in Proc, Complete(p)
  PROVE  Promise!Return(p)
<1>1. /\ at[p] # "idle" /\ at' = [at EXCEPT ![p] = "idle"] /\ call' = call
      /\ recvbuf' = [recvbuf EXCEPT ![p] = [s \in Proc |-> Block(s, p, call[p])]]
      /\ \A q \in Proc : call[q] >= call[p]
      /\ shape' = shape /\ program' = program
  BY DEF Complete
<1>2. /\ call \in [Proc -> 0 .. Len(program)] /\ Len(program) \in Nat /\ DOMAIN at = Proc
      /\ Proc' = Proc
  BY <1>1, Programmed, Same DEF InvOf, Counted
<1>3. Returns[p] < call[p]
  BY <1>1, <1>2 DEF Returns
<1>4. Returns' = [Returns EXCEPT ![p] = call[p]]
  BY <1>1, <1>2 DEF Returns
<1>5. /\ Promise!Proc = Proc
      /\ [s \in Promise!Proc |-> Promise!Block(s, p, call[p])] = [s \in Proc |-> Block(s, p, call[p])]
  BY <1>2 DEF Promise!Proc, Promise!Block, Block
<1>6. recvbuf' = [recvbuf EXCEPT ![p] = [s \in Promise!Proc |-> Promise!Block(s, p, call[p])]]
  BY <1>1, <1>5
<1>. QED  BY <1>1, <1>3, <1>4, <1>5, <1>6 DEF Promise!Return, Returns

LEMMA StepRefines ==
  ASSUME NEW g, InvOf(g), [Next]_vars
  PROVE  [Promise!Next]_<<call, Returns, recvbuf>>
<1>1. Promise!Proc = Proc
  BY DEF InvOf, Counted, Promise!Proc
<1>2. CASE UNCHANGED vars
  BY <1>2, Stutters DEF vars
<1>3. ASSUME NEW p \in Proc, Step(p) PROVE [Promise!Next]_<<call, Returns, recvbuf>>
  <2>1. CASE Call(p)
    BY <1>1, <2>1, CallRefines DEF Promise!Next
  <2>2. CASE Complete(p)
    BY <1>1, <2>2, ReturnRefines DEF Promise!Next
  <2>3. ASSUME shape' = shape, program' = program, call' = call, recvbuf' = recvbuf,
               at[p] # "idle", at'[p] # "idle", \A q \in Proc \ {p} : at'[q] = at[q]
        PROVE  UNCHANGED <<call, Returns, recvbuf>>
    BY <2>3, Stutters
  <2>4. CASE TopoInit(p)
    BY <2>3, <2>4, TopoInitKeeps DEF TopoInit
  <2>5. CASE LeaderInit(p)
    BY <2>3, <2>5, LeaderInitKeeps DEF LeaderInit
  <2>6. CASE Gathered(p)
    BY <2>3, <2>6, GatheredKeeps DEF Gathered
  <2>7. CASE GroupExchanged(p)
    BY <2>3, <2>7, GroupExchangedKeeps DEF GroupExchanged
  <2>8. CASE LeadersExchanged(p)
    BY <2>3, <2>8, LeadersExchangedKeeps DEF LeadersExchanged
  <2>. QED
    BY <1>3, <2>1, <2>2, <2>4, <2>5, <2>6, <2>7, <2>8, LocalExchangedCompletes, ScatteredCompletes
    DEF Step
<1>. QED  BY <1>2, <1>3 DEF Next, AllReturned

(* KeepsPromise, for any number of nodes, any number of ranks on a node that the   *)
(* leaders share evenly, leaders the user may have made before, and sequence of   *)
(* calls: whatever way the blocks take, the packings compose to the transpose, so *)
(* that whoever returns has the block of every rank at its place, of that call.   *)
THEOREM Refinement == Spec => KeepsPromise
<1>1. Init => Promise!Init
  <2> SUFFICES ASSUME Init PROVE Promise!Init
    OBVIOUS
  <2>1. /\ shape \in Shapes /\ call = [p \in Proc |-> 0] /\ at = [p \in Proc |-> "idle"]
        /\ recvbuf = [p \in Proc |-> Undefined]
    BY DEF Init
  <2>2. Returns = call
    BY <2>1 DEF Returns
  <2>3. call = [p \in 0 .. NumProcs - 1 |-> 0] /\ NumProcs \in { s[1] * s[2] : s \in Shapes }
    BY <2>1 DEF Proc, NumProcs, NumNodes, PPN
  <2>4. Promise!Proc = Proc
    BY <2>1 DEF Promise!Proc
  <2>. QED
    BY <2>1, <2>2, <2>3, <2>4 DEF Promise!Init, Promise!Undefined, Returns, Undefined
<1>2. IInv /\ [Next]_vars => [Promise!Next]_Promise!vars
  BY StepRefines DEF IInv, Promise!vars, Returns
<1>. QED  BY <1>1, <1>2, Layouts, PTL DEF Spec, KeepsPromise, Promise!Spec
=============================================================================
