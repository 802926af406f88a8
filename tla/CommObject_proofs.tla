-------------------------- MODULE CommObject_proofs --------------------------
(***************************************************************************)
(* Proofs about CommObject, for every number of ranks, placement and order  *)
(* of calls: the communicators form grids and the rank maps locate every    *)
(* process (counting the members of a communicator below a rank), memory is *)
(* not misused, and ranks part over a collective only if leaders or nodes   *)
(* are of two sizes.                                                        *)
(***************************************************************************)
EXTENDS CommObject, FiniteSetTheorems, TLAPS

(* Communicators that cut the ranks into classes, with k ranks in each; the *)
(* ranks that have the same number in theirs; the ranks cut into blocks.    *)
Partition(c) ==
  /\ c \in [Rank -> SUBSET Rank]
  /\ \A r \in Rank : r \in c[r]
  /\ \A r, s \in Rank : s \in c[r] => c[s] = c[r]
Even(c, k) == \A r \in Rank : Cardinality(c[r]) = k
Group(c) == Split(World, Numbers(c))
Blocks(n) == Split(World, [r \in Rank |-> r \div n])

(* The members of a class meet those of another class in the same order,    *)
(* whatever their number.                                                   *)
InStep(c) ==
  \A r, s \in Rank : \A q \in c[r], t \in c[s] :
    s \in Group(c)[r] /\ t \in Group(c)[q] => (s < r <=> t < q)

Grid(local, group) ==
  \A r \in Rank :
    /\ local[r] \cap group[r] = {r}
    /\ UNION { local[s] : s \in group[r] } = Rank
    /\ Cardinality(local[r]) * Cardinality(group[r]) = NumProcs
-----------------------------------------------------------------------------
(* What the library assumes of its callers and of the machine.  The header  *)
(* takes an equal number of processes per node for granted; that the hosts  *)
(* take turns in one order is what get_node needs (HostsInStep), and that   *)
(* the processes of a node divide evenly among the leaders the library      *)
(* makes what the exchanges over leaders need (EvenLeaders).  The caller    *)
(* makes any leaders.                                                       *)
OnHost(h) == Split(World, h)
EvenNodes ==
  /\ \A h \in Placements : \E k \in Nat \ {0} : Even(OnHost(h), k)
  /\ \A n \in PpnArgs : NumProcs % n = 0

HostsInStep == \A h \in Placements : InStep(OnHost(h))

(* Ranks per leader where k ranks share a node. *)
PerLeader(k) == k \div Min({k, LeadersPerNode})
EvenLeaders ==
  /\ \A n \in PpnArgs : n % PerLeader(n) = 0
  /\ \A h \in Placements, k \in Nat \ {0} : Even(OnHost(h), k) => k % PerLeader(k) = 0
-----------------------------------------------------------------------------
(* What the object holds.  The local communicator is one of these; it is    *)
(* there when the maps are, and they are its maps.                          *)
Localities == { OnHost(h) : h \in Placements } \cup { Blocks(n) : n \in PpnArgs }

Formed(x, c) ==
  /\ x.comm["local_comm"] = c /\ x.comm["group_comm"] = Group(c)
  /\ x.toLocal = Numbers(c) /\ x.toNode = Numbers(Group(c)) /\ x.ppn = Sizes(c)
  /\ x.ordered = [r \in Rank |-> Ordered(Numbers(Group(c)), Numbers(c), Sizes(c)[r])]
Located(x) ==
  \/ x.comm["local_comm"] = Null /\ x.heap["ordered_global_ranks"] # "live"
  \/ \E c \in Localities : Formed(x, c)

(* Leaders, if there are any, cut all ranks into blocks, if perhaps those   *)
(* of an earlier locality, and the last block perhaps a shorter one.        *)
LedBy(x, n) ==
  /\ x.comm["leader_comm"] = Blocks(n) /\ x.comm["leader_group_comm"] = Group(Blocks(n))
  /\ x.comm["leader_local_comm"] # Null
Led(x) ==
  \/ x.comm["leader_comm"] = Null
  \/ \E n \in Nat \ {0} : LedBy(x, n)

(* Arrays that are written to without being made are there.                 *)
Sane(x) ==
  /\ x.misuse = {}
  /\ x.heap["statuses"] # "dangling"
  /\ x.win => x.heap["win_array"] = "live"

(* The communicators of the last exchange.                                  *)
OverNode ==
  use.local = xcomm.comm["local_comm"] /\ use.group = xcomm.comm["group_comm"]
OverLeaders ==
  \E k \in Nat \ {0} :
    /\ Even(xcomm.comm["local_comm"], k)
    /\ use.local = Blocks(PerLeader(k)) /\ use.group = Group(Blocks(PerLeader(k)))
Usage ==
  use # None /\ use.leaders = Null =>
    xcomm.comm["local_comm"] # Null /\ (OverNode \/ OverLeaders)
(* Arithmetic. *)
LEMMA Multiples ==
  ASSUME NEW a \in Nat, NEW b \in Nat, NEW k \in Nat
  PROVE  /\ a * k \in Nat /\ b * k \in Nat
         /\ a <= b => a * k <= b * k
         /\ a < b => a * k + k <= b * k
<1>1. a * k \in Nat /\ b * k \in Nat
  BY SMT
<1>2. ASSUME a <= b PROVE a * k <= b * k
  <2>1. PICK d \in Nat : b = a + d
    BY <1>2, SMT
  <2>2. b * k = a * k + d * k /\ d * k \in Nat
    BY <2>1, SMT
  <2>. QED  BY <1>1, <2>2, SMT
<1>3. ASSUME a < b PROVE a * k + k <= b * k
  <2>1. PICK d \in Nat : b = a + 1 + d
    BY <1>3, SMT
  <2>2. b * k = a * k + k + d * k /\ d * k \in Nat
    BY <2>1, SMT
  <2>. QED  BY <1>1, <2>2, SMT
<1>. QED  BY <1>1, <1>2, <1>3

LEMMA Products ==
  ASSUME NEW a \in Nat, NEW b \in Nat, NEW k \in Nat
  PROVE  (a * b) * k = a * (b * k)
BY SMT

LEMMA Division ==
  ASSUME NEW a \in Nat, NEW k \in Nat \ {0}
  PROVE  /\ a \div k \in Nat /\ (a \div k) * k \in Nat
         /\ (a \div k) * k <= a /\ a < (a \div k) * k + k
         /\ a % k = a - (a \div k) * k
BY SMT

LEMMA Quotient ==
  ASSUME NEW a \in Nat, NEW q \in Nat, NEW k \in Nat \ {0}, q * k <= a, a < q * k + k
  PROVE  a \div k = q
<1>1. /\ a \div k \in Nat /\ (a \div k) * k \in Nat /\ q * k \in Nat
      /\ (a \div k) * k <= a /\ a < (a \div k) * k + k
  BY Division, Multiples
<1>2. ~ (q < a \div k) /\ ~ (a \div k < q)
  <2>1. /\ q < a \div k => q * k + k <= (a \div k) * k
        /\ a \div k < q => (a \div k) * k + k <= q * k
    BY <1>1, Multiples
  <2>. QED  BY <1>1, <2>1, SMT
<1>. QED  BY <1>1, <1>2, SMT

LEMMA Divisor ==
  ASSUME NEW a \in Nat \ {0}, NEW k \in Nat \ {0}, a % k = 0
  PROVE  \E m \in Nat \ {0} : a = m * k
<1>1. a \div k \in Nat /\ (a \div k) * k = a
  BY Division, SMT
<1>2. a \div k # 0
  BY <1>1, SMT
<1>. QED  BY <1>1, <1>2

(* A node number and a local number below k make different indices.         *)
LEMMA Index ==
  ASSUME NEW k \in Nat \ {0}, NEW q \in Nat, NEW t \in Nat,
         NEW l \in 0 .. k - 1, NEW m \in 0 .. k - 1, q * k + l = t * k + m
  PROVE  q = t /\ l = m
<1>1. q * k \in Nat /\ t * k \in Nat /\ l \in Nat /\ m \in Nat
  BY Multiples
<1>2. (q * k + l) \div k = q /\ (t * k + m) \div k = t
  BY <1>1, Quotient, SMT
<1>3. q = t
  BY <1>2
<1>. QED  BY <1>1, <1>3, SMT
-----------------------------------------------------------------------------
(* Ranks, and the classes of a communicator. *)
LEMMA RankFacts ==
  /\ NumProcs \in Nat \ {0} /\ 0 \in Rank /\ Rank \subseteq Nat
  /\ IsFiniteSet(Rank) /\ Cardinality(Rank) = NumProcs
<1>1. NumProcs \in Nat \ {0}
  BY CommAssumption
<1>2. IsFiniteSet(Rank) /\ Cardinality(Rank) = NumProcs
  BY <1>1, FS_Interval DEF Rank
<1>. QED  BY <1>1, <1>2 DEF Rank

LEMMA SplitOf ==
  ASSUME NEW c, Partition(c), NEW color
  PROVE  /\ Partition(Split(c, color))
         /\ \A r, s \in Rank : s \in Split(c, color)[r] <=> s \in c[r] /\ color[s] = color[r]
BY DEF Split, Partition

LEMMA WorldIsPartition == Partition(World) /\ \A r \in Rank : World[r] = Rank
BY DEF World, Partition

LEMMA SplitWorld ==
  ASSUME NEW color
  PROVE  /\ Partition(Split(World, color))
         /\ \A r, s \in Rank : s \in Split(World, color)[r] <=> color[s] = color[r]
BY WorldIsPartition, SplitOf

LEMMA NotNull ==
  ASSUME NEW c, Partition(c)
  PROVE  c # Null
BY RankFacts DEF Partition, Null

LEMMA ClassFinite ==
  ASSUME NEW c, Partition(c), NEW r \in Rank
  PROVE  /\ IsFiniteSet(c[r]) /\ Cardinality(c[r]) \in 1 .. NumProcs
         /\ c[r] \subseteq Rank
<1>1. c[r] \in SUBSET Rank /\ r \in c[r]
  BY DEF Partition
<1>2. IsFiniteSet(c[r]) /\ Cardinality(c[r]) <= NumProcs
  BY <1>1, RankFacts, FS_Subset
<1>3. Cardinality(c[r]) \in Nat /\ Cardinality(c[r]) # 0
  BY <1>1, <1>2, FS_CardinalityType, FS_EmptySet
<1>. QED  BY <1>1, <1>2, <1>3, RankFacts

(* The number of a rank in a communicator: from 0 upwards, in the order of  *)
(* the ranks, and every number is given to a member.                        *)
Below(c, r) == { s \in c[r] : s < r }

LEMMA NumbersType ==
  ASSUME NEW c, Partition(c), NEW r \in Rank
  PROVE  Numbers(c)[r] \in 0 .. Cardinality(c[r]) - 1
<1>1. IsFiniteSet(c[r]) /\ Cardinality(c[r]) \in Nat /\ r \in c[r] /\ r \in Nat
  BY ClassFinite, RankFacts DEF Partition
<1>2. Below(c, r) \in SUBSET c[r] /\ Below(c, r) # c[r]
  BY <1>1 DEF Below
<1>3. /\ Cardinality(Below(c, r)) <= Cardinality(c[r])
      /\ Cardinality(Below(c, r)) # Cardinality(c[r])
      /\ IsFiniteSet(Below(c, r))
  BY <1>1, <1>2, FS_Subset
<1>4. Cardinality(Below(c, r)) \in Nat
  BY <1>3, FS_CardinalityType
<1>5. Numbers(c)[r] = Cardinality(Below(c, r))
  BY DEF Numbers, Below
<1>. QED  BY <1>1, <1>3, <1>4, <1>5

LEMMA NumbersOrder ==
  ASSUME NEW c, Partition(c), NEW r \in Rank, NEW s \in c[r]
  PROVE  /\ s \in Rank /\ r < s => Numbers(c)[r] < Numbers(c)[s]
         /\ Numbers(c)[r] = Numbers(c)[s] => r = s
<1>1. ASSUME NEW a \in Rank, NEW b \in c[a], a < b
      PROVE  Numbers(c)[a] < Numbers(c)[b]
  <2>1. b \in Rank /\ c[b] = c[a] /\ a \in c[a] /\ a \in Nat /\ b \in Nat
    BY RankFacts DEF Partition
  <2>2. /\ Below(c, a) \in SUBSET Below(c, b) /\ a \in Below(c, b) /\ a \notin Below(c, a)
        /\ Below(c, b) \in SUBSET c[b]
    <3>1. \A t \in c[a] : t \in Nat
      BY RankFacts, ClassFinite
    <3>. QED  BY <2>1, <1>1, <3>1 DEF Below
  <2>3. IsFiniteSet(Below(c, b))
    BY <2>1, <2>2, ClassFinite, FS_Subset
  <2>4. /\ Cardinality(Below(c, a)) <= Cardinality(Below(c, b))
        /\ Cardinality(Below(c, a)) # Cardinality(Below(c, b))
        /\ IsFiniteSet(Below(c, a))
    BY <2>2, <2>3, FS_Subset
  <2>5. Cardinality(Below(c, a)) \in Nat /\ Cardinality(Below(c, b)) \in Nat
    BY <2>3, <2>4, FS_CardinalityType
  <2>6. Numbers(c)[a] = Cardinality(Below(c, a)) /\ Numbers(c)[b] = Cardinality(Below(c, b))
    BY <2>1 DEF Numbers, Below
  <2>. QED  BY <2>4, <2>5, <2>6
<1>2. s \in Rank /\ r \in c[s] /\ r \in Nat /\ s \in Nat
  BY RankFacts DEF Partition
<1>3. Numbers(c)[r] \in Nat /\ Numbers(c)[s] \in Nat
  BY <1>2, NumbersType, ClassFinite
<1>4. (r < s => Numbers(c)[r] < Numbers(c)[s]) /\ (s < r => Numbers(c)[s] < Numbers(c)[r])
  BY <1>1, <1>2
<1>. QED  BY <1>2, <1>3, <1>4

LEMMA NumbersOnto ==
  ASSUME NEW c, Partition(c), NEW r \in Rank, NEW l \in 0 .. Cardinality(c[r]) - 1
  PROVE  \E s \in c[r] : s \in Rank /\ Numbers(c)[s] = l
<1> DEFINE k == Cardinality(c[r])
           T == 0 .. k - 1
           f == [s \in c[r] |-> Numbers(c)[s]]
<1>1. k \in Nat /\ k > 0 /\ IsFiniteSet(c[r]) /\ \A s \in c[r] : s \in Rank /\ c[s] = c[r]
  BY ClassFinite DEF Partition
<1>2. IsFiniteSet(T) /\ Cardinality(T) = k
  <2> HIDE DEF k
  <2>. QED  BY <1>1, FS_Interval
<1>3. f \in Injection(c[r], T)
  <2>1. f \in [c[r] -> T]
    BY <1>1, NumbersType
  <2>2. \A s, t \in c[r] : f[s] = f[t] => s = t
    BY <1>1, NumbersOrder
  <2>. QED  BY <2>1, <2>2 DEF Injection, IsInjective
<1>4. f \in Surjection(c[r], T)
  <2> HIDE DEF T, f
  <2>. QED  BY <1>1, <1>2, <1>3, FS_Injection
<1>5. l \in T
  BY <1>1
<1>6. PICK s \in c[r] : f[s] = l
  BY <1>4, <1>5 DEF Surjection
<1>. QED  BY <1>1, <1>6
-----------------------------------------------------------------------------
(* A communicator whose classes have one size, and the communicator that    *)
(* joins the ranks with one number, form a grid.                            *)
LEMMA GroupOf ==
  ASSUME NEW c, Partition(c)
  PROVE  /\ Partition(Group(c))
         /\ \A r, s \in Rank : s \in Group(c)[r] <=> Numbers(c)[s] = Numbers(c)[r]
BY SplitWorld DEF Group

LEMMA Corner ==
  ASSUME NEW c, Partition(c), NEW k, Even(c, k), NEW r \in Rank, NEW t \in Rank
  PROVE  \E s \in Rank : s \in Group(c)[r] /\ s \in c[t] /\ t \in c[s]
<1>1. Numbers(c)[r] \in 0 .. Cardinality(c[t]) - 1
  BY NumbersType DEF Even
<1>2. PICK s \in c[t] : s \in Rank /\ Numbers(c)[s] = Numbers(c)[r]
  BY <1>1, NumbersOnto
<1>3. c[s] = c[t] /\ t \in c[t]
  BY <1>2 DEF Partition
<1>. QED  BY <1>2, <1>3, GroupOf

LEMMA OneCorner ==
  ASSUME NEW c, Partition(c), NEW r \in Rank, NEW s \in Rank, s \in Group(c)[r], s \in c[r]
  PROVE  s = r
BY GroupOf, NumbersOrder

LEMMA GridOf ==
  ASSUME NEW c, Partition(c), NEW k \in Nat \ {0}, Even(c, k)
  PROVE  Grid(c, Group(c))
<1> SUFFICES ASSUME NEW r \in Rank
             PROVE  /\ c[r] \cap Group(c)[r] = {r}
                    /\ UNION { c[s] : s \in Group(c)[r] } = Rank
                    /\ Cardinality(c[r]) * Cardinality(Group(c)[r]) = NumProcs
  BY DEF Grid
<1>1. Partition(c) /\ Partition(Group(c))
  BY GroupOf
<1>2. c[r] \cap Group(c)[r] = {r}
  <2>1. c[r] \subseteq Rank /\ r \in c[r] /\ r \in Group(c)[r]
    BY <1>1, ClassFinite DEF Partition
  <2>2. \A s \in c[r] \cap Group(c)[r] : s = r
    BY <2>1, OneCorner
  <2>. QED  BY <2>1, <2>2
<1>3. UNION { c[s] : s \in Group(c)[r] } = Rank
  <2>1. \A s \in Group(c)[r] : s \in Rank /\ c[s] \subseteq Rank
    BY <1>1, ClassFinite
  <2>2. \A t \in Rank : \E s \in Group(c)[r] : t \in c[s]
    BY Corner
  <2>. QED  BY <2>1, <2>2
<1>4. Cardinality(c[r]) * Cardinality(Group(c)[r]) = NumProcs
  <2> DEFINE T == c[r] \X Group(c)[r]
             own(t) == CHOOSE s \in Rank : s \in Group(c)[t] /\ s \in c[r]
             head(t) == CHOOSE s \in Rank : s \in Group(c)[r] /\ s \in c[t]
             f == [t \in Rank |-> <<own(t), head(t)>>]
  <2>1. ASSUME NEW t \in Rank
        PROVE  /\ own(t) \in Rank /\ own(t) \in Group(c)[t] /\ own(t) \in c[r]
               /\ head(t) \in Rank /\ head(t) \in Group(c)[r] /\ head(t) \in c[t]
    <3>1. \E s \in Rank : s \in Group(c)[t] /\ s \in c[r]
      BY Corner
    <3>2. \E s \in Rank : s \in Group(c)[r] /\ s \in c[t]
      BY Corner
    <3>. QED  BY <3>1, <3>2
  <2>2. ASSUME NEW t \in Rank, NEW s \in Rank, own(t) = own(s), head(t) = head(s)
        PROVE  t = s
    <3>1. Numbers(c)[t] = Numbers(c)[s]
      <4>1. Numbers(c)[own(t)] = Numbers(c)[t] /\ Numbers(c)[own(s)] = Numbers(c)[s]
        <5>1. /\ own(t) \in Rank /\ own(t) \in Group(c)[t]
              /\ own(s) \in Rank /\ own(s) \in Group(c)[s]
          BY <2>1
        <5> HIDE DEF own
        <5>. QED  BY <5>1, GroupOf
      <4>. QED  BY <4>1, <2>2
    <3>2. c[t] = c[s] /\ s \in c[s]
      <4>1. c[head(t)] = c[t] /\ c[head(s)] = c[s]
        BY <2>1 DEF Partition
      <4>. QED  BY <4>1, <2>2 DEF Partition
    <3>. QED  BY <3>1, <3>2, NumbersOrder
  <2>3. ASSUME NEW a \in c[r], NEW b \in Group(c)[r]
        PROVE  \E t \in Rank : own(t) = a /\ head(t) = b
    <3>1. a \in Rank /\ b \in Rank /\ c[a] = c[r] /\ Group(c)[b] = Group(c)[r]
      BY <1>1, ClassFinite DEF Partition
    <3>2. PICK t \in Rank : t \in Group(c)[a] /\ t \in c[b] /\ b \in c[t]
      BY <3>1, Corner
    <3>3. c[b] = c[t] /\ Group(c)[a] = Group(c)[t] /\ a \in Group(c)[a]
      BY <3>1, <3>2, <1>1 DEF Partition
    <3>4. /\ own(t) \in Rank /\ own(t) \in Group(c)[a] /\ own(t) \in c[a]
          /\ head(t) \in Rank /\ head(t) \in Group(c)[b] /\ head(t) \in c[b]
      BY <2>1, <3>1, <3>3
    <3> HIDE DEF own, head
    <3>. QED  BY <3>1, <3>4, OneCorner
  <2> HIDE DEF own, head
  <2>4. f \in [Rank -> T]
    BY <2>1
  <2>5. f \in Injection(Rank, T)
    BY <2>2, <2>4 DEF Injection, IsInjective
  <2>6. f \in Surjection(Rank, T)
    <3>1. \A e \in T : \E t \in Rank : f[t] = e
      BY <2>3
    <3>. QED  BY <2>4, <3>1 DEF Surjection
  <2>7. /\ IsFiniteSet(c[r]) /\ IsFiniteSet(Group(c)[r])
        /\ IsFiniteSet(T) /\ Cardinality(T) = Cardinality(c[r]) * Cardinality(Group(c)[r])
    BY <1>1, ClassFinite, FS_Product
  <2> HIDE DEF T, f
  <2>. QED  BY <2>5, <2>6, <2>7, RankFacts, FS_Surjection
<1>. QED  BY <1>2, <1>3, <1>4

(* Every class of the other communicator has as many ranks as there are     *)
(* classes.                                                                 *)
LEMMA GroupSize ==
  ASSUME NEW c, Partition(c), NEW k \in Nat \ {0}, Even(c, k), NEW r \in Rank
  PROVE  Cardinality(Group(c)[r]) \in Nat \ {0} /\ Cardinality(Group(c)[r]) * k = NumProcs
<1>1. Cardinality(c[r]) = k /\ Cardinality(c[r]) * Cardinality(Group(c)[r]) = NumProcs
  BY GridOf DEF Grid, Even
<1>2. Cardinality(Group(c)[r]) \in Nat \ {0}
  BY GroupOf, ClassFinite
<1>3. k * Cardinality(Group(c)[r]) = Cardinality(Group(c)[r]) * k
  BY <1>2, SMT
<1>. QED  BY <1>1, <1>2, <1>3
-----------------------------------------------------------------------------
(* The rank maps of a communicator locate every process. *)
LEMMA IndexType ==
  ASSUME NEW c, Partition(c), NEW k \in Nat \ {0}, Even(c, k), NEW s \in Rank
  PROVE  /\ Numbers(c)[s] \in 0 .. k - 1 /\ Numbers(Group(c))[s] \in Nat
         /\ IndexOf(Numbers(Group(c)), Numbers(c), k, s) \in Rank
<1>1. PICK m \in Nat \ {0} : m = Cardinality(Group(c)[s]) /\ m * k = NumProcs
  BY GroupSize
<1>2. PICK q \in Nat : q = Numbers(Group(c))[s] /\ q < m
  BY <1>1, GroupOf, NumbersType
<1>3. PICK l \in 0 .. k - 1 : l = Numbers(c)[s]
  BY NumbersType DEF Even
<1>4. q * k + k <= m * k /\ q * k \in Nat
  BY <1>2, <1>1, Multiples
<1>5. q * k + l \in 0 .. NumProcs - 1
  BY <1>1, <1>3, <1>4
<1>. QED  BY <1>2, <1>3, <1>5 DEF IndexOf, Rank

LEMMA IndexInjective ==
  ASSUME NEW c, Partition(c), NEW k \in Nat \ {0}, Even(c, k), NEW r \in Rank, NEW s \in Rank,
         IndexOf(Numbers(Group(c)), Numbers(c), k, r) = IndexOf(Numbers(Group(c)), Numbers(c), k, s)
  PROVE  r = s
<1>1. /\ Numbers(c)[r] \in 0 .. k - 1 /\ Numbers(Group(c))[r] \in Nat
      /\ Numbers(c)[s] \in 0 .. k - 1 /\ Numbers(Group(c))[s] \in Nat
  BY IndexType
<1>2. Numbers(c)[r] = Numbers(c)[s] /\ Numbers(Group(c))[r] = Numbers(Group(c))[s]
  BY <1>1, Index DEF IndexOf
<1>3. s \in Group(c)[r]
  BY <1>2, GroupOf
<1>. QED  BY <1>2, <1>3, GroupOf, NumbersOrder

LEMMA OrderedInverts ==
  ASSUME NEW c, Partition(c), NEW k \in Nat \ {0}, Even(c, k), NEW s \in Rank
  PROVE  LET i == IndexOf(Numbers(Group(c)), Numbers(c), k, s)
             o == Ordered(Numbers(Group(c)), Numbers(c), k)
         IN  i \in DOMAIN o /\ o[i] = s
<1> DEFINE ix(t) == IndexOf(Numbers(Group(c)), Numbers(c), k, t)
           S == { t \in Rank : ix(t) = ix(s) }
<1>1. S = {s}
  BY IndexInjective
<1>2. Max(S) = s
  <2>1. s >= s
    BY RankFacts
  <2>. QED  BY <1>1, <2>1 DEF Max
<1>. QED  BY <1>2 DEF Ordered

LEMMA NoOverrun ==
  ASSUME NEW c, Partition(c), NEW k \in Nat \ {0}, Even(c, k),
         NEW n, \A r \in Rank : n[r] = k
  PROVE  Overrun(Numbers(Group(c)), Numbers(c), n) = {}
<1>1. SUFFICES ASSUME NEW r \in Rank, NEW s \in Rank,
                      IndexOf(Numbers(Group(c)), Numbers(c), n[r], s) >= NumProcs
               PROVE  FALSE
  BY DEF Overrun
<1>2. IndexOf(Numbers(Group(c)), Numbers(c), k, s) \in 0 .. NumProcs - 1
  BY IndexType DEF Rank
<1>3. n[r] = k
  OBVIOUS
<1>4. IndexOf(Numbers(Group(c)), Numbers(c), k, s) >= NumProcs
  BY <1>1, <1>3
<1>. QED  BY <1>2, <1>4, RankFacts
-----------------------------------------------------------------------------
(* Blocks of consecutive ranks. *)
LEMMA BlockOf ==
  ASSUME NEW n \in Nat \ {0}
  PROVE  /\ Partition(Blocks(n))
         /\ \A r, s \in Rank : s \in Blocks(n)[r] <=> s \div n = r \div n
BY SplitWorld DEF Blocks

LEMMA BlocksEven ==
  ASSUME NEW n \in Nat \ {0}, NumProcs % n = 0
  PROVE  Even(Blocks(n), n)
<1> SUFFICES ASSUME NEW r \in Rank PROVE Cardinality(Blocks(n)[r]) = n
  BY DEF Even
<1>1. PICK m \in Nat \ {0} : NumProcs = m * n
  BY RankFacts, Divisor
<1>2. r \in Nat /\ r < NumProcs
  BY RankFacts DEF Rank
<1>3. PICK q \in Nat : q = r \div n /\ q * n \in Nat /\ q * n <= r
  BY <1>2, Division
<1>4. q < m
  <2>1. m <= q => m * n <= q * n
    BY <1>1, <1>3, Multiples
  <2>. QED  BY <1>1, <1>2, <1>3, <2>1
<1>5. q * n + n <= NumProcs
  BY <1>1, <1>3, <1>4, Multiples
<1>6. Blocks(n)[r] = q * n .. q * n + n - 1
  <2>1. Blocks(n)[r] \subseteq Rank
    BY BlockOf, ClassFinite
  <2>2. ASSUME NEW s \in Rank
        PROVE  s \div n = q <=> s \in q * n .. q * n + n - 1
    <3>1. s \in Nat
      BY RankFacts
    <3>2. (s \div n) * n <= s /\ s < (s \div n) * n + n
      BY <3>1, Division
    <3>3. q * n <= s /\ s < q * n + n => s \div n = q
      BY <1>3, <3>1, Quotient
    <3>. QED  BY <1>3, <3>1, <3>2, <3>3
  <2>3. q * n .. q * n + n - 1 \subseteq Rank
    BY <1>3, <1>5, RankFacts DEF Rank
  <2>. QED  BY <1>3, <2>1, <2>2, <2>3, BlockOf
<1>7. PICK low \in Nat : low = q * n
  BY <1>3
<1>8. Cardinality(low .. low + n - 1) = low + n - 1 - low + 1
  <2>1. low \in Int /\ low + n - 1 \in Int /\ ~ (low > low + n - 1)
    OBVIOUS
  <2>. QED  BY <2>1, FS_Interval
<1>9. Blocks(n)[r] = low .. low + n - 1
  BY <1>6, <1>7
<1>. QED  BY <1>8, <1>9

LEMMA BlocksInStep ==
  ASSUME NEW n \in Nat \ {0}
  PROVE  InStep(Blocks(n))
<1> DEFINE c == Blocks(n)
<1> SUFFICES ASSUME NEW r \in Rank, NEW s \in Rank, NEW q \in c[r], NEW t \in c[s],
                    s \in Group(c)[r], t \in Group(c)[q]
             PROVE  s < r <=> t < q
  BY DEF InStep
<1>1. Partition(c) /\ q \in Rank /\ t \in Rank
  BY BlockOf, ClassFinite
<1>2. q \div n = r \div n /\ t \div n = s \div n
  BY <1>1, BlockOf
<1>3. r \in Nat /\ s \in Nat /\ q \in Nat /\ t \in Nat
  BY <1>1, RankFacts
<1>4. ASSUME NEW a \in Nat, NEW b \in Nat, a \div n < b \div n PROVE a < b
  <2>1. (a \div n) * n + n <= (b \div n) * n
    BY <1>4, Division, Multiples
  <2>2. a < (a \div n) * n + n /\ (b \div n) * n <= b /\ (a \div n) * n \in Nat
          /\ (b \div n) * n \in Nat
    BY Division
  <2>. QED  BY <2>1, <2>2
<1>5. CASE s \div n = r \div n
  <2>1. s \in c[r] /\ t \in c[q]
    BY <1>1, <1>2, <1>5, BlockOf
  <2>2. s = r /\ t = q
    <3> HIDE DEF c
    <3>. QED  BY <1>1, <2>1, OneCorner
  <2>. QED  BY <1>3, <2>2
<1>6. CASE s \div n # r \div n
  <2>0. s \div n \in Nat /\ r \div n \in Nat
    BY <1>3, Division
  <2>1. s \div n < r \div n \/ r \div n < s \div n
    BY <2>0, <1>6
  <2>2. /\ s \div n < r \div n => s < r /\ t < q
        /\ r \div n < s \div n => r < s /\ q < t
    BY <1>2, <1>3, <1>4
  <2>. QED  BY <1>3, <2>1, <2>2
<1>. QED  BY <1>5, <1>6

(* Blocks that are all of size p are the blocks of p ranks.                 *)
LEMMA BlocksOfSize ==
  ASSUME NEW n \in Nat \ {0}, NEW p \in Nat \ {0}, Even(Blocks(n), p)
  PROVE  Blocks(n) = Blocks(p)
<1>1. NumProcs \in Nat \ {0} /\ 0 \in Rank
  BY RankFacts
<1>2. ASSUME NEW m \in Nat \ {0}, NEW s \in Rank PROVE s \div m = 0 \div m <=> s < m
  <2>1. s \in Nat /\ 0 \div m = 0
    BY RankFacts, SMT
  <2>2. s < (s \div m) * m + m
    BY <2>1, Division
  <2>3. s < m => s \div m = 0
    <3>1. 0 * m <= s /\ 0 * m + m = m
      BY <2>1, SMT
    <3>. QED  BY <2>1, <3>1, Quotient
  <2>4. s \div m = 0 => s < m
    BY <2>2, SMT
  <2>. QED  BY <2>1, <2>3, <2>4
<1>3. Blocks(n)[0] = { s \in Rank : s < n }
  <2>1. Blocks(n)[0] \subseteq Rank
    BY <1>1, BlockOf, ClassFinite
  <2>. QED  BY <1>1, <1>2, <2>1, BlockOf
<1>4. CASE n <= NumProcs
  <2>1. Blocks(n)[0] = 0 .. n - 1
    BY <1>1, <1>3, <1>4 DEF Rank
  <2>2. Cardinality(0 .. n - 1) = n
    BY FS_Interval
  <2>. QED  BY <1>1, <2>1, <2>2 DEF Even
<1>5. CASE NumProcs < n
  <2>1. Blocks(n)[0] = Rank
    BY <1>1, <1>3, <1>5 DEF Rank
  <2>2. p = NumProcs
    BY <1>1, <2>1, RankFacts DEF Even
  <2>3. ASSUME NEW m \in {n, p}, NEW s \in Rank PROVE s \div m = 0
    <3>1. s \in Nat /\ s < m
      BY <1>1, <1>5, <2>2, <2>3 DEF Rank
    <3>. QED  BY <3>1, Quotient, SMT
  <2>4. \A r, s \in Rank : s \div n = r \div n /\ s \div p = r \div p
    BY <2>3
  <2>. QED  BY <2>4 DEF Blocks, Split, World
<1>. QED  BY <1>1, <1>4, <1>5

(* A block of n ranks lies within a block of k if n divides k. *)
LEMMA NestedBlocks ==
  ASSUME NEW n \in Nat \ {0}, NEW k \in Nat \ {0}, k % n = 0,
         NEW r \in Nat, NEW s \in Nat, s \div n = r \div n
  PROVE  s \div k = r \div k
<1>1. PICK j \in Nat \ {0} : k = j * n
  BY Divisor
<1>2. PICK a \in Nat : a = r \div n /\ a * n \in Nat /\ a * n <= s /\ s < a * n + n
                         /\ a * n <= r /\ r < a * n + n
  BY Division
<1>3. PICK q \in Nat : q = r \div k /\ q * k \in Nat /\ q * k <= r /\ r < q * k + k
  BY Division
<1>4. q * j \in Nat /\ (q + 1) * j \in Nat /\ q * k = (q * j) * n
        /\ q * k + k = ((q + 1) * j) * n
  <2>1. q * j \in Nat /\ (q + 1) * j \in Nat
    BY Multiples
  <2>2. (q * j) * n = q * (j * n) /\ ((q + 1) * j) * n = (q + 1) * (j * n)
    BY Products
  <2>3. (q + 1) * k = q * k + k
    BY SMT
  <2>. QED  BY <1>1, <2>1, <2>2, <2>3
<1>5. q * j <= a
  <2>1. PICK u \in Nat : u = q * j
    BY <1>4
  <2>2. a < u => a * n + n <= u * n
    BY <1>2, <2>1, Multiples
  <2>3. u * n = q * k
    BY <1>4, <2>1
  <2>. QED  BY <1>2, <1>3, <2>1, <2>2, <2>3
<1>6. a < (q + 1) * j
  <2>1. PICK u \in Nat : u = (q + 1) * j
    BY <1>4
  <2>2. u <= a => u * n <= a * n
    BY <1>2, <2>1, Multiples
  <2>3. u * n = q * k + k
    BY <1>4, <2>1
  <2>. QED  BY <1>2, <1>3, <2>1, <2>2, <2>3
<1>7. q * k <= a * n /\ a * n + n <= q * k + k
  <2>1. (q * j) * n <= a * n /\ a * n + n <= ((q + 1) * j) * n
    BY <1>2, <1>4, <1>5, <1>6, Multiples
  <2>. QED  BY <1>4, <2>1
<1>8. s \div k = q
  <2>1. PICK low \in Nat : low = q * k
    BY <1>3
  <2>2. low <= s /\ s < low + k
    BY <1>2, <1>7, <2>1
  <2>. QED  BY <2>1, <2>2, Quotient
<1>. QED  BY <1>3, <1>8

(* Leaders do not outnumber the ranks they lead. *)
LEMMA PerLeaderType ==
  ASSUME NEW k \in Nat \ {0}
  PROVE  PerLeader(k) \in Nat \ {0}
<1>1. LeadersPerNode \in Nat \ {0}
  BY CommAssumption
<1>2. PICK m \in Nat \ {0} : m = Min({k, LeadersPerNode}) /\ m <= k
  <2>1. CASE k <= LeadersPerNode
    <3>1. k \in {k, LeadersPerNode} /\ \A y \in {k, LeadersPerNode} : k =< y
      BY <1>1, <2>1
    <3>2. \A x \in {k, LeadersPerNode} : (\A y \in {k, LeadersPerNode} : x =< y) => x = k
      BY <1>1, <2>1
    <3>3. Min({k, LeadersPerNode}) = k
      BY <3>1, <3>2 DEF Min
    <3>. QED  BY <3>3
  <2>2. CASE LeadersPerNode < k
    <3>1. /\ LeadersPerNode \in {k, LeadersPerNode}
          /\ \A y \in {k, LeadersPerNode} : LeadersPerNode =< y
      BY <1>1, <2>2
    <3>2. \A x \in {k, LeadersPerNode} :
            (\A y \in {k, LeadersPerNode} : x =< y) => x = LeadersPerNode
      BY <1>1, <2>2
    <3>3. Min({k, LeadersPerNode}) = LeadersPerNode
      BY <3>1, <3>2 DEF Min
    <3>. QED  BY <1>1, <2>2, <3>3
  <2>. QED  BY <1>1, <2>1, <2>2
<1>3. k \div m \in Nat /\ k < (k \div m) * m + m
  BY <1>2, Division
<1>4. k \div m # 0
  BY <1>2, <1>3
<1>. QED  BY <1>2, <1>3, <1>4 DEF PerLeader
-----------------------------------------------------------------------------
(* Node numbers.  Where the classes are in step, the ranks of a class come  *)
(* at the same place in the order of the ranks with their number.           *)
LEMMA FewerBelow ==
  ASSUME NEW c, Partition(c), NEW k \in Nat \ {0}, Even(c, k), InStep(c),
         NEW r \in Rank, NEW q \in c[r]
  PROVE  Numbers(Group(c))[r] <= Numbers(Group(c))[q]
<1> DEFINE A == Below(Group(c), r)
           B == Below(Group(c), q)
           image(s) == CHOOSE t \in Rank : t \in Group(c)[q] /\ t \in c[s]
           f == [s \in A |-> image(s)]
<1>1. q \in Rank /\ Partition(Group(c))
  BY ClassFinite, GroupOf
<1>2. IsFiniteSet(A) /\ IsFiniteSet(B) /\ A \subseteq Rank
  <2>1. A \in SUBSET Group(c)[r] /\ B \in SUBSET Group(c)[q]
    BY DEF Below
  <2>2. IsFiniteSet(Group(c)[r]) /\ IsFiniteSet(Group(c)[q]) /\ Group(c)[r] \subseteq Rank
    BY <1>1, ClassFinite
  <2> HIDE DEF A, B
  <2>. QED  BY <2>1, <2>2, FS_Subset
<1>3. ASSUME NEW s \in A
      PROVE  image(s) \in Rank /\ image(s) \in Group(c)[q] /\ image(s) \in c[s]
  <2>1. \E t \in Rank : t \in Group(c)[q] /\ t \in c[s]
    BY <1>1, <1>2, Corner
  <2>. QED  BY <2>1
<1>4. ASSUME NEW s \in A PROVE image(s) \in B
  <2>1. s \in Group(c)[r] /\ s < r /\ s \in Rank
    BY <1>2 DEF Below
  <2>2. image(s) < q
    BY <1>3, <2>1 DEF InStep
  <2>. QED  BY <1>3, <2>2 DEF Below
<1>5. ASSUME NEW s \in A, NEW t \in A, image(s) = image(t) PROVE s = t
  <2>1. s \in Rank /\ t \in Rank /\ s \in Group(c)[r] /\ t \in Group(c)[r]
    BY <1>2 DEF Below
  <2>2. c[s] = c[t] /\ Group(c)[s] = Group(c)[t] /\ s \in c[s] /\ s \in Group(c)[s]
    <3>1. image(s) \in c[s] /\ image(s) \in c[t]
      BY <1>3, <1>5
    <3> HIDE DEF image
    <3>. QED  BY <3>1, <2>1, <1>1 DEF Partition
  <2>. QED  BY <2>1, <2>2, OneCorner
<1>6. f \in Injection(A, B)
  <2> HIDE DEF A, B, image
  <2>. QED  BY <1>4, <1>5 DEF Injection, IsInjective
<1>7. Cardinality(A) <= Cardinality(B)
  <2> HIDE DEF A, B, f
  <2>. QED  BY <1>2, <1>6, FS_Injection
<1>. QED  BY <1>1, <1>7 DEF Numbers, Below

LEMMA NodesOf ==
  ASSUME NEW c, Partition(c), NEW k \in Nat \ {0}, Even(c, k), InStep(c),
         NEW r \in Rank, NEW s \in Rank
  PROVE  Numbers(Group(c))[r] = Numbers(Group(c))[s] <=> s \in c[r]
<1>1. ASSUME NEW a \in Rank, NEW b \in c[a]
      PROVE  b \in Rank /\ Numbers(Group(c))[a] = Numbers(Group(c))[b]
  <2>1. b \in Rank /\ a \in c[b]
    BY ClassFinite DEF Partition
  <2>2. Numbers(Group(c))[a] \in Nat /\ Numbers(Group(c))[b] \in Nat
    BY <2>1, IndexType
  <2>3. /\ Numbers(Group(c))[a] <= Numbers(Group(c))[b]
        /\ Numbers(Group(c))[b] <= Numbers(Group(c))[a]
    BY <2>1, FewerBelow
  <2>. QED  BY <2>1, <2>2, <2>3
<1>2. ASSUME Numbers(Group(c))[r] = Numbers(Group(c))[s] PROVE s \in c[r]
  <2>1. PICK t \in Rank : t \in Group(c)[r] /\ t \in c[s] /\ s \in c[t]
    BY Corner
  <2>2. Numbers(Group(c))[t] = Numbers(Group(c))[r]
    BY <1>1, <1>2, <2>1
  <2>3. t = r
    BY <2>1, <2>2, GroupOf, NumbersOrder
  <2>. QED  BY <2>1, <2>3
<1>. QED  BY <1>1, <1>2
-----------------------------------------------------------------------------
(* A least number, by the well-foundedness of the naturals. *)
LEMMA LeastOf ==
  ASSUME NEW S, S \subseteq Nat, S # {}
  PROVE  \E n \in S : \A m \in S : ~ (m < n)
<1>1. PICK n \in S : \A m \in S : ~ (<<m, n>> \in OpToRel(<, Nat))
  BY NatLessThanWellFounded, WFMin
<1>. QED  BY <1>1 DEF OpToRel

(* A set of ranks that holds all ranks below its members is an interval.    *)
LEMMA Downwards ==
  ASSUME NEW D, D \subseteq Rank, \A r \in D, s \in Rank : s < r => s \in D
  PROVE  \A s \in Rank : s \in D <=> s < Cardinality(D)
<1>1. CASE D = Rank
  BY <1>1, RankFacts DEF Rank
<1>2. CASE D # Rank
  <2>1. Rank \ D # {} /\ Rank \ D \subseteq Nat
    BY <1>2, RankFacts
  <2>2. PICK t \in Rank \ D : \A m \in Rank \ D : ~ (m < t)
    BY <2>1, LeastOf
  <2>3. t \in Nat /\ t < NumProcs
    BY <2>2, RankFacts DEF Rank
  <2>4. D = 0 .. t - 1
    <3>1. ASSUME NEW s \in D PROVE s \in 0 .. t - 1
      <4>1. s \in Nat /\ s # t /\ ~ (t < s)
        BY <2>2, RankFacts
      <4>. QED  BY <2>3, <4>1
    <3>2. ASSUME NEW s \in 0 .. t - 1 PROVE s \in D
      <4>1. s \in Rank /\ s < t
        BY <2>3, RankFacts DEF Rank
      <4>. QED  BY <2>2, <4>1
    <3>. QED  BY <3>1, <3>2
  <2>5. Cardinality(D) = t
    BY <2>3, <2>4, FS_Interval
  <2>. QED  BY <2>3, <2>4, <2>5, RankFacts
<1>. QED  BY <1>1, <1>2
-----------------------------------------------------------------------------
(* Where the ranks are numbered node by node, nodes are blocks: k ranks     *)
(* have each node number, and those of one number share a class.            *)
NodesAscend(c) ==
  \A r, s \in Rank : r < s => Numbers(Group(c))[r] <= Numbers(Group(c))[s]

LEMMA RanksOnEarlierNodes ==
  ASSUME NEW c, Partition(c), NEW k \in Nat \ {0}, Even(c, k),
         NEW v \in Nat, v * k <= NumProcs
  PROVE  Cardinality({ s \in Rank : Numbers(Group(c))[s] < v }) = v * k
<1> DEFINE D == { s \in Rank : Numbers(Group(c))[s] < v }
           ix(s) == IndexOf(Numbers(Group(c)), Numbers(c), k, s)
           g == [s \in Rank |-> ix(s)]
           f == [s \in D |-> ix(s)]
<1>1. PICK top \in Nat : top = v * k
  BY Multiples
<1>2. ASSUME NEW s \in Rank
      PROVE  ix(s) \in Rank /\ (ix(s) < top <=> Numbers(Group(c))[s] < v)
  <2>1. PICK q \in Nat : q = Numbers(Group(c))[s]
    BY IndexType
  <2>2. PICK l \in 0 .. k - 1 : l = Numbers(c)[s]
    BY IndexType
  <2>3. ix(s) = q * k + l /\ q * k \in Nat
    BY <2>1, <2>2, Multiples DEF IndexOf
  <2>4. (q < v => q * k + k <= top) /\ (v <= q => top <= q * k)
    BY <1>1, Multiples
  <2>5. q * k + l < top <=> q < v
    <3>1. PICK w \in Nat : w = q * k
      BY <2>3
    <3>. QED  BY <1>1, <2>2, <2>4, <3>1
  <2>. QED  BY <2>1, <2>3, <2>5, IndexType
<1>3. g \in Injection(Rank, Rank)
  <2>1. \A s, t \in Rank : ix(s) = ix(t) => s = t
    BY IndexInjective
  <2> HIDE DEF ix
  <2>. QED  BY <1>2, <2>1 DEF Injection, IsInjective
<1>4. g \in Surjection(Rank, Rank)
  <2> HIDE DEF g
  <2>. QED  BY <1>3, RankFacts, FS_Injection
<1>5. f \in Injection(D, 0 .. top - 1)
  <2>1. \A s \in D : s \in Rank /\ ix(s) \in Nat /\ ix(s) < top
    BY <1>2, RankFacts
  <2>2. \A s \in D : ix(s) \in 0 .. top - 1
    BY <1>1, <2>1
  <2>3. \A s, t \in D : ix(s) = ix(t) => s = t
    BY IndexInjective
  <2> HIDE DEF ix, D
  <2>. QED  BY <2>2, <2>3 DEF Injection, IsInjective
<1>6. f \in Surjection(D, 0 .. top - 1)
  <2>1. ASSUME NEW i \in 0 .. top - 1 PROVE \E s \in D : f[s] = i
    <3>1. i \in Rank
      BY <1>1, RankFacts DEF Rank
    <3>2. PICK s \in Rank : g[s] = i
      BY <1>4, <3>1 DEF Surjection
    <3>3. ix(s) = i
      BY <3>2
    <3>4. s \in D
      BY <1>2, <3>3, <1>1
    <3> HIDE DEF ix, D
    <3>. QED  BY <3>3, <3>4
  <2>2. f \in [D -> 0 .. top - 1]
    BY <1>5 DEF Injection
  <2> HIDE DEF f, D
  <2>. QED  BY <2>1, <2>2 DEF Surjection
<1>7. IsFiniteSet(0 .. top - 1) /\ Cardinality(0 .. top - 1) = top
  <2>1. 0 \in Int /\ top - 1 \in Int
    OBVIOUS
  <2>2. /\ IsFiniteSet(0 .. top - 1)
        /\ Cardinality(0 .. top - 1) = IF 0 > top - 1 THEN 0 ELSE top - 1 - 0 + 1
    BY <2>1, FS_Interval
  <2>. QED  BY <2>2
<1>8. Cardinality(D) = top
  <2> HIDE DEF D, f
  <2>. QED  BY <1>5, <1>6, <1>7, FS_Injection
<1>. QED  BY <1>1, <1>8

LEMMA NodeIsBlock ==
  ASSUME NEW c, Partition(c), NEW k \in Nat \ {0}, Even(c, k), NodesAscend(c), NEW r \in Rank
  PROVE  Numbers(Group(c))[r] = r \div k
<1> DEFINE D(v) == { s \in Rank : Numbers(Group(c))[s] < v }
<1>1. PICK m \in Nat \ {0} : m = Cardinality(Group(c)[r]) /\ m * k = NumProcs
  BY GroupSize
<1>2. PICK v \in Nat : v = Numbers(Group(c))[r] /\ v < m
  BY <1>1, GroupOf, NumbersType
<1>3. v * k <= NumProcs /\ (v + 1) * k <= NumProcs /\ (v + 1) * k = v * k + k /\ v * k \in Nat
  <2>1. v + 1 \in Nat /\ v + 1 <= m
    BY <1>1, <1>2
  <2>2. v * k <= m * k /\ (v + 1) * k <= m * k
    BY <1>1, <1>2, <2>1, Multiples
  <2>. QED  BY <1>1, <2>2, Multiples, SMT
<1>4. ASSUME NEW w \in Nat, w * k <= NumProcs
      PROVE  r < w * k <=> v < w
  <2>1. \A a \in Rank : Numbers(Group(c))[a] \in Nat
    BY IndexType
  <2>2. \A a \in D(w), b \in Rank : b < a => b \in D(w)
    BY <2>1 DEF NodesAscend
  <2>3. Cardinality(D(w)) = w * k
    BY <1>4, RanksOnEarlierNodes
  <2>4. r \in D(w) <=> r < Cardinality(D(w))
    <3>1. D(w) \subseteq Rank
      OBVIOUS
    <3> HIDE DEF D
    <3>. QED  BY <2>2, <3>1, Downwards
  <2>. QED  BY <1>2, <2>3, <2>4
<1>5. ~ (r < v * k) /\ r < (v + 1) * k
  <2>1. r < v * k <=> v < v
    BY <1>3, <1>4
  <2>2. r < (v + 1) * k <=> v < v + 1
    BY <1>3, <1>4
  <2>. QED  BY <2>1, <2>2
<1>6. r \in Nat
  BY RankFacts
<1>7. PICK low \in Nat : low = v * k
  BY <1>3
<1>8. low <= r /\ r < low + k
  BY <1>3, <1>5, <1>6, <1>7
<1>9. r \div k = v
  BY <1>6, <1>7, <1>8, Quotient
<1>. QED  BY <1>2, <1>9

LEMMA BlockInClass ==
  ASSUME NEW c, Partition(c), NEW k \in Nat \ {0}, Even(c, k), NodesAscend(c),
         NEW r \in Rank, NEW s \in Rank, s \div k = r \div k
  PROVE  s \in c[r]
<1> DEFINE first(t) == (t \div k) * k
<1>1. ASSUME NEW t \in Rank
      PROVE  first(t) \in Rank /\ first(t) <= t /\ first(t) \div k = t \div k
  <2>1. t \in Nat /\ t \in 0 .. NumProcs - 1
    BY RankFacts DEF Rank
  <2>2. t \div k \in Nat /\ first(t) \in Nat /\ first(t) <= t
    BY <2>1, Division
  <2>3. first(t) \in Rank
    BY <2>1, <2>2, RankFacts DEF Rank
  <2>4. PICK low \in Nat : low = (t \div k) * k
    BY <2>2
  <2>5. low \div k = t \div k
    BY <2>2, <2>4, Quotient
  <2>. QED  BY <2>2, <2>3, <2>4, <2>5
<1>2. NumProcs % k = 0
  <2>1. PICK m \in Nat \ {0} : m * k = NumProcs
    BY GroupSize
  <2>2. PICK n \in Nat : n = NumProcs
    BY RankFacts
  <2>3. n \div k = m
    BY <2>1, <2>2, Quotient, SMT
  <2>. QED  BY <2>1, <2>2, <2>3, Division
<1>3. \A a, b \in Nat : b < a => b \div k <= a \div k
  BY SMT
<1> HIDE DEF first
<1>4. ASSUME NEW t \in Rank, \A y \in Rank : y < t => y \in c[first(y)]
      PROVE  \E u \in c[t] : Numbers(c)[u] = 0 /\ u \div k = t \div k
  <2>1. 0 \in 0 .. Cardinality(c[t]) - 1
    BY DEF Even
  <2>2. PICK u \in c[t] : u \in Rank /\ Numbers(c)[u] = 0
    BY <2>1, NumbersOnto
  <2>3. u \in Nat /\ t \in Nat
    BY <2>2, RankFacts
  <2>4. ~ (t < u)
    <3>1. t < u => Numbers(c)[t] < Numbers(c)[u]
      BY <2>2, NumbersOrder
    <3>. QED  BY <2>2, <3>1, IndexType
  <2>5. SUFFICES ASSUME u \div k < t \div k PROVE FALSE
    <3>1. u \div k \in Nat /\ t \div k \in Nat
      BY <2>3, Division
    <3>2. u = t \/ u < t
      BY <2>3, <2>4
    <3>3. u \div k <= t \div k
      BY <1>3, <2>3, <3>1, <3>2
    <3>. QED  BY <2>2, <3>1, <3>3
  <2>6. ASSUME NEW y \in Blocks(k)[u] PROVE y \in c[t]
    <3>1. y \in Rank /\ y \div k = u \div k
      BY <2>2, BlockOf, ClassFinite
    <3>2. y \in Nat /\ y < t /\ u < t
      <4>1. y \in Nat
        BY <3>1, RankFacts
      <4>2. ASSUME NEW z \in Nat, z \div k < t \div k PROVE z < t
        <5>1. z \div k \in Nat /\ t \div k \in Nat
          BY <2>3, Division
        <5>2. t < z => t \div k <= z \div k
          BY <1>3, <2>3
        <5>. QED  BY <2>3, <4>2, <5>1, <5>2
      <4>. QED  BY <2>3, <2>5, <3>1, <4>1, <4>2
    <3>3. y \in c[first(y)] /\ u \in c[first(u)]
      BY <1>4, <2>2, <3>1, <3>2
    <3>4. first(y) = first(u) /\ first(u) \in Rank
      BY <1>1, <2>2, <3>1 DEF first
    <3>. QED  BY <2>2, <3>3, <3>4 DEF Partition
  <2>7. Cardinality(Blocks(k)[u]) = k /\ Cardinality(c[t]) = k /\ IsFiniteSet(c[t])
    BY <1>2, <2>2, BlocksEven, ClassFinite DEF Even
  <2>8. Blocks(k)[u] = c[t]
    <3>1. Blocks(k)[u] \in SUBSET c[t]
      BY <2>6
    <3>. QED  BY <2>7, <3>1, FS_Subset
  <2>9. t \div k = u \div k
    BY <2>2, <2>8, BlockOf DEF Partition
  <2>10. u \div k \in Nat
    BY <2>3, Division
  <2>. QED  BY <2>5, <2>9, <2>10
<1>5. \A t \in Rank : t \in c[first(t)]
  <2>1. SUFFICES ASSUME { t \in Rank : t \notin c[first(t)] } # {} PROVE FALSE
    OBVIOUS
  <2> DEFINE S == { t \in Rank : t \notin c[first(t)] }
  <2>2. S \subseteq Nat
    BY RankFacts
  <2>3. PICK t \in S : \A y \in S : ~ (y < t)
    <3> HIDE DEF S
    <3>. QED  BY <2>1, <2>2, LeastOf DEF S
  <2>4. \A y \in Rank : y < t => y \in c[first(y)]
    BY <2>3
  <2>5. t \in Rank /\ first(t) \in Rank /\ first(t) <= t /\ first(t) \div k = t \div k
    BY <1>1
  <2>6. PICK u \in c[t] : Numbers(c)[u] = 0 /\ u \div k = t \div k
    BY <1>4, <2>4, <2>5
  <2>7. \A y \in Rank : y < first(t) => y < t
    BY <2>5, RankFacts
  <2>8. PICK v \in c[first(t)] : Numbers(c)[v] = 0 /\ v \div k = t \div k
    BY <1>4, <2>4, <2>5, <2>7
  <2>9. u \in Rank /\ v \in Rank
    BY <2>5, ClassFinite
  <2>10. u = v
    BY <2>6, <2>8, <2>9, NodeIsBlock, IndexInjective DEF IndexOf
  <2>11. t \in c[first(t)]
    BY <2>5, <2>9, <2>10 DEF Partition
  <2>. QED  BY <2>11
<1>6. first(s) = first(r) /\ first(r) \in Rank
  BY <1>1 DEF first
<1>7. s \in c[first(r)] /\ r \in c[first(r)]
  BY <1>5, <1>6
<1>. QED  BY <1>6, <1>7 DEF Partition

(* Leaders whose ranks divide those of a node lead ranks of one node. *)
LEMMA LeadersInside ==
  ASSUME NEW c, Partition(c), NEW k \in Nat \ {0}, Even(c, k), NodesAscend(c),
         NEW n \in Nat \ {0}, k % n = 0, NEW r \in Rank
  PROVE  Blocks(n)[r] \subseteq c[r]
<1> SUFFICES ASSUME NEW s \in Blocks(n)[r] PROVE s \in c[r]
  OBVIOUS
<1>1. s \in Rank /\ s \div n = r \div n
  BY BlockOf, ClassFinite
<1>2. s \div k = r \div k
  BY <1>1, RankFacts, NestedBlocks
<1>. QED  BY <1>1, <1>2, BlockInClass
-----------------------------------------------------------------------------
(* What the functions change in the object. *)
Maps == {"toLocal", "toNode", "ordered", "ppn", "num_nodes"}
ObjectFields ==
  {"comm", "heap", "win", "win_bytes", "win_type_bytes", "n_requests", "tag", "lost", "misuse"}
    \cup Maps

Object(x) == x = [f \in ObjectFields |-> x[f]]
OnlyIn(x, y, S) == \A f \in ObjectFields \ S : y[f] = x[f]

Typed(x) ==
  /\ Object(x)
  /\ x.comm \in [CommFields -> [Rank -> SUBSET Rank]]
  /\ x.heap \in [Arrays -> {"null", "live", "dangling"}]
  /\ x.win \in BOOLEAN
  /\ x.n_requests \in RequestArgs \cup {0}
  /\ x.win_bytes \in WinArgs \cup {0}
  /\ x.tag \in 0 .. MaxTag - 1
  /\ x.ppn = << >> \/ x.ppn \in [Rank -> 1 .. NumProcs]
  /\ x.lost \subseteq CommFields \cup Arrays \cup {"win"}

LEMMA Overwritten ==
  ASSUME NEW x, Object(x), NEW new
  PROVE  LET y == Overwrite(x, new) IN
         /\ Object(y) /\ OnlyIn(x, y, {"comm", "lost"})
         /\ y.comm = [f \in CommFields |-> IF f \in DOMAIN new THEN new[f] ELSE x.comm[f]]
         /\ y.lost = x.lost \cup { f \in DOMAIN new : x.comm[f] # Null }
BY DEF Overwrite, Object, OnlyIn, ObjectFields

LEMMA CommsFreed ==
  ASSUME NEW x, Object(x), NEW S
  PROVE  LET y == FreeComms(x, S) IN
         /\ Object(y) /\ OnlyIn(x, y, {"comm"})
         /\ y.comm = [f \in CommFields |-> IF f \in S THEN Null ELSE x.comm[f]]
BY DEF FreeComms, Object, OnlyIn, ObjectFields

LEMMA Allocated ==
  ASSUME NEW x, Object(x), NEW S
  PROVE  LET y == Allocate(x, S) IN
         /\ Object(y) /\ OnlyIn(x, y, {"heap", "lost"})
         /\ y.heap = [a \in Arrays |-> IF a \in S THEN "live" ELSE x.heap[a]]
         /\ y.lost = x.lost \cup { a \in S : x.heap[a] = "live" }
BY DEF Allocate, Object, OnlyIn, ObjectFields

LEMMA Reallocated ==
  ASSUME NEW x, Object(x), NEW S
  PROVE  LET y == Realloc(x, S) IN
         /\ Object(y) /\ OnlyIn(x, y, {"heap", "misuse"})
         /\ y.heap = [a \in Arrays |-> IF a \in S THEN "live" ELSE x.heap[a]]
         /\ y.misuse = x.misuse \cup { a \in S : x.heap[a] = "dangling" }
BY DEF Realloc, Object, OnlyIn, ObjectFields

LEMMA Released ==
  ASSUME NEW x, Object(x), NEW S
  PROVE  LET y == Release(x, S) IN
         /\ Object(y) /\ OnlyIn(x, y, {"heap", "misuse"})
         /\ y.heap = [a \in Arrays |->
                        IF a \in S /\ x.heap[a] = "live" THEN "dangling" ELSE x.heap[a]]
         /\ y.misuse = x.misuse \cup { a \in S : x.heap[a] = "dangling" }
BY DEF Release, Object, OnlyIn, ObjectFields

LEMMA MapsFilled ==
  ASSUME NEW x, Object(x), NEW n, NEW c, x.comm["local_comm"] = c,
         x.comm["group_comm"] = Group(c)
  PROVE  /\ Object(FillMaps(x, n)) /\ OnlyIn(x, FillMaps(x, n), Maps \cup {"misuse"})
         /\ FillMaps(x, n).toLocal = Numbers(c) /\ FillMaps(x, n).toNode = Numbers(Group(c))
         /\ FillMaps(x, n).ppn = Sizes(c)
         /\ FillMaps(x, n).ordered =
              [r \in Rank |-> Ordered(Numbers(Group(c)), Numbers(c), n[r])]
         /\ FillMaps(x, n).misuse = x.misuse \cup Overrun(Numbers(Group(c)), Numbers(c), n)
BY DEF FillMaps, Object, OnlyIn, ObjectFields, Maps

LEMMA WinFreed ==
  ASSUME NEW x, Object(x)
  PROVE  LET y == win_free(x) IN
         /\ Object(y)
         /\ OnlyIn(x, y, {"heap", "misuse", "win", "win_bytes", "win_type_bytes"})
         /\ y.heap = [a \in Arrays |->
                        IF a = "win_array" /\ x.heap[a] = "live" THEN "dangling" ELSE x.heap[a]]
         /\ y.misuse = x.misuse \cup { a \in {"win_array"} : x.heap[a] = "dangling" }
         /\ y.win = FALSE /\ y.win_bytes = 0
<1> DEFINE z == Release(x, {"win_array"})
<1>1. /\ Object(z) /\ OnlyIn(x, z, {"heap", "misuse"})
      /\ z.heap = [a \in Arrays |->
                     IF a = "win_array" /\ x.heap[a] = "live" THEN "dangling" ELSE x.heap[a]]
      /\ z.misuse = x.misuse \cup { a \in {"win_array"} : x.heap[a] = "dangling" }
  BY Released
<1> HIDE DEF z
<1>2. win_free(x) = [z EXCEPT !.win = FALSE, !.win_bytes = 0, !.win_type_bytes = 0]
  BY DEF win_free, z
<1>. QED  BY <1>1, <1>2 DEF Object, OnlyIn, ObjectFields

LEMMA WinMade ==
  ASSUME NEW x, Object(x), NEW bytes
  PROVE  LET y == win_init(x, bytes, 1) IN
         /\ Object(y)
         /\ OnlyIn(x, y, {"heap", "lost", "win", "win_bytes", "win_type_bytes"})
         /\ y.heap = [a \in Arrays |-> IF a = "win_array" THEN "live" ELSE x.heap[a]]
         /\ y.lost \subseteq x.lost \cup {"win_array", "win"}
         /\ y.win = TRUE /\ y.win_bytes = bytes
<1> DEFINE z == Allocate(x, {"win_array"})
<1>1. /\ Object(z) /\ OnlyIn(x, z, {"heap", "lost"})
      /\ z.heap = [a \in Arrays |-> IF a = "win_array" THEN "live" ELSE x.heap[a]]
      /\ z.lost = x.lost \cup { a \in {"win_array"} : x.heap[a] = "live" }
  BY Allocated
<1> HIDE DEF z
<1>2. win_init(x, bytes, 1) =
        [z EXCEPT !.win = TRUE, !.win_bytes = bytes, !.win_type_bytes = 1,
                  !.lost = @ \cup { w \in {"win"} : x.win }]
  BY DEF win_init, z
<1> DEFINE y == win_init(x, bytes, 1)
<1>3. /\ Object(y) /\ OnlyIn(z, y, {"lost", "win", "win_bytes", "win_type_bytes"})
      /\ y.lost = z.lost \cup { w \in {"win"} : x.win }
      /\ y.win = TRUE /\ y.win_bytes = bytes
  BY <1>1, <1>2 DEF Object, OnlyIn, ObjectFields
<1> HIDE DEF y
<1>4. OnlyIn(x, y, {"heap", "lost", "win", "win_bytes", "win_type_bytes"})
  BY <1>1, <1>3 DEF OnlyIn
<1>5. y.heap = z.heap
  BY <1>3 DEF OnlyIn, ObjectFields
<1>6. y.lost \subseteq x.lost \cup {"win_array", "win"}
  BY <1>1, <1>3
<1>. QED  BY <1>1, <1>3, <1>4, <1>5, <1>6 DEF y
-----------------------------------------------------------------------------
(* The topology a call leaves behind: communicators and maps of c, the      *)
(* latter made for n[r] processes per node on rank r.                       *)
Reshaped(x, y, c, n) ==
  /\ Object(y)
  /\ OnlyIn(x, y, Maps \cup {"comm", "heap", "misuse", "lost"})
  /\ y.comm = [f \in CommFields |-> CASE f = "local_comm" -> c
                                      [] f = "group_comm" -> Group(c)
                                      [] OTHER -> x.comm[f]]
  /\ y.heap = [a \in Arrays |-> IF a \in TopoArrays THEN "live" ELSE x.heap[a]]
  /\ y.toLocal = Numbers(c) /\ y.toNode = Numbers(Group(c)) /\ y.ppn = Sizes(c)
  /\ y.ordered = [r \in Rank |-> Ordered(Numbers(Group(c)), Numbers(c), n[r])]
  /\ y.lost \subseteq x.lost \cup CommFields \cup Arrays

LEMMA TopologyOf ==
  ASSUME NEW c
  PROVE  /\ DOMAIN Topology(c) = {"local_comm", "group_comm"}
         /\ Topology(c)["local_comm"] = c /\ Topology(c)["group_comm"] = Group(c)
BY DEF Topology, Group

LEMMA TopoInitEffect ==
  ASSUME NEW x, Object(x)
  PROVE  LET c == OnHost(host) IN
         /\ Reshaped(x, topo_init(x), c, Sizes(c))
         /\ topo_init(x).misuse = x.misuse \cup Overrun(Numbers(Group(c)), Numbers(c), Sizes(c))
<1> DEFINE c == OnHost(host)
           u == Overwrite(x, Topology(c))
           v == Allocate(u, TopoArrays)
           y == FillMaps(v, Sizes(c))
<1>1. topo_init(x) = y
  BY DEF topo_init, OnHost
<1> HIDE DEF c
<1>2. /\ Object(u) /\ OnlyIn(x, u, {"comm", "lost"})
      /\ u.comm = [f \in CommFields |-> IF f \in DOMAIN Topology(c) THEN Topology(c)[f]
                                        ELSE x.comm[f]]
      /\ u.lost = x.lost \cup { f \in DOMAIN Topology(c) : x.comm[f] # Null }
  BY Overwritten
<1> HIDE DEF u
<1>3. /\ Object(v) /\ OnlyIn(u, v, {"heap", "lost"})
      /\ v.heap = [a \in Arrays |-> IF a \in TopoArrays THEN "live" ELSE u.heap[a]]
      /\ v.lost = u.lost \cup { a \in TopoArrays : u.heap[a] = "live" }
  BY <1>2, Allocated
<1> HIDE DEF v
<1>4. /\ u.comm["local_comm"] = c /\ u.comm["group_comm"] = Group(c)
      /\ u.comm = [f \in CommFields |-> CASE f = "local_comm" -> c
                                          [] f = "group_comm" -> Group(c)
                                          [] OTHER -> x.comm[f]]
  BY <1>2, TopologyOf DEF CommFields
<1>5. v.comm = u.comm /\ u.heap = x.heap /\ v.misuse = x.misuse
  BY <1>2, <1>3 DEF OnlyIn, ObjectFields
<1>6. /\ Object(y) /\ OnlyIn(v, y, Maps \cup {"misuse"})
      /\ y.toLocal = Numbers(c) /\ y.toNode = Numbers(Group(c)) /\ y.ppn = Sizes(c)
      /\ y.ordered = [r \in Rank |-> Ordered(Numbers(Group(c)), Numbers(c), Sizes(c)[r])]
      /\ y.misuse = v.misuse \cup Overrun(Numbers(Group(c)), Numbers(c), Sizes(c))
  <2>1. v.comm["local_comm"] = c /\ v.comm["group_comm"] = Group(c)
    BY <1>4, <1>5
  <2>. QED  BY <1>3, <2>1, MapsFilled
<1> HIDE DEF y
<1>7. OnlyIn(x, y, Maps \cup {"comm", "heap", "misuse", "lost"})
  BY <1>2, <1>3, <1>6 DEF OnlyIn
<1>8. y.comm = v.comm /\ y.heap = v.heap /\ y.lost = v.lost
  BY <1>6 DEF OnlyIn, ObjectFields, Maps
<1>9. v.lost \subseteq x.lost \cup CommFields \cup Arrays
  BY <1>2, <1>3, TopologyOf DEF CommFields, Arrays
<1>10. Reshaped(x, y, c, Sizes(c))
  BY <1>3, <1>4, <1>5, <1>6, <1>7, <1>8, <1>9 DEF Reshaped
<1>. QED  BY <1>1, <1>5, <1>6, <1>10 DEF c

LEMMA UpdateLocalityEffect ==
  ASSUME NEW x, Object(x), NEW ppn
  PROVE  LET c == Blocks(ppn)
             y == update_locality(x, ppn)
             n == [r \in Rank |-> ppn]
         IN  /\ Reshaped(x, y, c, n)
             /\ y.misuse = x.misuse \cup { a \in TopoArrays : x.heap[a] = "dangling" }
                                    \cup Overrun(Numbers(Group(c)), Numbers(c), n)
<1> DEFINE c == Blocks(ppn)
           n == [r \in Rank |-> ppn]
           w == FreeComms(x, {"local_comm", "group_comm"})
           u == Overwrite(w, Topology(c))
           v == Realloc(u, TopoArrays)
           y == FillMaps(v, n)
<1>1. update_locality(x, ppn) = y
  BY DEF update_locality, Blocks
<1> HIDE DEF c, n
<1>2. /\ Object(w) /\ OnlyIn(x, w, {"comm"})
      /\ w.comm = [f \in CommFields |-> IF f \in {"local_comm", "group_comm"} THEN Null
                                        ELSE x.comm[f]]
  BY CommsFreed
<1> HIDE DEF w
<1>3. /\ Object(u) /\ OnlyIn(w, u, {"comm", "lost"})
      /\ u.comm = [f \in CommFields |-> IF f \in DOMAIN Topology(c) THEN Topology(c)[f]
                                        ELSE w.comm[f]]
      /\ u.lost = w.lost \cup { f \in DOMAIN Topology(c) : w.comm[f] # Null }
  BY <1>2, Overwritten
<1> HIDE DEF u
<1>4. /\ Object(v) /\ OnlyIn(u, v, {"heap", "misuse"})
      /\ v.heap = [a \in Arrays |-> IF a \in TopoArrays THEN "live" ELSE u.heap[a]]
      /\ v.misuse = u.misuse \cup { a \in TopoArrays : u.heap[a] = "dangling" }
  BY <1>3, Reallocated
<1> HIDE DEF v
<1>5. /\ u.comm["local_comm"] = c /\ u.comm["group_comm"] = Group(c)
      /\ u.comm = [f \in CommFields |-> CASE f = "local_comm" -> c
                                          [] f = "group_comm" -> Group(c)
                                          [] OTHER -> x.comm[f]]
  BY <1>2, <1>3, TopologyOf DEF CommFields
<1>6. /\ v.comm = u.comm /\ u.heap = x.heap /\ v.lost = u.lost /\ u.misuse = x.misuse
      /\ w.lost = x.lost
  BY <1>2, <1>3, <1>4 DEF OnlyIn, ObjectFields
<1>7. /\ Object(y) /\ OnlyIn(v, y, Maps \cup {"misuse"})
      /\ y.toLocal = Numbers(c) /\ y.toNode = Numbers(Group(c)) /\ y.ppn = Sizes(c)
      /\ y.ordered = [r \in Rank |-> Ordered(Numbers(Group(c)), Numbers(c), n[r])]
      /\ y.misuse = v.misuse \cup Overrun(Numbers(Group(c)), Numbers(c), n)
  <2>1. v.comm["local_comm"] = c /\ v.comm["group_comm"] = Group(c)
    BY <1>5, <1>6
  <2> HIDE DEF y
  <2>2. Object(v)
    BY <1>4
  <2>3. \A m : /\ Object(FillMaps(v, m)) /\ OnlyIn(v, FillMaps(v, m), Maps \cup {"misuse"})
               /\ FillMaps(v, m).toLocal = Numbers(c) /\ FillMaps(v, m).toNode = Numbers(Group(c))
               /\ FillMaps(v, m).ppn = Sizes(c)
               /\ FillMaps(v, m).ordered =
                    [r \in Rank |-> Ordered(Numbers(Group(c)), Numbers(c), m[r])]
               /\ FillMaps(v, m).misuse = v.misuse \cup Overrun(Numbers(Group(c)), Numbers(c), m)
    BY <2>1, <2>2, MapsFilled
  <2>. QED  BY <2>3, Zenon DEF y
<1> HIDE DEF y
<1>8. OnlyIn(x, y, Maps \cup {"comm", "heap", "misuse", "lost"})
  BY <1>2, <1>3, <1>4, <1>7 DEF OnlyIn
<1>9. y.comm = v.comm /\ y.heap = v.heap /\ y.lost = v.lost
  BY <1>7 DEF OnlyIn, ObjectFields, Maps
<1>10. v.lost \subseteq x.lost \cup CommFields \cup Arrays
  BY <1>3, <1>6, TopologyOf DEF CommFields, Arrays
<1>11. Reshaped(x, y, c, n)
  BY <1>4, <1>5, <1>6, <1>7, <1>8, <1>9, <1>10 DEF Reshaped
<1>12. y.misuse = x.misuse \cup { a \in TopoArrays : x.heap[a] = "dangling" }
                           \cup Overrun(Numbers(Group(c)), Numbers(c), n)
  BY <1>4, <1>6, <1>7
<1>. QED  BY <1>1, <1>11, <1>12 DEF c, n

LEMMA TopoFreeEffect ==
  ASSUME NEW x, Object(x)
  PROVE  LET y == topo_free(x) IN
         /\ Object(y) /\ OnlyIn(x, y, {"comm", "heap", "misuse"})
         /\ y.comm = [f \in CommFields |-> IF f \in {"local_comm", "group_comm"} THEN Null
                                           ELSE x.comm[f]]
         /\ y.heap = [a \in Arrays |-> IF a \in TopoArrays /\ x.heap[a] = "live"
                                       THEN "dangling" ELSE x.heap[a]]
         /\ y.misuse = x.misuse \cup { a \in TopoArrays : x.heap[a] = "dangling" }
<1> DEFINE u == FreeComms(x, {"local_comm", "group_comm"})
           y == Release(u, TopoArrays)
<1>1. topo_free(x) = y
  BY DEF topo_free
<1>2. /\ Object(u) /\ OnlyIn(x, u, {"comm"})
      /\ u.comm = [f \in CommFields |-> IF f \in {"local_comm", "group_comm"} THEN Null
                                        ELSE x.comm[f]]
  BY CommsFreed
<1> HIDE DEF u
<1>3. /\ Object(y) /\ OnlyIn(u, y, {"heap", "misuse"})
      /\ y.heap = [a \in Arrays |->
                     IF a \in TopoArrays /\ u.heap[a] = "live" THEN "dangling" ELSE u.heap[a]]
      /\ y.misuse = u.misuse \cup { a \in TopoArrays : u.heap[a] = "dangling" }
  BY <1>2, Released
<1> HIDE DEF y
<1>4. u.heap = x.heap /\ u.misuse = x.misuse /\ y.comm = u.comm
  BY <1>2, <1>3 DEF OnlyIn, ObjectFields
<1>5. OnlyIn(x, y, {"comm", "heap", "misuse"})
  BY <1>2, <1>3 DEF OnlyIn
<1>. QED  BY <1>1, <1>2, <1>3, <1>4, <1>5
-----------------------------------------------------------------------------
(* Parts of the object that a function leaves alone. *)
KeepsTopology(x, y) ==
  /\ y.comm["local_comm"] = x.comm["local_comm"] /\ y.comm["group_comm"] = x.comm["group_comm"]
  /\ y.toLocal = x.toLocal /\ y.toNode = x.toNode /\ y.ppn = x.ppn /\ y.ordered = x.ordered
  /\ y.heap["ordered_global_ranks"] = x.heap["ordered_global_ranks"]
KeepsLeaders(x, y) ==
  /\ y.comm["leader_comm"] = x.comm["leader_comm"]
  /\ y.comm["leader_group_comm"] = x.comm["leader_group_comm"]
  /\ y.comm["leader_local_comm"] = x.comm["leader_local_comm"]
KeepsMemory(x, y) ==
  /\ y.misuse = x.misuse /\ y.win = x.win
  /\ \A a \in {"requests", "statuses", "win_array"} : y.heap[a] = x.heap[a]

LEMMA ReshapedTyped ==
  ASSUME NEW x, Typed(x), NEW c, Partition(c), NEW n, NEW y, Reshaped(x, y, c, n)
  PROVE  Typed(y) /\ KeepsLeaders(x, y)
<1>1. /\ y.win = x.win /\ y.n_requests = x.n_requests /\ y.win_bytes = x.win_bytes
      /\ y.tag = x.tag
  BY DEF Reshaped, OnlyIn, ObjectFields, Maps
<1>2. Partition(Group(c)) /\ c \in [Rank -> SUBSET Rank] /\ Group(c) \in [Rank -> SUBSET Rank]
  BY GroupOf DEF Partition
<1>3. Sizes(c) \in [Rank -> 1 .. NumProcs]
  BY ClassFinite DEF Sizes
<1>4. y.comm \in [CommFields -> [Rank -> SUBSET Rank]] /\ KeepsLeaders(x, y)
  BY <1>2 DEF Reshaped, Typed, KeepsLeaders, CommFields
<1>5. y.heap \in [Arrays -> {"null", "live", "dangling"}]
  BY DEF Reshaped, Typed
<1>6. Object(y) /\ y.ppn = Sizes(c) /\ y.lost \subseteq CommFields \cup Arrays \cup {"win"}
  BY DEF Reshaped, Typed
<1>. QED  BY <1>1, <1>3, <1>4, <1>5, <1>6 DEF Typed

LEMMA HostPartition ==
  ASSUME NEW h
  PROVE  Partition(OnHost(h))
BY SplitWorld DEF OnHost

LEMMA BlocksPartition ==
  ASSUME NEW n
  PROVE  Partition(Blocks(n))
BY SplitWorld DEF Blocks

LEMMA WithTopologyEffect ==
  ASSUME NEW x, Typed(x)
  PROVE  LET y == WithTopology(x) IN
         /\ Typed(y) /\ KeepsLeaders(x, y) /\ y.comm["local_comm"] # Null
         /\ x.comm["local_comm"] # Null => y = x
         /\ y.tag = x.tag /\ y.win = x.win
         /\ \A a \in {"requests", "statuses", "win_array"} : y.heap[a] = x.heap[a]
<1>1. CASE x.comm["local_comm"] = Null
  <2> DEFINE y == topo_init(x)
             c == OnHost(host)
  <2>1. Reshaped(x, y, c, Sizes(c)) /\ Partition(c)
    BY TopoInitEffect, HostPartition DEF Typed
  <2>2. WithTopology(x) = y
    BY <1>1 DEF WithTopology
  <2> HIDE DEF y, c
  <2>3. Typed(y) /\ KeepsLeaders(x, y)
    BY <2>1, ReshapedTyped
  <2>4. y.comm["local_comm"] # Null
    BY <2>1, NotNull DEF Reshaped, CommFields
  <2>5. y.tag = x.tag /\ y.win = x.win
    BY <2>1 DEF Reshaped, OnlyIn, ObjectFields, Maps
  <2>6. \A a \in {"requests", "statuses", "win_array"} : y.heap[a] = x.heap[a]
    BY <2>1 DEF Reshaped, Arrays, TopoArrays
  <2>. QED  BY <1>1, <2>2, <2>3, <2>4, <2>5, <2>6
<1>2. CASE x.comm["local_comm"] # Null
  <2>1. WithTopology(x) = x
    BY <1>2 DEF WithTopology
  <2>. QED  BY <1>2, <2>1 DEF KeepsLeaders
<1>. QED  BY <1>1, <1>2

(* The leaders are made for ppl ranks each, over the local communicator     *)
(* that is there, or is made first.                                         *)
LEMMA LeaderInitEffect ==
  ASSUME NEW x, Typed(x), NEW ppl
  PROVE  LET y == WithTopology(x)
             z == leader_init(x, ppl)
         IN  /\ Typed(z) /\ KeepsTopology(y, z) /\ KeepsMemory(y, z)
             /\ z.comm["leader_comm"] = Split(World, LeaderColor(ppl))
             /\ z.comm["leader_group_comm"] = Group(Split(World, LeaderColor(ppl)))
             /\ z.comm["leader_local_comm"] =
                  Split(y.comm["local_comm"], Numbers(Split(World, LeaderColor(ppl))))
<1> DEFINE y == WithTopology(x)
           leader == Split(World, LeaderColor(ppl))
           local == Split(y.comm["local_comm"], Numbers(leader))
           new == [leader_comm |-> leader, leader_group_comm |-> Split(World, Numbers(leader)),
                   leader_local_comm |-> local]
           z == Overwrite(y, new)
<1>1. leader_init(x, ppl) = z
  BY DEF leader_init
<1>2. Typed(y)
  BY WithTopologyEffect
<1>3. DOMAIN new = LeaderComms
  BY DEF LeaderComms
<1>4. Partition(leader) /\ Partition(Group(leader)) /\ Group(leader) = Split(World, Numbers(leader))
  <2>1. Partition(leader)
    BY SplitWorld
  <2> HIDE DEF leader
  <2>. QED  BY <2>1, GroupOf DEF Group
<1>5. local \in [Rank -> SUBSET Rank]
  <2>1. y.comm["local_comm"] \in [Rank -> SUBSET Rank]
    BY <1>2 DEF Typed, CommFields
  <2> HIDE DEF y, leader
  <2>. QED  BY <2>1 DEF Split
<1> HIDE DEF y, leader, local
<1>6. /\ new["leader_comm"] = leader /\ new["leader_group_comm"] = Group(leader)
      /\ new["leader_local_comm"] = local
  BY <1>4
<1> HIDE DEF new
<1>7. /\ Object(z) /\ OnlyIn(y, z, {"comm", "lost"})
      /\ z.comm = [f \in CommFields |-> IF f \in LeaderComms THEN new[f] ELSE y.comm[f]]
      /\ z.lost = y.lost \cup { f \in LeaderComms : y.comm[f] # Null }
  <2>1. /\ Object(z) /\ OnlyIn(y, z, {"comm", "lost"})
        /\ z.comm = [f \in CommFields |-> IF f \in DOMAIN new THEN new[f] ELSE y.comm[f]]
        /\ z.lost = y.lost \cup { f \in DOMAIN new : y.comm[f] # Null }
    BY <1>2, Overwritten DEF Typed
  <2> HIDE DEF z
  <2>. QED  BY <2>1, <1>3
<1> HIDE DEF z
<1>8. /\ z.comm["leader_comm"] = leader /\ z.comm["leader_group_comm"] = Group(leader)
      /\ z.comm["leader_local_comm"] = local
      /\ z.comm["local_comm"] = y.comm["local_comm"]
      /\ z.comm["group_comm"] = y.comm["group_comm"]
      /\ z.comm["neighbor_comm"] = y.comm["neighbor_comm"]
  BY <1>6, <1>7 DEF CommFields, LeaderComms
<1>9. z.comm \in [CommFields -> [Rank -> SUBSET Rank]]
  <2>1. leader \in [Rank -> SUBSET Rank] /\ Group(leader) \in [Rank -> SUBSET Rank]
    BY <1>4 DEF Partition
  <2>2. \A f \in CommFields : z.comm[f] \in [Rank -> SUBSET Rank]
    BY <1>2, <1>5, <1>8, <2>1 DEF CommFields, Typed
  <2>. QED  BY <1>7, <2>2
<1>10. /\ z.heap = y.heap /\ z.win = y.win /\ z.n_requests = y.n_requests
       /\ z.win_bytes = y.win_bytes /\ z.tag = y.tag /\ z.misuse = y.misuse
       /\ z.toLocal = y.toLocal /\ z.toNode = y.toNode /\ z.ppn = y.ppn /\ z.ordered = y.ordered
  BY <1>7 DEF OnlyIn, ObjectFields, Maps
<1>11. z.lost \subseteq CommFields \cup Arrays \cup {"win"}
  BY <1>2, <1>7 DEF Typed, CommFields, LeaderComms
<1>12. Typed(z)
  BY <1>2, <1>7, <1>9, <1>10, <1>11 DEF Typed
<1>. QED  BY <1>1, <1>8, <1>10, <1>12 DEF KeepsTopology, KeepsMemory, y, leader, local

LEMMA FreeStaleEffect ==
  ASSUME NEW x, Typed(x), NEW ppl
  PROVE  LET y == FreeStale(x, ppl) IN
         /\ Typed(y) /\ KeepsTopology(x, y) /\ KeepsMemory(x, y)
         /\ y.comm["leader_comm"] =
              [r \in Rank |-> IF Cardinality(x.comm["leader_comm"][r]) = ppl[r]
                              THEN x.comm["leader_comm"][r] ELSE {}]
         /\ y.comm["leader_group_comm"] = x.comm["leader_group_comm"]
         /\ y.comm["leader_local_comm"] = x.comm["leader_local_comm"]
<1> DEFINE y == FreeStale(x, ppl)
           stale == [r \in Rank |-> IF Cardinality(x.comm["leader_comm"][r]) = ppl[r]
                                    THEN x.comm["leader_comm"][r] ELSE {}]
<1>1. x.comm["leader_comm"] \in [Rank -> SUBSET Rank] /\ Object(x)
  BY DEF Typed, CommFields
<1>2. stale \in [Rank -> SUBSET Rank]
  BY <1>1
<1>3. y = [x EXCEPT !.comm["leader_comm"] = stale]
  BY DEF FreeStale
<1> HIDE DEF y, stale
<1>4. /\ Object(y) /\ OnlyIn(x, y, {"comm"})
      /\ y.comm = [x.comm EXCEPT !["leader_comm"] = stale]
  BY <1>1, <1>3 DEF Object, OnlyIn, ObjectFields
<1>5. /\ y.comm \in [CommFields -> [Rank -> SUBSET Rank]] /\ y.comm["leader_comm"] = stale
      /\ \A f \in CommFields \ {"leader_comm"} : y.comm[f] = x.comm[f]
  BY <1>2, <1>4 DEF Typed, CommFields
<1>6. /\ y.heap = x.heap /\ y.win = x.win /\ y.n_requests = x.n_requests
      /\ y.win_bytes = x.win_bytes /\ y.tag = x.tag /\ y.misuse = x.misuse /\ y.lost = x.lost
      /\ y.toLocal = x.toLocal /\ y.toNode = x.toNode /\ y.ppn = x.ppn /\ y.ordered = x.ordered
  BY <1>4 DEF OnlyIn, ObjectFields, Maps
<1>7. Typed(y)
  BY <1>4, <1>5, <1>6 DEF Typed
<1>8. KeepsTopology(x, y) /\ KeepsMemory(x, y)
  BY <1>5, <1>6 DEF KeepsTopology, KeepsMemory, CommFields
<1>9. /\ y.comm["leader_group_comm"] = x.comm["leader_group_comm"]
      /\ y.comm["leader_local_comm"] = x.comm["leader_local_comm"]
  BY <1>5 DEF CommFields
<1>. QED  BY <1>5, <1>7, <1>8, <1>9 DEF y, stale

LEMMA GetTagEffect ==
  ASSUME NEW x, Typed(x)
  PROVE  LET y == get_tag(x) IN
         Typed(y) /\ KeepsTopology(x, y) /\ KeepsLeaders(x, y) /\ KeepsMemory(x, y)
<1> DEFINE y == get_tag(x)
<1>1. (x.tag + 1) % MaxTag \in 0 .. MaxTag - 1
  <2>1. MaxTag \in Nat \ {0}
    BY CommAssumption
  <2>2. PICK t \in Nat : t = x.tag
    BY <2>1 DEF Typed
  <2>3. (t + 1) % MaxTag \in 0 .. MaxTag - 1
    BY <2>1, SMT
  <2>. QED  BY <2>2, <2>3
<1>2. Object(y) /\ OnlyIn(x, y, {"tag"}) /\ y.tag = (x.tag + 1) % MaxTag
  BY DEF get_tag, Typed, Object, OnlyIn, ObjectFields
<1> HIDE DEF y
<1>3. /\ y.heap = x.heap /\ y.win = x.win /\ y.n_requests = x.n_requests
      /\ y.win_bytes = x.win_bytes /\ y.misuse = x.misuse /\ y.lost = x.lost /\ y.comm = x.comm
      /\ y.toLocal = x.toLocal /\ y.toNode = x.toNode /\ y.ppn = x.ppn /\ y.ordered = x.ordered
  BY <1>2 DEF OnlyIn, ObjectFields, Maps
<1>. QED  BY <1>1, <1>2, <1>3 DEF Typed, KeepsTopology, KeepsLeaders, KeepsMemory, y
-----------------------------------------------------------------------------
(* The functions on memory, requests and the window keep the types. *)
LEMMA NullType == Null \in [Rank -> SUBSET Rank]
BY DEF Null

LEMMA FreeCommsTyped ==
  ASSUME NEW x, Typed(x), NEW S
  PROVE  LET y == FreeComms(x, S) IN
         /\ Typed(y) /\ KeepsMemory(x, y) /\ y.heap = x.heap /\ y.n_requests = x.n_requests
         /\ y.comm = [f \in CommFields |-> IF f \in S THEN Null ELSE x.comm[f]]
         /\ y.toLocal = x.toLocal /\ y.toNode = x.toNode /\ y.ppn = x.ppn
         /\ y.ordered = x.ordered
<1> DEFINE y == FreeComms(x, S)
<1>1. /\ Object(y) /\ OnlyIn(x, y, {"comm"})
      /\ y.comm = [f \in CommFields |-> IF f \in S THEN Null ELSE x.comm[f]]
  BY CommsFreed DEF Typed
<1> HIDE DEF y
<1>2. /\ y.heap = x.heap /\ y.win = x.win /\ y.n_requests = x.n_requests
      /\ y.win_bytes = x.win_bytes /\ y.misuse = x.misuse /\ y.lost = x.lost /\ y.tag = x.tag
      /\ y.toLocal = x.toLocal /\ y.toNode = x.toNode /\ y.ppn = x.ppn /\ y.ordered = x.ordered
  BY <1>1 DEF OnlyIn, ObjectFields, Maps
<1>3. y.comm \in [CommFields -> [Rank -> SUBSET Rank]]
  BY <1>1, NullType DEF Typed
<1>. QED  BY <1>1, <1>2, <1>3 DEF Typed, KeepsMemory, y

LEMMA ReleaseTyped ==
  ASSUME NEW x, Typed(x), NEW S
  PROVE  LET y == Release(x, S) IN
         /\ Typed(y) /\ y.comm = x.comm /\ y.win = x.win
         /\ y.heap = [a \in Arrays |->
                        IF a \in S /\ x.heap[a] = "live" THEN "dangling" ELSE x.heap[a]]
         /\ y.misuse = x.misuse \cup { a \in S : x.heap[a] = "dangling" }
<1> DEFINE y == Release(x, S)
<1>1. /\ Object(y) /\ OnlyIn(x, y, {"heap", "misuse"})
      /\ y.heap = [a \in Arrays |->
                     IF a \in S /\ x.heap[a] = "live" THEN "dangling" ELSE x.heap[a]]
      /\ y.misuse = x.misuse \cup { a \in S : x.heap[a] = "dangling" }
  BY Released DEF Typed
<1> HIDE DEF y
<1>2. /\ y.comm = x.comm /\ y.win = x.win /\ y.n_requests = x.n_requests
      /\ y.win_bytes = x.win_bytes /\ y.lost = x.lost /\ y.tag = x.tag /\ y.ppn = x.ppn
  BY <1>1 DEF OnlyIn, ObjectFields, Maps
<1>3. y.heap \in [Arrays -> {"null", "live", "dangling"}]
  BY <1>1 DEF Typed
<1>. QED  BY <1>1, <1>2, <1>3 DEF Typed, y

LEMMA TopoFreeTyped ==
  ASSUME NEW x, Typed(x)
  PROVE  LET y == topo_free(x) IN
         /\ Typed(y) /\ KeepsLeaders(x, y) /\ y.win = x.win
         /\ y.comm["local_comm"] = Null /\ y.heap["ordered_global_ranks"] # "live"
         /\ \A a \in {"requests", "statuses", "win_array"} : y.heap[a] = x.heap[a]
         /\ y.misuse = x.misuse \cup { a \in TopoArrays : x.heap[a] = "dangling" }
<1> DEFINE u == FreeComms(x, {"local_comm", "group_comm"})
           y == Release(u, TopoArrays)
<1>1. topo_free(x) = y
  BY DEF topo_free
<1>2. /\ Typed(u) /\ KeepsMemory(x, u) /\ u.heap = x.heap
      /\ u.comm = [f \in CommFields |-> IF f \in {"local_comm", "group_comm"} THEN Null
                                        ELSE x.comm[f]]
  BY FreeCommsTyped
<1> HIDE DEF u
<1>3. /\ Typed(y) /\ y.comm = u.comm /\ y.win = u.win
      /\ y.heap = [a \in Arrays |->
                     IF a \in TopoArrays /\ u.heap[a] = "live" THEN "dangling" ELSE u.heap[a]]
      /\ y.misuse = u.misuse \cup { a \in TopoArrays : u.heap[a] = "dangling" }
  BY <1>2, ReleaseTyped
<1> HIDE DEF y
<1>4. KeepsLeaders(x, y) /\ y.comm["local_comm"] = Null
  BY <1>2, <1>3 DEF KeepsLeaders, CommFields
<1>5. /\ y.heap["ordered_global_ranks"] # "live"
      /\ \A a \in {"requests", "statuses", "win_array"} : y.heap[a] = x.heap[a]
  BY <1>2, <1>3 DEF Arrays, TopoArrays
<1>6. u.misuse = x.misuse /\ y.win = x.win
  BY <1>2, <1>3 DEF KeepsMemory
<1>. QED  BY <1>1, <1>2, <1>3, <1>4, <1>5, <1>6

LEMMA LeaderFreeTyped ==
  ASSUME NEW x, Typed(x)
  PROVE  LET y == leader_free(x) IN
         /\ Typed(y) /\ KeepsTopology(x, y) /\ KeepsMemory(x, y) /\ y.comm["leader_comm"] = Null
<1> DEFINE y == FreeComms(x, LeaderComms)
<1>1. leader_free(x) = y
  BY DEF leader_free
<1>2. /\ Typed(y) /\ KeepsMemory(x, y) /\ y.heap = x.heap
      /\ y.comm = [f \in CommFields |-> IF f \in LeaderComms THEN Null ELSE x.comm[f]]
      /\ y.toLocal = x.toLocal /\ y.toNode = x.toNode /\ y.ppn = x.ppn
      /\ y.ordered = x.ordered
  BY FreeCommsTyped
<1> HIDE DEF y
<1>3. y.comm["leader_comm"] = Null /\ y.comm["local_comm"] = x.comm["local_comm"]
        /\ y.comm["group_comm"] = x.comm["group_comm"]
  BY <1>2 DEF CommFields, LeaderComms
<1>. QED  BY <1>1, <1>2, <1>3 DEF KeepsTopology

(* What the other functions leave of the topology and the leaders. *)
KeepsComms(x, y) == KeepsTopology(x, y) /\ KeepsLeaders(x, y)

LEMMA WinFreeTyped ==
  ASSUME NEW x, Typed(x)
  PROVE  LET y == win_free(x) IN
         /\ Typed(y) /\ KeepsComms(x, y) /\ ~ y.win
         /\ \A a \in {"requests", "statuses"} : y.heap[a] = x.heap[a]
         /\ y.heap["win_array"] = IF x.heap["win_array"] = "live" THEN "dangling"
                                  ELSE x.heap["win_array"]
         /\ y.misuse = x.misuse \cup { a \in {"win_array"} : x.heap[a] = "dangling" }
<1> DEFINE y == win_free(x)
<1>1. /\ Object(y)
      /\ OnlyIn(x, y, {"heap", "misuse", "win", "win_bytes", "win_type_bytes"})
      /\ y.heap = [a \in Arrays |->
                     IF a = "win_array" /\ x.heap[a] = "live" THEN "dangling" ELSE x.heap[a]]
      /\ y.misuse = x.misuse \cup { a \in {"win_array"} : x.heap[a] = "dangling" }
      /\ y.win = FALSE /\ y.win_bytes = 0
  BY WinFreed DEF Typed
<1> HIDE DEF y
<1>2. /\ y.comm = x.comm /\ y.n_requests = x.n_requests /\ y.lost = x.lost /\ y.tag = x.tag
      /\ y.toLocal = x.toLocal /\ y.toNode = x.toNode /\ y.ppn = x.ppn /\ y.ordered = x.ordered
  BY <1>1 DEF OnlyIn, ObjectFields, Maps
<1>3. y.heap \in [Arrays -> {"null", "live", "dangling"}]
  BY <1>1 DEF Typed
<1>4. /\ \A a \in {"requests", "statuses", "ordered_global_ranks"} : y.heap[a] = x.heap[a]
      /\ y.heap["win_array"] = IF x.heap["win_array"] = "live" THEN "dangling"
                               ELSE x.heap["win_array"]
  BY <1>1 DEF Arrays, TopoArrays
<1>5. Typed(y)
  BY <1>1, <1>2, <1>3 DEF Typed
<1>. QED  BY <1>1, <1>2, <1>4, <1>5 DEF KeepsComms, KeepsTopology, KeepsLeaders, y

LEMMA WinInitTyped ==
  ASSUME NEW x, Typed(x), NEW bytes \in WinArgs
  PROVE  LET y == win_init(x, bytes, 1) IN
         /\ Typed(y) /\ KeepsComms(x, y) /\ y.misuse = x.misuse
         /\ \A a \in {"requests", "statuses"} : y.heap[a] = x.heap[a]
         /\ y.heap["win_array"] = "live"
<1> DEFINE y == win_init(x, bytes, 1)
<1>1. /\ Object(y)
      /\ OnlyIn(x, y, {"heap", "lost", "win", "win_bytes", "win_type_bytes"})
      /\ y.heap = [a \in Arrays |-> IF a = "win_array" THEN "live" ELSE x.heap[a]]
      /\ y.lost \subseteq x.lost \cup {"win_array", "win"}
      /\ y.win = TRUE /\ y.win_bytes = bytes
  <2>1. Object(x)
    BY DEF Typed
  <2>. QED  BY <2>1, WinMade
<1> HIDE DEF y
<1>2. /\ y.comm = x.comm /\ y.n_requests = x.n_requests /\ y.misuse = x.misuse /\ y.tag = x.tag
      /\ y.toLocal = x.toLocal /\ y.toNode = x.toNode /\ y.ppn = x.ppn /\ y.ordered = x.ordered
  BY <1>1 DEF OnlyIn, ObjectFields, Maps
<1>3. y.heap \in [Arrays -> {"null", "live", "dangling"}]
  BY <1>1 DEF Typed
<1>4. /\ \A a \in {"requests", "statuses", "ordered_global_ranks"} : y.heap[a] = x.heap[a]
      /\ y.heap["win_array"] = "live"
  BY <1>1 DEF Arrays, TopoArrays
<1>5. y.lost \subseteq CommFields \cup Arrays \cup {"win"}
  BY <1>1 DEF Typed, Arrays
<1>6. Typed(y)
  BY <1>1, <1>2, <1>3, <1>5 DEF Typed
<1>. QED  BY <1>1, <1>2, <1>4, <1>6 DEF KeepsComms, KeepsTopology, KeepsLeaders, y

LEMMA ReqResizeTyped ==
  ASSUME NEW x, Typed(x), NEW n \in RequestArgs
  PROVE  LET y == req_resize(x, n) IN
         /\ Typed(y) /\ KeepsComms(x, y) /\ y.win = x.win
         /\ y.heap["win_array"] = x.heap["win_array"]
         /\ \A a \in {"requests", "statuses"} :
              x.heap[a] # "dangling" => y.heap[a] # "dangling"
         /\ y.misuse \subseteq
              x.misuse \cup { a \in {"requests", "statuses"} : x.heap[a] = "dangling" }
<1>1. CASE n = 0
  <2>1. req_resize(x, n) = x
    BY <1>1 DEF req_resize
  <2>. QED  BY <2>1 DEF KeepsComms, KeepsTopology, KeepsLeaders
<1>2. CASE n # 0
  <2> DEFINE S == {"requests", "statuses"}
             z == Realloc(x, S)
             y == [z EXCEPT !.n_requests = n]
  <2>1. req_resize(x, n) = y
    BY <1>2 DEF req_resize
  <2>2. /\ Object(z) /\ OnlyIn(x, z, {"heap", "misuse"})
        /\ z.heap = [a \in Arrays |-> IF a \in S THEN "live" ELSE x.heap[a]]
        /\ z.misuse = x.misuse \cup { a \in S : x.heap[a] = "dangling" }
    BY Reallocated DEF Typed
  <2> HIDE DEF z
  <2>3. Object(y) /\ OnlyIn(z, y, {"n_requests"}) /\ y.n_requests = n
    BY <2>2 DEF Object, OnlyIn, ObjectFields
  <2> HIDE DEF y
  <2>4. /\ y.comm = x.comm /\ y.win = x.win /\ y.win_bytes = x.win_bytes /\ y.tag = x.tag
        /\ y.lost = x.lost /\ y.heap = z.heap /\ y.misuse = z.misuse
        /\ y.toLocal = x.toLocal /\ y.toNode = x.toNode /\ y.ppn = x.ppn
        /\ y.ordered = x.ordered
    BY <2>2, <2>3 DEF OnlyIn, ObjectFields, Maps
  <2>5. y.heap \in [Arrays -> {"null", "live", "dangling"}]
    BY <2>2, <2>4 DEF Typed
  <2>6. /\ \A a \in {"win_array", "ordered_global_ranks"} : y.heap[a] = x.heap[a]
        /\ \A a \in S : y.heap[a] = "live"
    BY <2>2, <2>4 DEF Arrays, TopoArrays
  <2>7. Typed(y)
    BY <2>3, <2>4, <2>5 DEF Typed
  <2>. QED  BY <2>1, <2>2, <2>4, <2>6, <2>7 DEF KeepsComms, KeepsTopology, KeepsLeaders
<1>. QED  BY <1>1, <1>2

LEMMA CrsRmaTyped ==
  ASSUME NEW x, Typed(x), NEW bytes \in WinArgs
  PROVE  LET y == crs_rma(x, bytes) IN
         /\ Typed(y) /\ KeepsComms(x, y)
         /\ \A a \in {"requests", "statuses"} : y.heap[a] = x.heap[a]
         /\ (x.win => x.heap["win_array"] = "live") /\ x.heap["win_array"] # "dangling" =>
              y.misuse = x.misuse /\ y.heap["win_array"] = "live"
<1> DEFINE u == IF x.win_bytes # bytes \/ x.win_type_bytes # 1 THEN win_free(x) ELSE x
           z == IF ~ u.win THEN win_init(u, bytes, 1) ELSE u
           y == IF bytes > 0 THEN Access(z, "win_array") ELSE z
<1>1. crs_rma(x, bytes) = y
  BY DEF crs_rma
<1>2. /\ Typed(u) /\ KeepsComms(x, u)
      /\ \A a \in {"requests", "statuses"} : u.heap[a] = x.heap[a]
      /\ x.heap["win_array"] # "dangling" => u.misuse = x.misuse
      /\ u.win => x.win /\ u.heap["win_array"] = x.heap["win_array"]
  <2>1. CASE u = win_free(x)
    <3> HIDE DEF u
    <3>1. /\ Typed(u) /\ KeepsComms(x, u) /\ ~ u.win
          /\ \A a \in {"requests", "statuses"} : u.heap[a] = x.heap[a]
          /\ u.misuse = x.misuse \cup { a \in {"win_array"} : x.heap[a] = "dangling" }
      BY <2>1, WinFreeTyped
    <3>2. x.heap["win_array"] # "dangling" => u.misuse = x.misuse
      BY <3>1
    <3>. QED  BY <3>1, <3>2
  <2>2. CASE u = x
    <3> HIDE DEF u
    <3>. QED  BY <2>2 DEF KeepsComms, KeepsTopology, KeepsLeaders
  <2>. QED  BY <2>1, <2>2
<1> HIDE DEF u
<1>3. /\ Typed(z) /\ KeepsComms(u, z) /\ z.misuse = u.misuse
      /\ \A a \in {"requests", "statuses"} : z.heap[a] = u.heap[a]
      /\ (x.win => x.heap["win_array"] = "live") => z.heap["win_array"] = "live"
  <2>1. CASE u.win
    <3>1. z = u
      BY <2>1
    <3> HIDE DEF z
    <3>. QED  BY <1>2, <2>1, <3>1 DEF KeepsComms, KeepsTopology, KeepsLeaders
  <2>2. CASE ~ u.win
    <3>1. z = win_init(u, bytes, 1)
      BY <2>2
    <3> HIDE DEF z
    <3>. QED  BY <1>2, <3>1, WinInitTyped
  <2>. QED  BY <2>1, <2>2
<1> HIDE DEF z
<1>4. /\ Typed(y) /\ KeepsComms(z, y) /\ y.heap = z.heap
      /\ z.heap["win_array"] = "live" => y.misuse = z.misuse
  <2>1. CASE y = z
    <3> HIDE DEF y
    <3>. QED  BY <1>3, <2>1 DEF KeepsComms, KeepsTopology, KeepsLeaders
  <2>2. CASE y = Access(z, "win_array")
    <3> HIDE DEF y
    <3>1. /\ Object(y) /\ OnlyIn(z, y, {"misuse"})
          /\ y.misuse = z.misuse \cup { b \in {"win_array"} : z.heap[b] # "live" }
      BY <1>3, <2>2 DEF Access, Typed, Object, OnlyIn, ObjectFields
    <3>2. /\ y.comm = z.comm /\ y.win = z.win /\ y.win_bytes = z.win_bytes /\ y.tag = z.tag
          /\ y.lost = z.lost /\ y.heap = z.heap /\ y.n_requests = z.n_requests
          /\ y.toLocal = z.toLocal /\ y.toNode = z.toNode /\ y.ppn = z.ppn
          /\ y.ordered = z.ordered
      BY <3>1 DEF OnlyIn, ObjectFields, Maps
    <3>3. Typed(y)
      BY <1>3, <3>1, <3>2 DEF Typed
    <3>. QED  BY <3>1, <3>2, <3>3 DEF KeepsComms, KeepsTopology, KeepsLeaders
  <2>. QED  BY <2>1, <2>2
<1> HIDE DEF y
<1>5. KeepsComms(x, y)
  BY <1>2, <1>3, <1>4 DEF KeepsComms, KeepsTopology, KeepsLeaders
<1>. QED  BY <1>1, <1>2, <1>3, <1>4, <1>5

LEMMA CommFreeTyped ==
  ASSUME NEW x, Typed(x)
  PROVE  LET y == comm_free(x) IN
         /\ Typed(y) /\ ~ y.win
         /\ y.comm["local_comm"] = Null /\ y.heap["ordered_global_ranks"] # "live"
         /\ y.comm["leader_comm"] = Null
         /\ y.heap["statuses"] = x.heap["statuses"]
         /\ y.misuse \subseteq x.misuse \cup { a \in Arrays : x.heap[a] = "dangling" }
<1> DEFINE u == IF x.n_requests > 0 THEN Release(x, {"requests"}) ELSE x
           v == FreeComms(u, {"neighbor_comm"})
           w == topo_free(v)
           z == leader_free(w)
           y == win_free(z)
<1>1. comm_free(x) = y
  BY DEF comm_free
<1>2. /\ Typed(u) /\ \A a \in Arrays \ {"requests"} : u.heap[a] = x.heap[a]
      /\ u.misuse \subseteq x.misuse \cup { a \in Arrays : x.heap[a] = "dangling" }
  <2>1. CASE u = Release(x, {"requests"})
    <3> HIDE DEF u
    <3>1. /\ Typed(u)
          /\ u.heap = [a \in Arrays |->
                         IF a \in {"requests"} /\ x.heap[a] = "live" THEN "dangling"
                         ELSE x.heap[a]]
          /\ u.misuse = x.misuse \cup { a \in {"requests"} : x.heap[a] = "dangling" }
      BY <2>1, ReleaseTyped
    <3>. QED  BY <3>1 DEF Arrays
  <2>2. CASE u = x
    <3> HIDE DEF u
    <3>. QED  BY <2>2
  <2>. QED  BY <2>1, <2>2
<1> HIDE DEF u
<1>3. Typed(v) /\ v.heap = u.heap /\ v.misuse = u.misuse
  <2>1. Typed(u)
    BY <1>2
  <2>2. Typed(v) /\ v.heap = u.heap /\ KeepsMemory(u, v)
    BY <2>1, FreeCommsTyped
  <2> HIDE DEF v
  <2>. QED  BY <2>2 DEF KeepsMemory
<1> HIDE DEF v
<1>4. /\ Typed(w) /\ w.comm["local_comm"] = Null /\ w.heap["ordered_global_ranks"] # "live"
      /\ \A a \in {"requests", "statuses", "win_array"} : w.heap[a] = v.heap[a]
      /\ w.misuse = v.misuse \cup { a \in TopoArrays : v.heap[a] = "dangling" }
  BY <1>3, TopoFreeTyped
<1> HIDE DEF w
<1>5. /\ Typed(z) /\ KeepsTopology(w, z) /\ KeepsMemory(w, z) /\ z.comm["leader_comm"] = Null
  BY <1>4, LeaderFreeTyped
<1> HIDE DEF z
<1>6. /\ Typed(y) /\ KeepsComms(z, y) /\ ~ y.win
      /\ \A a \in {"requests", "statuses"} : y.heap[a] = z.heap[a]
      /\ y.misuse = z.misuse \cup { a \in {"win_array"} : z.heap[a] = "dangling" }
  BY <1>5, WinFreeTyped
<1> HIDE DEF y
<1>7. /\ y.comm["local_comm"] = Null /\ y.heap["ordered_global_ranks"] # "live"
      /\ y.comm["leader_comm"] = Null
  BY <1>4, <1>5, <1>6 DEF KeepsComms, KeepsTopology, KeepsLeaders
<1>8. y.heap["statuses"] = x.heap["statuses"] /\ z.heap["win_array"] = x.heap["win_array"]
  BY <1>2, <1>3, <1>4, <1>5, <1>6 DEF KeepsMemory, Arrays, TopoArrays
<1>9. y.misuse \subseteq x.misuse \cup { a \in Arrays : x.heap[a] = "dangling" }
  <2>1. { a \in TopoArrays : v.heap[a] = "dangling" } \subseteq { a \in Arrays : x.heap[a] = "dangling" }
    BY <1>2, <1>3 DEF Arrays, TopoArrays
  <2>2. { a \in {"win_array"} : z.heap[a] = "dangling" } \subseteq { a \in Arrays : x.heap[a] = "dangling" }
    BY <1>8 DEF Arrays
  <2>3. z.misuse = w.misuse
    BY <1>5 DEF KeepsMemory
  <2>. QED  BY <1>2, <1>3, <1>4, <1>6, <2>1, <2>2, <2>3
<1>. QED  BY <1>1, <1>6, <1>7, <1>8, <1>9
-----------------------------------------------------------------------------
(* What every function owes the object it is given: the types always, the   *)
(* maps where nodes are even, the leaders where they divide the nodes, and  *)
(* the memory that the object still needs.                                  *)
Kept(x) == Sane(x) /\ x.heap["requests"] # "dangling"
Fit(x, y) ==
  /\ Typed(y)
  /\ EvenNodes /\ Located(x) => Located(y)
  /\ EvenNodes /\ EvenLeaders /\ Located(x) /\ Led(x) => Led(y)
Spared(x, y) == EvenNodes /\ Kept(x) => Kept(y)

LEMMA FitTransitive ==
  ASSUME NEW x, NEW y, NEW z, Fit(x, y), Fit(y, z)
  PROVE  Fit(x, z)
BY DEF Fit

LEMMA FrameFits ==
  ASSUME NEW x, NEW y, Typed(y), KeepsTopology(x, y), KeepsLeaders(x, y)
  PROVE  Fit(x, y)
<1>1. Located(x) => Located(y)
  <2>1. \A c : Formed(x, c) => Formed(y, c)
    BY DEF KeepsTopology, Formed
  <2>. QED  BY <2>1 DEF KeepsTopology, Located
<1>2. Led(x) => Led(y)
  <2>1. \A n : LedBy(x, n) => LedBy(y, n)
    BY DEF KeepsLeaders, LedBy
  <2>. QED  BY <2>1 DEF KeepsLeaders, Led
<1>. QED  BY <1>1, <1>2 DEF Fit

LEMMA MemorySpared ==
  ASSUME NEW x, NEW y, KeepsMemory(x, y)
  PROVE  Spared(x, y)
BY DEF KeepsMemory, Spared, Kept, Sane

LEMMA MultipleOf ==
  ASSUME NEW m \in Nat, NEW k \in Nat \ {0}
  PROVE  m * k \in Nat /\ (m * k) % k = 0
<1> DEFINE a == m * k
<1>1. a \in Nat /\ m * k = a
  BY Multiples
<1> HIDE DEF a
<1>2. a \div k = m
  BY <1>1, Quotient
<1>3. a % k = a - (a \div k) * k
  BY <1>1, Division
<1>4. a % k = a - a
  BY <1>1, <1>2, <1>3
<1>. QED  BY <1>1, <1>4 DEF a

(* A locality is even, and the leaders of its nodes divide all ranks.       *)
LEMMA LocalityEven ==
  ASSUME EvenNodes, NEW c \in Localities
  PROVE  /\ Partition(c) /\ c # Null
         /\ \E k \in Nat \ {0} :
              /\ Even(c, k)
              /\ EvenLeaders => k % PerLeader(k) = 0 /\ NumProcs % PerLeader(k) = 0
<1>1. Partition(c)
  BY HostPartition, BlocksPartition DEF Localities
<1>2. \E k \in Nat \ {0} : Even(c, k) /\ (EvenLeaders => k % PerLeader(k) = 0)
  <2>1. CASE \E h \in Placements : c = OnHost(h)
    <3>1. PICK h \in Placements : c = OnHost(h)
      BY <2>1
    <3>2. PICK k \in Nat \ {0} : Even(OnHost(h), k)
      BY <3>1 DEF EvenNodes
    <3>. QED  BY <3>1, <3>2 DEF EvenLeaders
  <2>2. CASE \E n \in PpnArgs : c = Blocks(n)
    <3>1. PICK n \in PpnArgs : c = Blocks(n)
      BY <2>2
    <3>2. n \in Nat \ {0} /\ NumProcs % n = 0
      BY CommAssumption DEF EvenNodes
    <3>3. Even(c, n)
      BY <3>1, <3>2, BlocksEven
    <3>. QED  BY <3>2, <3>3 DEF EvenLeaders
  <2>. QED  BY <2>1, <2>2 DEF Localities
<1>3. PICK k \in Nat \ {0} : Even(c, k) /\ (EvenLeaders => k % PerLeader(k) = 0)
  BY <1>2
<1>4. ASSUME EvenLeaders PROVE NumProcs % PerLeader(k) = 0
  <2>1. PICK p \in Nat \ {0} : p = PerLeader(k)
    BY PerLeaderType
  <2>2. PICK j \in Nat \ {0} : k = j * p
    BY <1>3, <1>4, <2>1, Divisor
  <2>3. PICK m \in Nat \ {0} : m * k = NumProcs
    BY <1>1, <1>3, GroupSize, RankFacts
  <2>4. PICK i \in Nat : i = m * j
    BY <2>2, <2>3, Multiples
  <2>5. NumProcs = i * p
    BY <2>1, <2>2, <2>3, <2>4, Products
  <2>. QED  BY <2>1, <2>4, <2>5, MultipleOf
<1>. QED  BY <1>1, <1>3, <1>4, NotNull

LEMMA ReshapedFits ==
  ASSUME NEW x, Typed(x), NEW c \in Localities, NEW y, NEW n, Reshaped(x, y, c, n),
         EvenNodes => \A r \in Rank : n[r] = Sizes(c)[r]
  PROVE  Fit(x, y) /\ y.comm["local_comm"] # Null
<1>1. Partition(c)
  BY HostPartition, BlocksPartition DEF Localities
<1>2. Typed(y) /\ KeepsLeaders(x, y)
  BY <1>1, ReshapedTyped
<1>3. y.comm["local_comm"] = c /\ y.comm["group_comm"] = Group(c)
  BY DEF Reshaped, CommFields
<1>4. ASSUME EvenNodes PROVE Located(y)
  <2>1. y.ordered = [r \in Rank |-> Ordered(Numbers(Group(c)), Numbers(c), Sizes(c)[r])]
    BY <1>4 DEF Reshaped
  <2>2. Formed(y, c)
    BY <1>3, <2>1 DEF Reshaped, Formed
  <2>. QED  BY <2>2 DEF Located
<1>5. Led(x) => Led(y)
  <2>1. \A m : LedBy(x, m) => LedBy(y, m)
    BY <1>2 DEF KeepsLeaders, LedBy
  <2>. QED  BY <1>2, <2>1 DEF KeepsLeaders, Led
<1>. QED  BY <1>1, <1>2, <1>3, <1>4, <1>5, NotNull DEF Fit
-----------------------------------------------------------------------------
(* The functions on the topology. *)
LEMMA EvenMisusesNothing ==
  ASSUME EvenNodes, NEW c \in Localities, NEW n, \A r \in Rank : n[r] = Sizes(c)[r]
  PROVE  Overrun(Numbers(Group(c)), Numbers(c), n) = {}
<1>1. PICK k \in Nat \ {0} : Partition(c) /\ Even(c, k)
  BY LocalityEven
<1>2. \A r \in Rank : n[r] = k
  BY <1>1 DEF Even, Sizes
<1>. QED  BY <1>1, <1>2, NoOverrun

LEMMA TopoInitFits ==
  ASSUME NEW x, Typed(x), host \in Placements
  PROVE  LET y == topo_init(x) IN
         Fit(x, y) /\ Spared(x, y) /\ y.comm["local_comm"] # Null
<1> DEFINE y == topo_init(x)
<1>1. PICK c : c = OnHost(host)
  OBVIOUS
<1>2. c \in Localities
  BY <1>1 DEF Localities
<1>3. /\ Reshaped(x, y, c, Sizes(c))
      /\ y.misuse = x.misuse \cup Overrun(Numbers(Group(c)), Numbers(c), Sizes(c))
  BY <1>1, TopoInitEffect DEF Typed
<1> HIDE DEF y
<1>4. Fit(x, y) /\ y.comm["local_comm"] # Null
  BY <1>2, <1>3, ReshapedFits
<1>5. ASSUME EvenNodes PROVE y.misuse = x.misuse
  <2>1. \A r \in Rank : Sizes(c)[r] = Sizes(c)[r]
    OBVIOUS
  <2>2. Overrun(Numbers(Group(c)), Numbers(c), Sizes(c)) = {}
    BY <1>2, <1>5, <2>1, EvenMisusesNothing
  <2>. QED  BY <1>3, <2>2
<1>6. /\ \A a \in {"requests", "statuses", "win_array"} : y.heap[a] = x.heap[a]
      /\ y.win = x.win
  BY <1>3 DEF Reshaped, OnlyIn, ObjectFields, Maps, Arrays, TopoArrays
<1>7. Spared(x, y)
  BY <1>5, <1>6 DEF Spared, Kept, Sane
<1>. QED  BY <1>4, <1>7 DEF y

LEMMA UpdateLocalityFits ==
  ASSUME NEW x, Typed(x), NEW ppn \in PpnArgs
  PROVE  LET y == update_locality(x, ppn) IN
         /\ Fit(x, y)
         /\ (\A a \in TopoArrays : x.heap[a] # "dangling") => Spared(x, y)
<1> DEFINE y == update_locality(x, ppn)
<1>1. PICK c, n : c = Blocks(ppn) /\ n = [r \in Rank |-> ppn]
  OBVIOUS
<1>2. c \in Localities
  BY <1>1 DEF Localities
<1>3. /\ Reshaped(x, y, c, n)
      /\ y.misuse = x.misuse \cup { a \in TopoArrays : x.heap[a] = "dangling" }
                             \cup Overrun(Numbers(Group(c)), Numbers(c), n)
  <2>1. Object(x)
    BY DEF Typed
  <2>2. /\ Reshaped(x, y, Blocks(ppn), [r \in Rank |-> ppn])
        /\ y.misuse =
             x.misuse \cup { a \in TopoArrays : x.heap[a] = "dangling" }
                      \cup Overrun(Numbers(Group(Blocks(ppn))), Numbers(Blocks(ppn)),
                                   [r \in Rank |-> ppn])
    BY <2>1, UpdateLocalityEffect
  <2> HIDE DEF y
  <2>. QED  BY <1>1, <2>2
<1> HIDE DEF y
<1>4. ASSUME EvenNodes PROVE \A r \in Rank : n[r] = Sizes(c)[r]
  <2>1. ppn \in Nat \ {0} /\ NumProcs % ppn = 0
    BY <1>4, CommAssumption DEF EvenNodes
  <2>2. Even(c, ppn)
    BY <1>1, <2>1, BlocksEven
  <2>. QED  BY <1>1, <2>2 DEF Even, Sizes
<1>5. Fit(x, y)
  BY <1>2, <1>3, <1>4, ReshapedFits
<1>6. ASSUME EvenNodes, \A a \in TopoArrays : x.heap[a] # "dangling" PROVE y.misuse = x.misuse
  <2>1. Overrun(Numbers(Group(c)), Numbers(c), n) = {}
    BY <1>2, <1>4, <1>6, EvenMisusesNothing
  <2>. QED  BY <1>3, <1>6, <2>1
<1>7. /\ \A a \in {"requests", "statuses", "win_array"} : y.heap[a] = x.heap[a]
      /\ y.win = x.win
  BY <1>3 DEF Reshaped, OnlyIn, ObjectFields, Maps, Arrays, TopoArrays
<1>8. (\A a \in TopoArrays : x.heap[a] # "dangling") => Spared(x, y)
  BY <1>6, <1>7 DEF Spared, Kept, Sane
<1>. QED  BY <1>5, <1>8 DEF y

LEMMA TopoFreeFits ==
  ASSUME NEW x, Typed(x)
  PROVE  LET y == topo_free(x) IN
         /\ Fit(x, y)
         /\ (\A a \in TopoArrays : x.heap[a] # "dangling") => Spared(x, y)
<1> DEFINE y == topo_free(x)
<1>1. /\ Typed(y) /\ KeepsLeaders(x, y) /\ y.win = x.win
      /\ y.comm["local_comm"] = Null /\ y.heap["ordered_global_ranks"] # "live"
      /\ \A a \in {"requests", "statuses", "win_array"} : y.heap[a] = x.heap[a]
      /\ y.misuse = x.misuse \cup { a \in TopoArrays : x.heap[a] = "dangling" }
  BY TopoFreeTyped
<1> HIDE DEF y
<1>2. Located(y)
  BY <1>1 DEF Located
<1>3. Led(x) => Led(y)
  <2>1. \A m : LedBy(x, m) => LedBy(y, m)
    BY <1>1 DEF KeepsLeaders, LedBy
  <2>. QED  BY <1>1, <2>1 DEF KeepsLeaders, Led
<1>4. (\A a \in TopoArrays : x.heap[a] # "dangling") => y.misuse = x.misuse
  BY <1>1
<1>5. (\A a \in TopoArrays : x.heap[a] # "dangling") => Spared(x, y)
  BY <1>1, <1>4 DEF Spared, Kept, Sane
<1>. QED  BY <1>1, <1>2, <1>3, <1>5 DEF Fit, y

LEMMA WithTopologyFits ==
  ASSUME NEW x, Typed(x), host \in Placements
  PROVE  LET y == WithTopology(x) IN
         Fit(x, y) /\ Spared(x, y) /\ y.comm["local_comm"] # Null
<1>1. CASE x.comm["local_comm"] = Null
  <2>1. WithTopology(x) = topo_init(x)
    BY <1>1 DEF WithTopology
  <2>. QED  BY <2>1, TopoInitFits
<1>2. CASE x.comm["local_comm"] # Null
  <2>1. WithTopology(x) = x
    BY <1>2 DEF WithTopology
  <2>. QED  BY <1>2, <2>1 DEF Fit, Spared
<1>. QED  BY <1>1, <1>2

LEMMA TagAndTopologyFits ==
  ASSUME NEW x, Typed(x), host \in Placements
  PROVE  LET y == TagAndTopology(x) IN
         Fit(x, y) /\ Spared(x, y) /\ y.comm["local_comm"] # Null
<1> DEFINE u == get_tag(x)
           y == WithTopology(u)
<1>1. Typed(u) /\ KeepsTopology(x, u) /\ KeepsLeaders(x, u) /\ KeepsMemory(x, u)
  BY GetTagEffect
<1>2. TagAndTopology(x) = y
  BY DEF TagAndTopology
<1> HIDE DEF u
<1>3. Fit(x, u) /\ Spared(x, u)
  BY <1>1, FrameFits, MemorySpared
<1>4. Fit(u, y) /\ Spared(u, y) /\ y.comm["local_comm"] # Null
  BY <1>1, WithTopologyFits
<1> HIDE DEF y
<1>5. Fit(x, y)
  BY <1>3, <1>4, FitTransitive
<1>. QED  BY <1>2, <1>3, <1>4, <1>5 DEF Spared
-----------------------------------------------------------------------------
(* The functions on the leaders. *)
LEMMA LocalIsPartition ==
  ASSUME NEW x, Located(x), x.comm["local_comm"] # Null
  PROVE  x.comm["local_comm"] \in Localities /\ Partition(x.comm["local_comm"])
<1>1. x.comm["local_comm"] \in Localities
  BY DEF Located, Formed
<1>. QED  BY <1>1, HostPartition, BlocksPartition DEF Localities

LEMMA LeaderInitFits ==
  ASSUME NEW x, Typed(x), host \in Placements, NEW ppl
  PROVE  LET z == leader_init(x, ppl) IN
         /\ Typed(z) /\ KeepsTopology(WithTopology(x), z) /\ Spared(x, z)
         /\ EvenNodes /\ Located(x) => Located(z)
         /\ \A n \in Nat \ {0} :
              EvenNodes /\ Located(x) /\ (\A r \in Rank : ppl[r] = n) => LedBy(z, n)
<1> DEFINE y == WithTopology(x)
           z == leader_init(x, ppl)
           leader == Split(World, LeaderColor(ppl))
<1>1. /\ Typed(z) /\ KeepsTopology(y, z) /\ KeepsMemory(y, z)
      /\ z.comm["leader_comm"] = leader /\ z.comm["leader_group_comm"] = Group(leader)
      /\ z.comm["leader_local_comm"] = Split(y.comm["local_comm"], Numbers(leader))
  BY LeaderInitEffect
<1>2. Fit(x, y) /\ Spared(x, y) /\ y.comm["local_comm"] # Null
  BY WithTopologyFits
<1> HIDE DEF y, z
<1>3. Located(y) => Located(z)
  <2>1. \A c : Formed(y, c) => Formed(z, c)
    BY <1>1 DEF KeepsTopology, Formed
  <2>. QED  BY <1>1, <2>1 DEF KeepsTopology, Located
<1>4. Spared(x, z)
  BY <1>1, <1>2, MemorySpared DEF Spared
<1>5. ASSUME NEW n \in Nat \ {0}, EvenNodes, Located(x), \A r \in Rank : ppl[r] = n
      PROVE  LedBy(z, n)
  <2>1. leader = Blocks(n)
    BY <1>5 DEF Blocks, LeaderColor
  <2> HIDE DEF leader
  <2>2. Partition(y.comm["local_comm"])
    BY <1>2, <1>5, LocalIsPartition DEF Fit
  <2>3. z.comm["leader_local_comm"] # Null
    BY <1>1, <2>2, SplitOf, NotNull
  <2>. QED  BY <1>1, <2>1, <2>3 DEF LedBy
<1>. QED  BY <1>1, <1>2, <1>3, <1>4, <1>5 DEF Fit, y, z

LEMMA LeaderFreeFits ==
  ASSUME NEW x, Typed(x)
  PROVE  Fit(x, leader_free(x)) /\ Spared(x, leader_free(x))
<1> DEFINE y == leader_free(x)
<1>1. /\ Typed(y) /\ KeepsTopology(x, y) /\ KeepsMemory(x, y) /\ y.comm["leader_comm"] = Null
  BY LeaderFreeTyped
<1> HIDE DEF y
<1>2. Located(x) => Located(y)
  <2>1. \A c : Formed(x, c) => Formed(y, c)
    BY <1>1 DEF KeepsTopology, Formed
  <2>. QED  BY <1>1, <2>1 DEF KeepsTopology, Located
<1>3. Fit(x, y)
  BY <1>1, <1>2 DEF Fit, Led
<1>4. Spared(x, y)
  BY <1>1, MemorySpared
<1>. QED  BY <1>3, <1>4 DEF y

(* On even nodes all ranks want the same number of ranks per leader. *)
LEMMA Wanted ==
  ASSUME EvenNodes, NEW x, Located(x), x.comm["local_comm"] # Null
  PROVE  \E k \in Nat \ {0} :
           /\ Even(x.comm["local_comm"], k) /\ PerLeader(k) \in Nat \ {0}
           /\ \A r \in Rank : ProcsPerLeader(x)[r] = PerLeader(k)
           /\ EvenLeaders => k % PerLeader(k) = 0 /\ NumProcs % PerLeader(k) = 0
<1>1. PICK k \in Nat \ {0} : /\ Even(x.comm["local_comm"], k)
                             /\ EvenLeaders => k % PerLeader(k) = 0 /\ NumProcs % PerLeader(k) = 0
  BY LocalIsPartition, LocalityEven
<1>2. \A r \in Rank : ProcsPerLeader(x)[r] = PerLeader(k)
  BY <1>1 DEF ProcsPerLeader, PerLeader, Even
<1>. QED  BY <1>1, <1>2, PerLeaderType

(* Leaders are on every rank or on none; if the check leaves some on every  *)
(* rank, they are the blocks of the size it asks for.                       *)
LEMMA MissingAll ==
  ASSUME NEW x, Typed(x)
  PROVE  Missing(x) = Rank <=> x.comm["leader_comm"] = Null
<1>1. x.comm["leader_comm"] \in [Rank -> SUBSET Rank]
  BY DEF Typed, CommFields
<1>. QED  BY <1>1 DEF Missing, Null

LEMMA StaleGone ==
  ASSUME NEW x, Typed(x), Led(x), NEW p \in Nat \ {0}, NEW ppl, \A r \in Rank : ppl[r] = p
  PROVE  LET y == FreeStale(x, ppl) IN
         Missing(y) \in {{}, Rank} => y.comm["leader_comm"] = Null \/ LedBy(y, p)
<1> DEFINE y == FreeStale(x, ppl)
<1>1. /\ y.comm["leader_comm"] =
           [r \in Rank |-> IF Cardinality(x.comm["leader_comm"][r]) = ppl[r]
                           THEN x.comm["leader_comm"][r] ELSE {}]
      /\ y.comm["leader_group_comm"] = x.comm["leader_group_comm"]
      /\ y.comm["leader_local_comm"] = x.comm["leader_local_comm"]
  BY FreeStaleEffect
<1> HIDE DEF y
<1>2. CASE x.comm["leader_comm"] = Null
  <2>1. \A r \in Rank : Cardinality(x.comm["leader_comm"][r]) = 0
    BY <1>2, FS_EmptySet DEF Null
  <2>2. y.comm["leader_comm"] = Null
    BY <1>1, <2>1 DEF Null
  <2>. QED  BY <2>2 DEF y
<1>3. CASE \E n \in Nat \ {0} : LedBy(x, n)
  <2>1. PICK n \in Nat \ {0} : LedBy(x, n)
    BY <1>3
  <2>2. x.comm["leader_comm"] = Blocks(n) /\ Partition(Blocks(n))
    BY <2>1, BlockOf DEF LedBy
  <2>3. CASE Missing(y) = {}
    <3>1. \A r \in Rank : y.comm["leader_comm"][r] # {}
      BY <2>3 DEF Missing
    <3>2. \A r \in Rank : Cardinality(Blocks(n)[r]) = p
      BY <1>1, <2>2, <3>1
    <3>3. Blocks(n) = Blocks(p)
      BY <3>2, BlocksOfSize DEF Even
    <3>4. y.comm["leader_comm"] = Blocks(p)
      BY <1>1, <2>2, <3>2, <3>3 DEF Partition
    <3>5. LedBy(y, p)
      BY <1>1, <2>1, <3>3, <3>4 DEF LedBy
    <3>. QED  BY <3>5 DEF y
  <2>4. CASE Missing(y) = Rank
    <3>1. \A r \in Rank : y.comm["leader_comm"][r] = {}
      BY <2>4 DEF Missing
    <3>2. y.comm["leader_comm"] = Null
      BY <1>1, <3>1 DEF Null
    <3>. QED  BY <3>2 DEF y
  <2>. QED  BY <2>3, <2>4 DEF y
<1>. QED  BY <1>2, <1>3 DEF Led
-----------------------------------------------------------------------------
(* The heads of the exchanges over leaders. *)
LEMMA SameWanted ==
  ASSUME NEW x, NEW y, KeepsTopology(x, y)
  PROVE  ProcsPerLeader(y) = ProcsPerLeader(x)
BY DEF KeepsTopology, ProcsPerLeader

LEMMA SameLocated ==
  ASSUME NEW x, NEW y, KeepsTopology(x, y), Located(x)
  PROVE  Located(y)
<1>1. \A c : Formed(x, c) => Formed(y, c)
  BY DEF KeepsTopology, Formed
<1>. QED  BY <1>1 DEF KeepsTopology, Located

LEMMA WithLeadersFits ==
  ASSUME NEW x, Typed(x), host \in Placements, x.comm["local_comm"] # Null, NEW ppl
  PROVE  LET z == WithLeaders(x, ppl) IN
         /\ Typed(z) /\ KeepsTopology(x, z) /\ Spared(x, z)
         /\ x.comm["leader_comm"] # Null => z = x
         /\ \A n \in Nat \ {0} :
              /\ EvenNodes /\ Located(x) /\ (\A r \in Rank : ppl[r] = n)
              /\ x.comm["leader_comm"] = Null
              => LedBy(z, n)
<1>1. CASE x.comm["leader_comm"] = Null
  <2>1. WithLeaders(x, ppl) = leader_init(x, ppl)
    BY <1>1, MissingAll DEF WithLeaders
  <2>2. WithTopology(x) = x
    BY DEF WithTopology
  <2> DEFINE z == leader_init(x, ppl)
  <2>3. /\ Typed(z) /\ KeepsTopology(WithTopology(x), z) /\ Spared(x, z)
        /\ \A n \in Nat \ {0} :
             EvenNodes /\ Located(x) /\ (\A r \in Rank : ppl[r] = n) => LedBy(z, n)
    BY LeaderInitFits
  <2> HIDE DEF z
  <2>. QED  BY <1>1, <2>1, <2>2, <2>3 DEF z
<1>2. CASE x.comm["leader_comm"] # Null
  <2>1. WithLeaders(x, ppl) = x
    BY <1>2, MissingAll DEF WithLeaders
  <2>. QED  BY <1>2, <2>1 DEF KeepsTopology, Spared
<1>. QED  BY <1>1, <1>2

LEMMA CheckedFits ==
  ASSUME NEW x, Typed(x), host \in Placements
  PROVE  LET t == TagAndTopology(x)
             y == Checked(x)
         IN  /\ Typed(y) /\ KeepsTopology(t, y) /\ Spared(x, y)
             /\ y.comm["local_comm"] # Null
             /\ \A n \in Nat \ {0} :
                  /\ Led(t) /\ (\A r \in Rank : ProcsPerLeader(t)[r] = n)
                  /\ Missing(y) \in {{}, Rank}
                  => y.comm["leader_comm"] = Null \/ LedBy(y, n)
<1> DEFINE t == TagAndTopology(x)
           ppl == ProcsPerLeader(t)
           y == FreeStale(t, ppl)
<1>1. Checked(x) = y
  BY DEF Checked
<1>2. Fit(x, t) /\ Spared(x, t) /\ t.comm["local_comm"] # Null
  BY TagAndTopologyFits
<1> HIDE DEF t
<1>3. Typed(t)
  BY <1>2 DEF Fit
<1> HIDE DEF ppl
<1>4. Typed(y) /\ KeepsTopology(t, y) /\ KeepsMemory(t, y)
  BY <1>3, FreeStaleEffect
<1>5. \A n \in Nat \ {0} :
        Led(t) /\ (\A r \in Rank : ppl[r] = n) /\ Missing(y) \in {{}, Rank} =>
          y.comm["leader_comm"] = Null \/ LedBy(y, n)
  BY <1>3, StaleGone
<1> HIDE DEF y
<1>6. Spared(x, y)
  BY <1>2, <1>4, MemorySpared DEF Spared
<1>7. y.comm["local_comm"] # Null
  BY <1>2, <1>4 DEF KeepsTopology
<1>. QED  BY <1>1, <1>4, <1>5, <1>6, <1>7 DEF t, ppl

(* The ranks that run alltoall_multileader and agree whether leaders are    *)
(* missing exchange over blocks of the size they want.                      *)
LEMMA MultileaderFits ==
  ASSUME NEW x, Typed(x), host \in Placements
  PROVE  LET z == Multileader(x) IN
         /\ Typed(z) /\ Spared(x, z) /\ z.comm["local_comm"] # Null
         /\ EvenNodes /\ Located(x) => Located(z)
         /\ Missing(Checked(x)) \in {{}, Rank} =>
              /\ Fit(x, z)
              /\ EvenNodes /\ EvenLeaders /\ Located(x) /\ Led(x) =>
                   \E k \in Nat \ {0} : /\ Even(z.comm["local_comm"], k)
                                         /\ LedBy(z, PerLeader(k))
<1> DEFINE t == TagAndTopology(x)
           y == Checked(x)
           ppl == ProcsPerLeader(y)
           z == WithLeaders(y, ppl)
<1>1. Multileader(x) = z
  BY DEF Multileader
<1>2. Fit(x, t) /\ t.comm["local_comm"] # Null
  BY TagAndTopologyFits
<1>3. /\ Typed(y) /\ KeepsTopology(t, y) /\ Spared(x, y) /\ y.comm["local_comm"] # Null
      /\ \A n \in Nat \ {0} :
           /\ Led(t) /\ (\A r \in Rank : ProcsPerLeader(t)[r] = n)
           /\ Missing(y) \in {{}, Rank}
           => y.comm["leader_comm"] = Null \/ LedBy(y, n)
  BY CheckedFits
<1> HIDE DEF t, y
<1>4. ppl = ProcsPerLeader(t)
  BY <1>3, SameWanted
<1> HIDE DEF ppl
<1>5. /\ Typed(z) /\ KeepsTopology(y, z) /\ Spared(y, z)
      /\ y.comm["leader_comm"] # Null => z = y
      /\ \A n \in Nat \ {0} :
           /\ EvenNodes /\ Located(y) /\ (\A r \in Rank : ppl[r] = n)
           /\ y.comm["leader_comm"] = Null
           => LedBy(z, n)
  BY <1>3, WithLeadersFits
<1> HIDE DEF z
<1>6. Spared(x, z) /\ KeepsTopology(t, z) /\ z.comm["local_comm"] # Null
  BY <1>2, <1>3, <1>5 DEF Spared, KeepsTopology
<1>7. ASSUME EvenNodes, Located(x) PROVE Located(t) /\ Located(y) /\ Located(z)
  BY <1>2, <1>3, <1>5, <1>7, SameLocated DEF Fit
<1>8. ASSUME EvenNodes, EvenLeaders, Located(x), Led(x), Missing(y) \in {{}, Rank}
      PROVE  \E k \in Nat \ {0} : /\ Even(z.comm["local_comm"], k)
                                   /\ PerLeader(k) \in Nat \ {0} /\ LedBy(z, PerLeader(k))
  <2>1. Located(t) /\ Led(t)
    BY <1>2, <1>8 DEF Fit
  <2>2. PICK k \in Nat \ {0} : /\ Even(t.comm["local_comm"], k) /\ PerLeader(k) \in Nat \ {0}
                               /\ \A r \in Rank : ProcsPerLeader(t)[r] = PerLeader(k)
    BY <1>2, <1>8, <2>1, Wanted
  <2>3. Even(z.comm["local_comm"], k)
    BY <1>6, <2>2 DEF KeepsTopology
  <2>4. \A r \in Rank : ppl[r] = PerLeader(k)
    BY <1>4, <2>2
  <2>5. CASE y.comm["leader_comm"] = Null
    <3>1. LedBy(z, PerLeader(k))
      BY <1>5, <1>7, <1>8, <2>2, <2>4, <2>5
    <3>. QED  BY <2>2, <2>3, <3>1
  <2>6. CASE y.comm["leader_comm"] # Null
    <3>1. LedBy(y, PerLeader(k)) /\ z = y
      BY <1>3, <1>5, <1>8, <2>1, <2>2, <2>6
    <3>. QED  BY <2>2, <2>3, <3>1
  <2>. QED  BY <2>5, <2>6
<1>9. Missing(y) \in {{}, Rank} => Fit(x, z)
  BY <1>5, <1>7, <1>8 DEF Fit, Led
<1>. QED  BY <1>1, <1>5, <1>6, <1>7, <1>8, <1>9 DEF y

LEMMA MultileaderLocalityFits ==
  ASSUME NEW x, Typed(x), host \in Placements
  PROVE  LET z == MultileaderLocality(x) IN
         /\ Fit(x, z) /\ Spared(x, z) /\ z.comm["local_comm"] # Null
         /\ EvenNodes /\ EvenLeaders /\ Located(x) /\ Led(x) =>
              \E n \in Nat \ {0} : LedBy(z, n)
<1> DEFINE t == TagAndTopology(x)
           ppl == ProcsPerLeader(t)
           z == WithLeaders(t, ppl)
<1>1. MultileaderLocality(x) = z
  BY DEF MultileaderLocality
<1>2. Fit(x, t) /\ Spared(x, t) /\ t.comm["local_comm"] # Null
  BY TagAndTopologyFits
<1>3. Typed(t)
  BY <1>2 DEF Fit
<1> HIDE DEF t
<1>5. /\ Typed(z) /\ KeepsTopology(t, z) /\ Spared(t, z)
      /\ t.comm["leader_comm"] # Null => z = t
      /\ \A n \in Nat \ {0} :
           /\ EvenNodes /\ Located(t) /\ (\A r \in Rank : ppl[r] = n)
           /\ t.comm["leader_comm"] = Null
           => LedBy(z, n)
  <2> HIDE DEF ppl
  <2>. QED  BY <1>2, <1>3, WithLeadersFits
<1> HIDE DEF z
<1>6. Spared(x, z) /\ z.comm["local_comm"] # Null
  BY <1>2, <1>5 DEF Spared, KeepsTopology
<1>7. ASSUME EvenNodes, Located(x) PROVE Located(t) /\ Located(z)
  BY <1>2, <1>5, <1>7, SameLocated DEF Fit
<1>8. ASSUME EvenNodes, EvenLeaders, Located(x), Led(x)
      PROVE  \E n \in Nat \ {0} : LedBy(z, n)
  <2>1. Led(t)
    BY <1>2, <1>8 DEF Fit
  <2>2. PICK k \in Nat \ {0} : /\ PerLeader(k) \in Nat \ {0}
                               /\ \A r \in Rank : ppl[r] = PerLeader(k)
    BY <1>2, <1>7, <1>8, Wanted
  <2>3. CASE t.comm["leader_comm"] = Null
    BY <1>5, <1>7, <1>8, <2>2, <2>3
  <2>4. CASE t.comm["leader_comm"] # Null
    BY <1>5, <2>1, <2>4 DEF Led
  <2>. QED  BY <2>3, <2>4
<1>9. Fit(x, z)
  BY <1>5, <1>7, <1>8 DEF Fit, Led
<1>. QED  BY <1>1, <1>6, <1>8, <1>9
-----------------------------------------------------------------------------
(* The functions on the window, the requests and the whole object. *)
LEMMA WinInitFits ==
  ASSUME NEW x, Typed(x), NEW bytes \in WinArgs
  PROVE  LET y == win_init(x, bytes, 1) IN Fit(x, y) /\ Spared(x, y)
<1> DEFINE y == win_init(x, bytes, 1)
<1>1. /\ Typed(y) /\ KeepsComms(x, y) /\ y.misuse = x.misuse
      /\ \A a \in {"requests", "statuses"} : y.heap[a] = x.heap[a]
      /\ y.heap["win_array"] = "live"
  BY WinInitTyped
<1> HIDE DEF y
<1>2. Spared(x, y)
  BY <1>1 DEF Spared, Kept, Sane
<1>. QED  BY <1>1, <1>2, FrameFits DEF KeepsComms, y

LEMMA WinFreeFits ==
  ASSUME NEW x, Typed(x)
  PROVE  LET y == win_free(x) IN
         Fit(x, y) /\ (x.heap["win_array"] # "dangling" => Spared(x, y))
<1> DEFINE y == win_free(x)
<1>1. /\ Typed(y) /\ KeepsComms(x, y) /\ ~ y.win
      /\ \A a \in {"requests", "statuses"} : y.heap[a] = x.heap[a]
      /\ y.misuse = x.misuse \cup { a \in {"win_array"} : x.heap[a] = "dangling" }
  BY WinFreeTyped
<1> HIDE DEF y
<1>2. x.heap["win_array"] # "dangling" => y.misuse = x.misuse
  BY <1>1
<1>3. x.heap["win_array"] # "dangling" => Spared(x, y)
  BY <1>1, <1>2 DEF Spared, Kept, Sane
<1>. QED  BY <1>1, <1>3, FrameFits DEF KeepsComms, y

LEMMA CrsRmaFits ==
  ASSUME NEW x, Typed(x), NEW bytes \in WinArgs
  PROVE  LET y == crs_rma(x, bytes) IN
         Fit(x, y) /\ (x.heap["win_array"] # "dangling" => Spared(x, y))
<1> DEFINE y == crs_rma(x, bytes)
<1>1. /\ Typed(y) /\ KeepsComms(x, y)
      /\ \A a \in {"requests", "statuses"} : y.heap[a] = x.heap[a]
      /\ (x.win => x.heap["win_array"] = "live") /\ x.heap["win_array"] # "dangling" =>
           y.misuse = x.misuse /\ y.heap["win_array"] = "live"
  BY CrsRmaTyped
<1> HIDE DEF y
<1>2. x.heap["win_array"] # "dangling" => Spared(x, y)
  BY <1>1 DEF Spared, Kept, Sane
<1>. QED  BY <1>1, <1>2, FrameFits DEF KeepsComms, y

LEMMA ReqResizeFits ==
  ASSUME NEW x, Typed(x), NEW n \in RequestArgs
  PROVE  LET y == req_resize(x, n) IN Fit(x, y) /\ Spared(x, y)
<1> DEFINE y == req_resize(x, n)
<1>1. /\ Typed(y) /\ KeepsComms(x, y) /\ y.win = x.win
      /\ y.heap["win_array"] = x.heap["win_array"]
      /\ \A a \in {"requests", "statuses"} :
           x.heap[a] # "dangling" => y.heap[a] # "dangling"
      /\ y.misuse \subseteq
           x.misuse \cup { a \in {"requests", "statuses"} : x.heap[a] = "dangling" }
  BY ReqResizeTyped
<1> HIDE DEF y
<1>2. ASSUME Kept(x) PROVE Kept(y)
  <2>1. /\ x.misuse = {} /\ x.heap["requests"] # "dangling" /\ x.heap["statuses"] # "dangling"
        /\ x.win => x.heap["win_array"] = "live"
    BY <1>2 DEF Kept, Sane
  <2>2. y.misuse = {}
    BY <1>1, <2>1
  <2>. QED  BY <1>1, <2>1, <2>2 DEF Kept, Sane
<1>3. Spared(x, y)
  BY <1>2 DEF Spared
<1>. QED  BY <1>1, <1>3, FrameFits DEF KeepsComms, y

LEMMA CommFreeFits ==
  ASSUME NEW x, Typed(x)
  PROVE  LET y == comm_free(x) IN
         /\ Fit(x, y)
         /\ Kept(x) /\ (\A a \in Arrays : x.heap[a] # "dangling") => Sane(y)
<1> DEFINE y == comm_free(x)
<1>1. /\ Typed(y) /\ ~ y.win
      /\ y.comm["local_comm"] = Null /\ y.heap["ordered_global_ranks"] # "live"
      /\ y.comm["leader_comm"] = Null
      /\ y.heap["statuses"] = x.heap["statuses"]
      /\ y.misuse \subseteq x.misuse \cup { a \in Arrays : x.heap[a] = "dangling" }
  BY CommFreeTyped
<1> HIDE DEF y
<1>2. Fit(x, y)
  BY <1>1 DEF Fit, Located, Led
<1>3. ASSUME Kept(x), \A a \in Arrays : x.heap[a] # "dangling" PROVE Sane(y)
  <2>1. x.misuse = {}
    BY <1>3 DEF Kept, Sane
  <2>2. y.misuse = {}
    BY <1>1, <1>3, <2>1
  <2>. QED  BY <1>1, <1>3, <2>2 DEF Sane, Arrays
<1>. QED  BY <1>2, <1>3 DEF y
-----------------------------------------------------------------------------
(* The invariant.  Typing needs no hypothesis; the object keeps its shape   *)
(* on even nodes, its memory if the callers are careful, and leaders that   *)
(* cut all ranks as long as the ranks go on together.                       *)
Typing ==
  host \in Placements /\ Typed(xcomm) /\ hung \in BOOLEAN /\ freed \in BOOLEAN
Memory == Sane(xcomm) /\ (freed \/ xcomm.heap["requests"] # "dangling")

LEMMA InitTyping == Init => Typing
<1> SUFFICES ASSUME Init PROVE Typing
  OBVIOUS
<1>1. PICK neighbor \in {Null, World}, type_bytes \in {0, 1} :
        xcomm = [ comm |-> [f \in CommFields |->
                              IF f = "neighbor_comm" THEN neighbor ELSE Null],
                  heap |-> [a \in Arrays |-> "null"],
                  toLocal |-> << >>, toNode |-> << >>, ordered |-> << >>,
                  ppn |-> << >>, num_nodes |-> << >>,
                  win |-> FALSE, win_bytes |-> 0, win_type_bytes |-> type_bytes,
                  n_requests |-> 0, tag |-> 126 % MaxTag,
                  lost |-> {}, misuse |-> {} ]
  BY DEF Init
<1>2. Object(xcomm)
  BY <1>1 DEF Object, ObjectFields, Maps
<1>3. xcomm.comm \in [CommFields -> [Rank -> SUBSET Rank]]
  <2>1. Null \in [Rank -> SUBSET Rank] /\ World \in [Rank -> SUBSET Rank]
    BY DEF Null, World
  <2>2. neighbor \in [Rank -> SUBSET Rank]
    BY <2>1
  <2>3. xcomm.comm = [f \in CommFields |-> IF f = "neighbor_comm" THEN neighbor ELSE Null]
    BY <1>1
  <2>. QED  BY <2>1, <2>2, <2>3
<1>4. 126 % MaxTag \in 0 .. MaxTag - 1
  BY CommAssumption
<1>5. /\ xcomm.heap = [a \in Arrays |-> "null"] /\ xcomm.win = FALSE /\ xcomm.n_requests = 0
      /\ xcomm.win_bytes = 0 /\ xcomm.tag = 126 % MaxTag /\ xcomm.ppn = << >>
      /\ xcomm.lost = {}
  BY <1>1
<1>6. Typed(xcomm)
  BY <1>2, <1>3, <1>4, <1>5 DEF Typed
<1>. QED  BY <1>6 DEF Init, Typing

LEMMA InitShape == Init => Located(xcomm) /\ Led(xcomm) /\ Memory /\ Usage /\ ~ hung
<1> SUFFICES ASSUME Init PROVE Located(xcomm) /\ Led(xcomm) /\ Memory /\ Usage /\ ~ hung
  OBVIOUS
<1>1. /\ xcomm.comm["local_comm"] = Null /\ xcomm.comm["leader_comm"] = Null
      /\ \A a \in Arrays : xcomm.heap[a] = "null"
      /\ xcomm.win = FALSE /\ xcomm.misuse = {}
  BY DEF Init, CommFields
<1>2. Located(xcomm) /\ Led(xcomm)
  BY <1>1 DEF Located, Led, Arrays, TopoArrays
<1>3. Memory
  BY <1>1 DEF Memory, Sane, Arrays, TopoArrays
<1>. QED  BY <1>2, <1>3 DEF Init, Usage
-----------------------------------------------------------------------------
(* What every step leaves behind. *)
LedTogether == ~ hung => Led(xcomm)
Outlasts ==
  /\ Typing'
  /\ EvenNodes /\ Located(xcomm) => Located(xcomm')
  /\ EvenNodes /\ EvenLeaders /\ Located(xcomm) /\ LedTogether => LedTogether'
  /\ Careful /\ EvenNodes /\ Memory => Memory'

LEMMA CallOutlasts ==
  ASSUME Typing, Ready, NEW y, xcomm' = y, host' = host, hung' \in BOOLEAN, freed' = freed,
         Typed(y), EvenNodes /\ Located(xcomm) => Located(y), hung' \/ Fit(xcomm, y),
         Careful => Spared(xcomm, y)
  PROVE  Outlasts
<1>1. Typing'
  BY DEF Typing
<1>3. EvenNodes /\ EvenLeaders /\ Located(xcomm) /\ LedTogether => LedTogether'
  BY DEF LedTogether, Ready, Fit
<1>2. ASSUME Careful, EvenNodes, Memory PROVE Memory'
  <2>1. Kept(xcomm)
    BY <1>2 DEF Memory, Kept, Ready
  <2>2. Kept(y)
    BY <1>2, <2>1 DEF Spared
  <2>. QED  BY <2>2 DEF Memory, Kept, Sane
<1>. QED  BY <1>1, <1>2, <1>3 DEF Outlasts

LEMMA StepOutlasts == Typing /\ [Next]_vars => Outlasts
<1> SUFFICES ASSUME Typing, [Next]_vars PROVE Outlasts
  OBVIOUS
<1>1. Typed(xcomm) /\ host \in Placements
  BY DEF Typing
<1>2. ASSUME NEW y, Ready, Becomes(y), Fit(xcomm, y), Careful => Spared(xcomm, y)
      PROVE  Outlasts
  BY <1>2, CallOutlasts DEF Becomes, Typing, Fit
<1>3. ASSUME TopoInit PROVE Outlasts
  BY <1>1, <1>2, <1>3, TopoInitFits DEF TopoInit
<1>4. ASSUME TopoFree PROVE Outlasts
  BY <1>1, <1>2, <1>4, TopoFreeFits DEF TopoFree, Intact
<1>5. ASSUME UpdateLocality PROVE Outlasts
  BY <1>1, <1>2, <1>5, UpdateLocalityFits DEF UpdateLocality, Intact
<1>6. ASSUME LeaderInit PROVE Outlasts
  <2>1. PICK n \in LeaderArgs : Becomes(leader_init(xcomm, [r \in Rank |-> n]))
    BY <1>6 DEF LeaderInit
  <2>2. n \in Nat \ {0}
    BY CommAssumption
  <2>3. PICK ppl : ppl = [r \in Rank |-> n]
    OBVIOUS
  <2> DEFINE z == leader_init(xcomm, ppl)
  <2>4. /\ Typed(z) /\ Spared(xcomm, z)
        /\ EvenNodes /\ Located(xcomm) => Located(z)
        /\ EvenNodes /\ Located(xcomm) /\ (\A r \in Rank : ppl[r] = n) => LedBy(z, n)
    BY <1>1, <2>2, LeaderInitFits
  <2>5. Becomes(z)
    BY <2>1, <2>3
  <2> HIDE DEF z
  <2>6. EvenNodes /\ Located(xcomm) => Led(z)
    BY <2>2, <2>3, <2>4 DEF Led
  <2>7. Fit(xcomm, z)
    BY <2>4, <2>6 DEF Fit
  <2>. QED  BY <1>2, <1>6, <2>4, <2>5, <2>7 DEF LeaderInit
<1>7. ASSUME LeaderFree PROVE Outlasts
  BY <1>1, <1>2, <1>7, LeaderFreeFits DEF LeaderFree
<1>8. ASSUME WinInit PROVE Outlasts
  BY <1>1, <1>2, <1>8, WinInitFits DEF WinInit
<1>9. ASSUME WinFree PROVE Outlasts
  BY <1>1, <1>2, <1>9, WinFreeFits DEF WinFree, Intact
<1>10. ASSUME CrsRma PROVE Outlasts
  BY <1>1, <1>2, <1>10, CrsRmaFits DEF CrsRma, Intact
<1>11. ASSUME ReqResize PROVE Outlasts
  BY <1>1, <1>2, <1>11, ReqResizeFits DEF ReqResize
<1>12. ASSUME GrowRequests PROVE Outlasts
  BY <1>1, <1>2, <1>12, ReqResizeFits DEF GrowRequests
<1>13. ASSUME AlltoallNode PROVE Outlasts
  <2>1. PICK y : y = TagAndTopology(xcomm)
    OBVIOUS
  <2>2. Fit(xcomm, y) /\ Spared(xcomm, y)
    BY <1>1, <2>1, TagAndTopologyFits
  <2>3. Ready /\ xcomm' = y /\ host' = host /\ hung' = hung /\ freed' = freed
    BY <1>13, <2>1 DEF AlltoallNode
  <2>. QED  BY <2>2, <2>3, CallOutlasts DEF Typing, Fit
<1>14. ASSUME AlltoallLeaders PROVE Outlasts
  <2>1. PICK y : y = Multileader(xcomm)
    OBVIOUS
  <2>2. /\ Typed(y) /\ Spared(xcomm, y) /\ (EvenNodes /\ Located(xcomm) => Located(y))
        /\ Missing(Checked(xcomm)) \in {{}, Rank} => Fit(xcomm, y)
    BY <1>1, <2>1, MultileaderFits
  <2>3. /\ Ready /\ xcomm' = y /\ host' = host /\ freed' = freed
        /\ hung' = (Missing(Checked(xcomm)) \notin {{}, Rank})
    BY <1>14, <2>1 DEF AlltoallLeaders
  <2>. QED  BY <2>2, <2>3, CallOutlasts
<1>15. ASSUME AlltoallMultileaderLocality PROVE Outlasts
  <2>1. PICK y : y = MultileaderLocality(xcomm)
    OBVIOUS
  <2>2. Fit(xcomm, y) /\ Spared(xcomm, y)
    BY <1>1, <2>1, MultileaderLocalityFits
  <2>3. Ready /\ xcomm' = y /\ host' = host /\ hung' = hung /\ freed' = freed
    BY <1>15, <2>1 DEF AlltoallMultileaderLocality
  <2>. QED  BY <2>2, <2>3, CallOutlasts DEF Typing, Fit
<1>16. ASSUME CommFree PROVE Outlasts
  <2>1. PICK y : y = comm_free(xcomm)
    OBVIOUS
  <2>2. /\ Fit(xcomm, y)
        /\ Kept(xcomm) /\ (\A a \in Arrays : xcomm.heap[a] # "dangling") => Sane(y)
    BY <1>1, <2>1, CommFreeFits
  <2>3. /\ Ready /\ xcomm' = y /\ host' = host /\ hung' = hung /\ freed' = TRUE
        /\ Intact(Arrays)
    BY <1>16, <2>1 DEF CommFree
  <2>4. Typing'
    BY <2>2, <2>3 DEF Typing, Fit
  <2>5. ASSUME Careful, Memory PROVE Memory'
    BY <2>2, <2>3, <2>5 DEF Intact, Memory, Kept, Ready, Sane
  <2>. QED  BY <2>2, <2>3, <2>4, <2>5 DEF Outlasts, Fit, Ready, LedTogether
<1>17. ASSUME UNCHANGED vars PROVE Outlasts
  <2>1. xcomm' = xcomm /\ host' = host /\ hung' = hung /\ freed' = freed
    BY <1>17 DEF vars
  <2>. QED  BY <2>1 DEF Outlasts, Typing, LedTogether, Memory, Sane
<1>. QED
  BY <1>3, <1>4, <1>5, <1>6, <1>7, <1>8, <1>9, <1>10, <1>11, <1>12, <1>13, <1>14, <1>15,
     <1>16, <1>17 DEF Next, Finished

(* Exchanges go over the node's communicators or the leaders'. *)
LEMMA StepUsage ==
  EvenNodes /\ EvenLeaders /\ Typing /\ Located(xcomm) /\ LedTogether /\ Usage /\ [Next]_vars
    => Usage'
<1> SUFFICES ASSUME EvenNodes, EvenLeaders, Typing, Located(xcomm), LedTogether, Usage,
                    [Next]_vars
             PROVE  Usage'
  OBVIOUS
<1>1. Typed(xcomm) /\ host \in Placements /\ (Ready => Led(xcomm))
  BY DEF Typing, LedTogether, Ready
<1>2. ASSUME use' = None PROVE Usage'
  BY <1>2 DEF Usage
<1>3. ASSUME AlltoallNode PROVE Usage'
  <2>1. PICK y : y = TagAndTopology(xcomm)
    OBVIOUS
  <2>2. y.comm["local_comm"] # Null
    BY <1>1, <2>1, TagAndTopologyFits
  <2>3. xcomm' = y /\ use' = Uses(y, "local_comm", "group_comm")
    BY <1>3, <2>1 DEF AlltoallNode
  <2>4. /\ use'.local = xcomm'.comm["local_comm"] /\ use'.group = xcomm'.comm["group_comm"]
        /\ xcomm'.comm["local_comm"] # Null
    BY <2>2, <2>3 DEF Uses, None
  <2>. QED  BY <2>4 DEF Usage, OverNode
<1>4. ASSUME AlltoallLeaders PROVE Usage'
  <2>1. PICK y, ch : y = Multileader(xcomm) /\ ch = Checked(xcomm)
    OBVIOUS
  <2>2. /\ Ready /\ xcomm' = y /\ hung' = (Missing(ch) \notin {{}, Rank})
        /\ use' = IF hung' THEN None ELSE Uses(y, "leader_comm", "leader_group_comm")
    BY <1>4, <2>1 DEF AlltoallLeaders
  <2>3. SUFFICES ASSUME ~ hung' PROVE Usage'
    BY <1>2, <2>2
  <2>4. Missing(ch) \in {{}, Rank} /\ use' = Uses(y, "leader_comm", "leader_group_comm")
    BY <2>2, <2>3
  <2>5. /\ y.comm["local_comm"] # Null
        /\ \E k \in Nat \ {0} : Even(y.comm["local_comm"], k) /\ LedBy(y, PerLeader(k))
    BY <1>1, <2>1, <2>2, <2>4, MultileaderFits
  <2>6. PICK k \in Nat \ {0} : Even(y.comm["local_comm"], k) /\ LedBy(y, PerLeader(k))
    BY <2>5
  <2>7. use'.local = y.comm["leader_comm"] /\ use'.group = y.comm["leader_group_comm"]
    BY <2>4 DEF Uses, None
  <2>8. OverLeaders'
    BY <2>2, <2>6, <2>7 DEF OverLeaders, LedBy
  <2>. QED  BY <2>2, <2>5, <2>8 DEF Usage
<1>5. ASSUME AlltoallMultileaderLocality PROVE Usage'
  <2>1. PICK y : y = MultileaderLocality(xcomm)
    OBVIOUS
  <2>2. \E n \in Nat \ {0} : LedBy(y, n)
    BY <1>1, <1>5, <2>1, MultileaderLocalityFits DEF AlltoallMultileaderLocality
  <2>3. use' = [Uses(y, "leader_comm", "group_comm") EXCEPT
                  !.leaders = y.comm["leader_local_comm"]]
    BY <1>5, <2>1 DEF AlltoallMultileaderLocality
  <2>4. use'.leaders = y.comm["leader_local_comm"]
    BY <2>3 DEF Uses, None
  <2>5. use'.leaders # Null
    BY <2>2, <2>4 DEF LedBy
  <2>. QED  BY <2>5 DEF Usage
<1>6. ASSUME UNCHANGED vars PROVE Usage'
  <2>1. xcomm' = xcomm /\ use' = use
    BY <1>6 DEF vars
  <2>. QED  BY <2>1 DEF Usage, OverNode, OverLeaders
<1>7. ASSUME Next, ~ AlltoallNode, ~ AlltoallLeaders, ~ AlltoallMultileaderLocality,
             ~ UNCHANGED vars
      PROVE  use' = None
  BY <1>7 DEF Next, TopoInit, TopoFree, UpdateLocality, LeaderInit, LeaderFree, WinInit,
              WinFree, CrsRma, ReqResize, GrowRequests, CommFree, Finished, Becomes
<1>. QED  BY <1>2, <1>3, <1>4, <1>5, <1>6, <1>7
-----------------------------------------------------------------------------
(* What the invariant says of the maps and of the exchanges. *)
LEMMA Locates ==
  ASSUME EvenNodes, Located(xcomm)
  PROVE  MapsLocate
<1> SUFFICES ASSUME xcomm.heap["ordered_global_ranks"] = "live", NEW r \in Rank, NEW s \in Rank
             PROVE  LET k == xcomm.toLocal[s] + xcomm.toNode[s] * xcomm.ppn[r]
                    IN  k \in DOMAIN xcomm.ordered[r] /\ xcomm.ordered[r][k] = s
  BY DEF MapsLocate
<1>1. PICK c \in Localities : Formed(xcomm, c)
  BY DEF Located
<1>2. PICK k \in Nat \ {0} : Partition(c) /\ Even(c, k)
  BY <1>1, LocalityEven
<1>3. xcomm.ppn[r] = k /\ Sizes(c)[r] = k
  BY <1>1, <1>2 DEF Formed, Sizes, Even
<1>4. xcomm.ordered[r] = Ordered(Numbers(Group(c)), Numbers(c), k)
  BY <1>1, <1>3 DEF Formed
<1>5. PICK i : i = IndexOf(Numbers(Group(c)), Numbers(c), k, s)
  OBVIOUS
<1>6. i \in DOMAIN xcomm.ordered[r] /\ xcomm.ordered[r][i] = s
  BY <1>2, <1>4, <1>5, OrderedInverts
<1>7. xcomm.toLocal[s] + xcomm.toNode[s] * xcomm.ppn[r] = i
  <2>1. PICK l \in Nat : l = Numbers(c)[s]
    BY <1>2, IndexType
  <2>2. PICK q \in Nat : q = Numbers(Group(c))[s]
    BY <1>2, IndexType
  <2>3. PICK m \in Nat : m = q * k
    BY Multiples
  <2>4. i = m + l
    BY <1>5, <2>1, <2>2, <2>3 DEF IndexOf
  <2>. QED  BY <1>1, <1>3, <2>1, <2>2, <2>3, <2>4 DEF Formed
<1>. QED  BY <1>6, <1>7

LEMMA NodesKnown ==
  ASSUME EvenNodes, HostsInStep, Located(xcomm)
  PROVE  NodesAreLocalComms
<1> SUFFICES ASSUME xcomm.comm["local_comm"] # Null, NEW r \in Rank, NEW s \in Rank
             PROVE  xcomm.toNode[r] = xcomm.toNode[s] <=> s \in xcomm.comm["local_comm"][r]
  BY DEF NodesAreLocalComms
<1>1. PICK c \in Localities : Formed(xcomm, c)
  BY DEF Located
<1>2. PICK k \in Nat \ {0} : Partition(c) /\ Even(c, k)
  BY <1>1, LocalityEven
<1>3. InStep(c)
  <2>1. CASE \E h \in Placements : c = OnHost(h)
    BY <2>1 DEF HostsInStep
  <2>2. CASE \E n \in PpnArgs : c = Blocks(n)
    BY <2>2, BlocksInStep, CommAssumption
  <2>. QED  BY <2>1, <2>2 DEF Localities
<1>4. Numbers(Group(c))[r] = Numbers(Group(c))[s] <=> s \in c[r]
  BY <1>2, <1>3, NodesOf
<1>. QED  BY <1>1, <1>4 DEF Formed

(* The leaders of the last exchange divide the nodes there are. *)
LEMMA LeadersDivide ==
  ASSUME EvenNodes, EvenLeaders, Located(xcomm), xcomm.comm["local_comm"] # Null, OverLeaders
  PROVE  \E c \in Localities, k \in Nat \ {0} :
           /\ Formed(xcomm, c) /\ Partition(c) /\ Even(c, k)
           /\ PerLeader(k) \in Nat \ {0} /\ k % PerLeader(k) = 0 /\ NumProcs % PerLeader(k) = 0
           /\ use.local = Blocks(PerLeader(k)) /\ use.group = Group(Blocks(PerLeader(k)))
<1>1. PICK c \in Localities : Formed(xcomm, c)
  BY DEF Located
<1>2. PICK k \in Nat \ {0} :
        /\ Partition(c) /\ Even(c, k)
        /\ k % PerLeader(k) = 0 /\ NumProcs % PerLeader(k) = 0
  BY <1>1, LocalityEven
<1>3. PICK j \in Nat \ {0} :
        /\ Even(xcomm.comm["local_comm"], j)
        /\ use.local = Blocks(PerLeader(j)) /\ use.group = Group(Blocks(PerLeader(j)))
  BY DEF OverLeaders
<1>4. j = k
  BY <1>1, <1>2, <1>3, RankFacts DEF Formed, Even
<1>. QED  BY <1>1, <1>2, <1>3, <1>4, PerLeaderType

LEMMA OverGrid ==
  ASSUME EvenNodes, EvenLeaders, Located(xcomm), Usage
  PROVE  ExchangesOverGrid
<1> SUFFICES ASSUME use # None, use.leaders = Null PROVE Grid(use.local, use.group)
  BY DEF ExchangesOverGrid, Grid
<1>1. xcomm.comm["local_comm"] # Null /\ (OverNode \/ OverLeaders)
  BY DEF Usage
<1>2. CASE OverNode
  <2>1. PICK c \in Localities : Formed(xcomm, c)
    BY <1>1 DEF Located
  <2>2. PICK k \in Nat \ {0} : Partition(c) /\ Even(c, k)
    BY <2>1, LocalityEven
  <2>3. Grid(c, Group(c))
    BY <2>2, GridOf
  <2>. QED  BY <1>2, <2>1, <2>3 DEF OverNode, Formed
<1>3. CASE OverLeaders
  <2>1. PICK k \in Nat \ {0} :
          /\ PerLeader(k) \in Nat \ {0} /\ NumProcs % PerLeader(k) = 0
          /\ use.local = Blocks(PerLeader(k)) /\ use.group = Group(Blocks(PerLeader(k)))
    BY <1>1, <1>3, LeadersDivide
  <2>2. PICK n \in Nat \ {0} : n = PerLeader(k)
    BY <2>1
  <2>3. Partition(Blocks(n)) /\ Even(Blocks(n), n)
    BY <2>1, <2>2, BlockOf, BlocksEven
  <2>4. Grid(Blocks(n), Group(Blocks(n)))
    BY <2>3, GridOf
  <2>. QED  BY <2>1, <2>2, <2>4
<1>. QED  BY <1>1, <1>2, <1>3

LEMMA WithinNode ==
  ASSUME EvenNodes, EvenLeaders, Located(xcomm), Usage
  PROVE  LeadersWithinNode
<1> SUFFICES ASSUME \A r, s \in Rank : xcomm.toNode # << >> /\ r < s =>
                                         xcomm.toNode[r] <= xcomm.toNode[s],
                    use.leaders = Null, NEW r \in Rank
             PROVE  use.local[r] \subseteq xcomm.comm["local_comm"][r]
  BY DEF LeadersWithinNode
<1>1. CASE use = None
  BY <1>1 DEF None, Null
<1>2. CASE use # None /\ OverNode
  BY <1>2 DEF OverNode
<1>3. CASE use # None /\ OverLeaders
  <2>1. xcomm.comm["local_comm"] # Null
    BY <1>3 DEF Usage
  <2>2. PICK c \in Localities, k \in Nat \ {0} :
          /\ Formed(xcomm, c) /\ Partition(c) /\ Even(c, k)
          /\ PerLeader(k) \in Nat \ {0} /\ k % PerLeader(k) = 0
          /\ use.local = Blocks(PerLeader(k))
    BY <1>3, <2>1, LeadersDivide
  <2>3. Numbers(Group(c)) # << >>
    <3>1. DOMAIN Numbers(Group(c)) # {} /\ DOMAIN << >> = {}
      BY RankFacts DEF Numbers
    <3>. QED  BY <3>1
  <2>4. NodesAscend(c)
    BY <2>2, <2>3 DEF Formed, NodesAscend
  <2>5. PICK n \in Nat \ {0} : n = PerLeader(k)
    BY <2>2
  <2>6. Blocks(n)[r] \subseteq c[r]
    BY <2>2, <2>4, <2>5, LeadersInside
  <2>. QED  BY <2>2, <2>5, <2>6 DEF Formed
<1>. QED  BY <1>1, <1>2, <1>3 DEF Usage
-----------------------------------------------------------------------------
(* The fields keep their types on every rank, whatever the machine and the  *)
(* arguments.                                                               *)
THEOREM TypeCorrect == Spec => []TypeOK
<1>1. Typing => TypeOK
  BY DEF Typing, Typed, TypeOK
<1>2. Typing /\ [Next]_vars => Typing'
  BY StepOutlasts DEF Outlasts
<1>. QED  BY InitTyping, <1>1, <1>2, PTL DEF Spec

(* On even nodes no call of a careful caller frees memory twice, writes     *)
(* after it was freed or writes past the end of the rank maps.              *)
THEOREM MemoryIsSafe ==
  ASSUME EvenNodes, Careful
  PROVE  Spec => []NoDanglingUse
<1> DEFINE Inv == Typing /\ Memory
<1>1. Init => Inv
  BY InitTyping, InitShape
<1>2. Inv /\ [Next]_vars => Inv'
  BY StepOutlasts DEF Outlasts
<1>3. Inv => NoDanglingUse
  BY DEF Memory, Sane, NoDanglingUse
<1> HIDE DEF Inv
<1>. QED  BY <1>1, <1>2, <1>3, PTL DEF Spec

(* On even nodes the maps locate every process, whichever calls have        *)
(* reshaped the topology.                                                   *)
THEOREM MapsAreRight ==
  ASSUME EvenNodes
  PROVE  Spec => []MapsLocate
<1> DEFINE Inv == Typing /\ Located(xcomm)
<1>1. Init => Inv
  BY InitTyping, InitShape
<1>2. Inv /\ [Next]_vars => Inv'
  BY StepOutlasts DEF Outlasts
<1>3. Inv => MapsLocate
  BY Locates
<1> HIDE DEF Inv
<1>. QED  BY <1>1, <1>2, <1>3, PTL DEF Spec

(* The maps tell the nodes apart if the hosts take turns in one order.      *)
THEOREM NodesAreRight ==
  ASSUME EvenNodes, HostsInStep
  PROVE  Spec => []NodesAreLocalComms
<1> DEFINE Inv == Typing /\ Located(xcomm)
<1>1. Init => Inv
  BY InitTyping, InitShape
<1>2. Inv /\ [Next]_vars => Inv'
  BY StepOutlasts DEF Outlasts
<1>3. Inv => NodesAreLocalComms
  BY NodesKnown
<1> HIDE DEF Inv
<1>. QED  BY <1>1, <1>2, <1>3, PTL DEF Spec

(* Leaders of one size are stale, or missing, on all ranks or on none.      *)
LEMMA AllOrNone ==
  ASSUME NEW x, Typed(x), host \in Placements,
         OneSize(x.comm["leader_comm"]), OneSize(Multileader(x).comm["local_comm"])
  PROVE  Missing(Checked(x)) \in {{}, Rank}
<1> DEFINE u == get_tag(x)
           t == WithTopology(u)
           ppl == ProcsPerLeader(t)
           y == FreeStale(t, ppl)
           z == WithLeaders(y, ProcsPerLeader(y))
<1>1. TagAndTopology(x) = t /\ Checked(x) = y /\ Multileader(x) = z
  BY DEF TagAndTopology, Checked, Multileader
<1>2. Typed(u) /\ KeepsLeaders(x, u)
  BY GetTagEffect
<1> HIDE DEF u
<1>3. Typed(t) /\ KeepsLeaders(u, t) /\ t.comm["local_comm"] # Null
  BY <1>2, WithTopologyEffect
<1> HIDE DEF t
<1> DEFINE c == t.comm["leader_comm"]
<1>4. /\ Typed(y) /\ KeepsTopology(t, y)
      /\ y.comm["leader_comm"] = [r \in Rank |-> IF Cardinality(c[r]) = ppl[r] THEN c[r] ELSE {}]
  <2> HIDE DEF ppl
  <2>. QED  BY <1>3, FreeStaleEffect
<1> HIDE DEF y
<1>5. KeepsTopology(y, z)
  <2>1. y.comm["local_comm"] # Null
    BY <1>3, <1>4 DEF KeepsTopology
  <2>. QED  BY <1>4, <2>1, WithLeadersFits
<1>6. OneSize(t.comm["local_comm"])
  <2> HIDE DEF z
  <2>. QED  BY <1>1, <1>4, <1>5 DEF KeepsTopology
<1>7. \A r, s \in Rank : ppl[r] = ppl[s]
  BY <1>6 DEF OneSize, ProcsPerLeader
<1>8. OneSize(c) /\ c \in [Rank -> SUBSET Rank]
  BY <1>2, <1>3 DEF KeepsLeaders, Typed, CommFields
<1> HIDE DEF c, ppl
<1>9. \A r, s \in Rank : c[r] = {} => c[s] = {}
  <2>1. \A r \in Rank : Cardinality(c[r]) = 0 <=> c[r] = {}
    BY <1>8, RankFacts, FS_Subset, FS_EmptySet
  <2>. QED  BY <1>8, <2>1 DEF OneSize
<1>10. \A r, s \in Rank : r \in Missing(y) => s \in Missing(y)
  <2> SUFFICES ASSUME NEW r \in Rank, NEW s \in Rank, r \in Missing(y) PROVE s \in Missing(y)
    OBVIOUS
  <2>1. Cardinality(c[r]) = Cardinality(c[s]) /\ ppl[r] = ppl[s] /\ (c[r] = {} => c[s] = {})
    BY <1>7, <1>8, <1>9 DEF OneSize
  <2>. QED  BY <1>4, <2>1 DEF Missing
<1>11. Missing(y) \subseteq Rank
  BY DEF Missing
<1>. QED  BY <1>1, <1>10, <1>11

(* No hypothesis on nodes or leaders: on every placement, and whatever      *)
(* arguments the calls before had, ranks part only over leaders or nodes of *)
(* two sizes.                                                               *)
THEOREM PartOnlyIfUneven == Spec => RanksPartOnlyIfUneven
<1>1. Typing /\ [Next]_vars =>
        [hung' => \/ hung
                  \/ ~ OneSize(xcomm.comm["leader_comm"])
                  \/ ~ OneSize(xcomm'.comm["local_comm"])]_vars
  <2> SUFFICES ASSUME Typing, Next, ~ hung, hung',
                      OneSize(xcomm.comm["leader_comm"]), OneSize(xcomm'.comm["local_comm"])
               PROVE  FALSE
    OBVIOUS
  <2>1. AlltoallLeaders
    BY DEF Next, TopoInit, TopoFree, UpdateLocality, LeaderInit, LeaderFree, WinInit, WinFree,
           CrsRma, ReqResize, GrowRequests, AlltoallNode, AlltoallMultileaderLocality,
           CommFree, Finished, Becomes, vars
  <2>2. xcomm' = Multileader(xcomm) /\ Missing(Checked(xcomm)) \notin {{}, Rank}
    BY <2>1 DEF AlltoallLeaders
  <2>. QED  BY <2>2, AllOrNone DEF Typing
<1>2. Init => Typing
  BY InitTyping
<1>3. Typing /\ [Next]_vars => Typing'
  BY StepOutlasts DEF Outlasts
<1>. QED  BY <1>1, <1>2, <1>3, PTL DEF Spec, RanksPartOnlyIfUneven

(* What the ranks exchange over is a grid whose leaders serve their own     *)
(* node, whatever leaders the caller has made: those that would not do are  *)
(* replaced on all ranks, or part the ranks before they exchange anything.  *)
IInv == Typing /\ Located(xcomm) /\ LedTogether /\ Usage

LEMMA Invariance ==
  ASSUME EvenNodes, EvenLeaders
  PROVE  Spec => []IInv
<1>1. Init => IInv
  BY InitTyping, InitShape DEF IInv, LedTogether
<1>2. IInv /\ [Next]_vars => IInv'
  <2> SUFFICES ASSUME IInv, [Next]_vars PROVE IInv'
    OBVIOUS
  <2>1. Outlasts
    BY StepOutlasts DEF IInv
  <2>2. Usage'
    BY StepUsage DEF IInv
  <2>. QED  BY <2>1, <2>2 DEF IInv, Outlasts
<1>. QED  BY <1>1, <1>2, PTL DEF Spec

(* The two communicators of an exchange form a grid over all the ranks. *)
THEOREM GridIsThere ==
  ASSUME EvenNodes, EvenLeaders
  PROVE  Spec => []ExchangesOverGrid
<1>1. IInv => ExchangesOverGrid
  BY OverGrid DEF IInv
<1>. QED  BY <1>1, Invariance, PTL

(* Where nodes are blocks, an exchange's leaders serve ranks of their node, *)
(* even if leaders for another locality were there before it.               *)
THEOREM LeadersAtHome ==
  ASSUME EvenNodes, EvenLeaders
  PROVE  Spec => []LeadersWithinNode
<1>1. IInv => LeadersWithinNode
  BY WithinNode DEF IInv
<1>. QED  BY <1>1, Invariance, PTL
=============================================================================
