------------------------ MODULE LocalityPlan_proofs ------------------------
(***************************************************************************)
(* Proofs about LocalityPlan, for every number of nodes and of ranks per    *)
(* node, every placement and every sequence of calls: that a receive loop    *)
(* takes only the messages of its own half, that the finished plans are a     *)
(* function of what was asked (PlanOf), and what that function promises.      *)
(***************************************************************************)
EXTENDS LocalityPlan, FiniteSetTheorems, SequenceTheorems, TLAPS

(* The announcements of one rank's S and R, and those of R and of the S of  *)
(* the next call, carry different tags (MPI guarantees MPI_TAG_UB >= 32767). *)
EnoughTags == MaxTag \notin {1, 5}
-----------------------------------------------------------------------------
(* Nodes and ranks. *)
LEMMA Ranks ==
  /\ IsFiniteSet(Proc) /\ IsFiniteSet(Nodes)
  /\ Proc \subseteq Nat /\ Nodes \subseteq Nat /\ LocalRanks \subseteq Nat
<1>1. NumNodes * PPN - 1 \in Int
  BY PlanAssumption
<1>2. IsFiniteSet(Proc)
  BY <1>1, FS_Interval DEF Proc
<1>3. IsFiniteSet(Nodes)
  <2>1. 0 \in Int /\ NumNodes - 1 \in Int
    BY PlanAssumption
  <2>. QED  BY <2>1, FS_Interval DEF Nodes
<1>4. Proc \subseteq Nat
  BY <1>1 DEF Proc
<1>. QED  BY <1>2, <1>3, <1>4, PlanAssumption DEF Nodes, LocalRanks

LEMMA Placed ==
  ASSUME NEW p \in Proc
  PROVE  Node[p] \in Nodes /\ Local[p] \in LocalRanks /\ Place[Node[p]][Local[p]] = p
<1>1. \E n \in Nodes : \E l \in LocalRanks : Place[n][l] = p
  BY PlanAssumption
<1>2. Node[p] = CHOOSE n \in Nodes : \E l \in LocalRanks : Place[n][l] = p
  BY DEF Node
<1>3. Node[p] \in Nodes /\ \E l \in LocalRanks : Place[Node[p]][l] = p
  BY <1>1, <1>2
<1>4. Local[p] = CHOOSE l \in LocalRanks : Place[Node[p]][l] = p
  BY DEF Local
<1>. QED  BY <1>3, <1>4

LEMMA PlaceOf ==
  ASSUME NEW n \in Nodes, NEW l \in LocalRanks
  PROVE  Place[n][l] \in Proc /\ Node[Place[n][l]] = n /\ Local[Place[n][l]] = l
<1>1. Place \in [Nodes -> [LocalRanks -> Proc]]
  BY PlanAssumption
<1>2. Place[n][l] \in Proc
  BY <1>1
<1>3. PICK p \in Proc : p = Place[n][l]
  BY <1>2
<1>4. \A m \in Nodes, k \in LocalRanks : Place[m][k] = p => m = n /\ k = l
  <2>1. PICK n0 \in Nodes, l0 \in LocalRanks :
          Place[n0][l0] = p /\ \A m \in Nodes, k \in LocalRanks : Place[m][k] = p => m = n0 /\ k = l0
    BY PlanAssumption
  <2>. QED  BY <2>1, <1>3
<1>5. Node[p] \in Nodes /\ Local[p] \in LocalRanks /\ Place[Node[p]][Local[p]] = p
  BY Placed
<1>. QED  BY <1>2, <1>3, <1>4, <1>5

LEMMA MatesOf ==
  ASSUME NEW p \in Proc
  PROVE  /\ p \in Mates(p) /\ Mates(p) \subseteq Proc
         /\ \A q \in Mates(p) : Node[q] = Node[p] /\ Mates(q) = Mates(p)
         /\ \A q \in Proc : q \in Mates(p) <=> Node[q] = Node[p]
BY DEF Mates
-----------------------------------------------------------------------------
(* Sorting: a finite set in a total order. *)
IsOrder(S, before) ==
  /\ before \in [S -> SUBSET S]
  /\ \A e \in S : e \notin before[e]
  /\ \A d, e \in S : d \in before[e] => before[d] \subseteq before[e]
  /\ \A d, e \in S : d = e \/ d \in before[e] \/ e \in before[d]

LEMMA SortedIs ==
  ASSUME NEW S, IsFiniteSet(S), NEW before, IsOrder(S, before)
  PROVE  /\ Cardinality(S) \in Nat /\ DOMAIN Sorted(S, before) = 1 .. Cardinality(S)
         /\ \A k \in DOMAIN Sorted(S, before) : Sorted(S, before)[k] \in S
         /\ \A e \in S : \E k \in DOMAIN Sorted(S, before) : Sorted(S, before)[k] = e
         /\ \A j, k \in DOMAIN Sorted(S, before) :
              Sorted(S, before)[j] = Sorted(S, before)[k] => j = k
<1> DEFINE T == 0 .. Cardinality(S) - 1
           g == [e \in S |-> Cardinality(before[e])]
<1>1. Cardinality(S) \in Nat
  BY FS_CardinalityType
<1>2. ASSUME NEW e \in S
      PROVE  IsFiniteSet(before[e]) /\ Cardinality(before[e]) \in T
  <2>1. before[e] \in SUBSET S /\ before[e] # S
    BY DEF IsOrder
  <2>2. IsFiniteSet(before[e]) /\ Cardinality(before[e]) <= Cardinality(S)
        /\ Cardinality(before[e]) # Cardinality(S)
    BY <2>1, FS_Subset
  <2>3. Cardinality(before[e]) \in Nat
    BY <2>2, FS_CardinalityType
  <2>. QED  BY <1>1, <2>2, <2>3
<1>3. ASSUME NEW d \in S, NEW e \in S, d \in before[e]
      PROVE  Cardinality(before[d]) # Cardinality(before[e])
  <2>1. before[d] \in SUBSET before[e] /\ before[d] # before[e]
    BY <1>3 DEF IsOrder
  <2>2. IsFiniteSet(before[e])
    BY <1>2
  <2>. QED  BY <2>1, <2>2, FS_Subset
<1>4. \A d, e \in S : Cardinality(before[d]) = Cardinality(before[e]) => d = e
  BY <1>3 DEF IsOrder
<1>5. g \in Injection(S, T)
  <2>1. g \in [S -> T]
    BY <1>2
  <2>2. \A d, e \in S : g[d] = g[e] => d = e
    BY <1>4
  <2> HIDE DEF g, T
  <2>. QED  BY <2>1, <2>2 DEF Injection, IsInjective
<1>6. IsFiniteSet(T) /\ Cardinality(T) = Cardinality(S)
  BY <1>1, FS_Interval
<1>7. g \in Surjection(S, T)
  <2> HIDE DEF g, T
  <2>. QED  BY <1>5, <1>6, FS_Injection
<1>8. \A t \in T : \E e \in S : g[e] = t
  <2> HIDE DEF g, T
  <2>. QED  BY <1>7 DEF Surjection
<1> DEFINE so == Sorted(S, before)
<1>9. DOMAIN so = 1 .. Cardinality(S)
  BY DEF Sorted
<1>10. ASSUME NEW k \in 1 .. Cardinality(S)
       PROVE  so[k] \in S /\ Cardinality(before[so[k]]) = k - 1
  <2>1. so[k] = CHOOSE e \in S : Cardinality(before[e]) = k - 1
    BY DEF Sorted
  <2>2. k - 1 \in T
    BY <1>1
  <2>3. \E e \in S : Cardinality(before[e]) = k - 1
    BY <1>8, <2>2
  <2> HIDE DEF so
  <2>. QED  BY <2>1, <2>3
<1>11. ASSUME NEW e \in S PROVE \E k \in 1 .. Cardinality(S) : so[k] = e
  <2>1. Cardinality(before[e]) \in T
    BY <1>2
  <2>2. PICK k \in 1 .. Cardinality(S) : Cardinality(before[e]) = k - 1
    <3>1. Cardinality(before[e]) + 1 \in 1 .. Cardinality(S)
      BY <1>1, <2>1
    <3>. QED  BY <2>1, <3>1
  <2>3. so[k] \in S /\ Cardinality(before[so[k]]) = k - 1
    BY <1>10
  <2> HIDE DEF so
  <2>. QED  BY <1>4, <2>2, <2>3
<1> HIDE DEF so, T, g
<1>12. \A j, k \in 1 .. Cardinality(S) : so[j] = so[k] => j = k
  BY <1>1, <1>10
<1>13. /\ DOMAIN so = 1 .. Cardinality(S)
       /\ \A k \in DOMAIN so : so[k] \in S
       /\ \A e \in S : \E k \in DOMAIN so : so[k] = e
       /\ \A j, k \in DOMAIN so : so[j] = so[k] => j = k
  BY <1>9, <1>10, <1>11, <1>12
<1>. QED  BY <1>1, <1>13 DEF so
-----------------------------------------------------------------------------
(* A request, from both sides. *)
Other(s) == IF s = "S" THEN "R" ELSE "S"

LEMMA OrigIs ==
  ASSUME NEW sends, IsRequest(sends), NEW p \in Proc, NEW s \in Sides
  PROVE  /\ DOMAIN Orig(sends, p, s) \subseteq Proc
         /\ \A d \in Proc : d \in DOMAIN Orig(sends, p, s) <=> p \in DOMAIN Orig(sends, d, Other(s))
         /\ \A d \in DOMAIN Orig(sends, p, s) :
              /\ Orig(sends, p, s)[d] = Orig(sends, d, Other(s))[p]
              /\ Orig(sends, p, s)[d] \in Seq(Nat) \ {<< >>}
              /\ IsInjective(Orig(sends, p, s)[d])
<1> DEFINE to(q) == { r \in Proc : q \in DOMAIN sends[r] }
<1>1. \A q \in Proc : /\ Orig(sends, q, "S") = sends[q]
                      /\ Orig(sends, q, "R") = [r \in to(q) |-> sends[r][q]]
  BY DEF Orig
<1>2. \A q \in Proc : DOMAIN sends[q] \subseteq Proc
  BY DEF IsRequest
<1>3. \A q \in Proc : \A d \in DOMAIN sends[q] : /\ sends[q][d] \in Seq(Nat) \ {<< >>}
                                                /\ IsInjective(sends[q][d])
  BY DEF IsRequest
<1>4. \A q \in Proc : /\ DOMAIN Orig(sends, q, "R") = to(q)
                      /\ \A r \in to(q) : Orig(sends, q, "R")[r] = sends[r][q]
  BY <1>1
<1>5. \A q \in Proc : \A r : r \in to(q) <=> r \in Proc /\ q \in DOMAIN sends[r]
  OBVIOUS
<1> HIDE DEF to
<1> DEFINE S(q) == Orig(sends, q, "S")
           R(q) == Orig(sends, q, "R")
<1>6. \A q \in Proc : DOMAIN S(q) = DOMAIN sends[q] /\ \A r \in DOMAIN S(q) : S(q)[r] = sends[q][r]
  BY <1>1
<1>7. \A q \in Proc : DOMAIN R(q) = to(q) /\ \A r \in DOMAIN R(q) : R(q)[r] = sends[r][q]
  BY <1>4
<1> HIDE DEF S, R
<1>8. /\ DOMAIN S(p) \subseteq Proc /\ DOMAIN R(p) \subseteq Proc
      /\ \A d \in Proc : d \in DOMAIN S(p) <=> p \in DOMAIN R(d)
      /\ \A d \in Proc : d \in DOMAIN R(p) <=> p \in DOMAIN S(d)
  BY <1>2, <1>5, <1>6, <1>7
<1>9. ASSUME NEW d \in DOMAIN S(p)
      PROVE  S(p)[d] = R(d)[p] /\ S(p)[d] \in Seq(Nat) \ {<< >>} /\ IsInjective(S(p)[d])
  BY <1>3, <1>6, <1>7, <1>8
<1>10. ASSUME NEW d \in DOMAIN R(p)
       PROVE  R(p)[d] = S(d)[p] /\ R(p)[d] \in Seq(Nat) \ {<< >>} /\ IsInjective(R(p)[d])
  BY <1>3, <1>6, <1>7, <1>8
<1>11. CASE s = "S"
  <2>1. Other(s) = "R"
    BY <1>11 DEF Other
  <2>. QED  BY <1>8, <1>9, <1>11, <2>1 DEF S, R
<1>12. CASE s = "R"
  <2>1. Other(s) = "S"
    BY <1>12 DEF Other
  <2>. QED  BY <1>8, <1>10, <1>12, <2>1 DEF S, R
<1>. QED  BY <1>11, <1>12 DEF Sides

LEMMA SeqFacts ==
  ASSUME NEW f \in Seq(Nat) \ {<< >>}
  PROVE  /\ Len(f) \in Nat \ {0} /\ DOMAIN f = 1 .. Len(f) /\ IsFiniteSet(DOMAIN f)
         /\ 1 \in DOMAIN f /\ \A k \in DOMAIN f : f[k] \in Nat
<1>1. Len(f) \in Nat \ {0} /\ DOMAIN f = 1 .. Len(f) /\ \A k \in DOMAIN f : f[k] \in Nat
  OBVIOUS
<1>2. IsFiniteSet(1 .. Len(f))
  BY <1>1, FS_Interval
<1>. QED  BY <1>1, <1>2

(* What the ranks of node n exchange with node m. *)
Pairs(sends, n, s, m) ==
  { pd \in Proc \X Proc : Node[pd[1]] = n /\ Node[pd[2]] = m /\ pd[2] \in DOMAIN Orig(sends, pd[1], s) }

LEMMA NodeSizeIs ==
  ASSUME NEW sends, IsRequest(sends), NEW s \in Sides, NEW n, NEW m
  PROVE  /\ NodeSize(sends, n, s, m) \in Nat
         /\ NodeSize(sends, n, s, m) > 0 <=> Pairs(sends, n, s, m) # {}
<1> DEFINE P == Pairs(sends, n, s, m)
           U(w) == {w} \X (DOMAIN Orig(sends, w[1], s)[w[2]])
           F == { U(w) : w \in P }
<1>1. NodeSize(sends, n, s, m) = Cardinality(UNION F)
  BY DEF NodeSize, Pairs
<1>2. IsFiniteSet(P)
  <2>1. IsFiniteSet(Proc \X Proc)
    BY Ranks, FS_Product
  <2>2. P \in SUBSET (Proc \X Proc)
    BY DEF Pairs
  <2>. QED  BY <2>1, <2>2, FS_Subset
<1>3. ASSUME NEW w \in P PROVE IsFiniteSet(U(w)) /\ U(w) # {}
  <2>1. w[1] \in Proc /\ w[2] \in DOMAIN Orig(sends, w[1], s)
    BY DEF Pairs
  <2>2. Orig(sends, w[1], s)[w[2]] \in Seq(Nat) \ {<< >>}
    BY <2>1, OrigIs
  <2>3. PICK f \in Seq(Nat) \ {<< >>} : f = Orig(sends, w[1], s)[w[2]]
    BY <2>2
  <2>4. IsFiniteSet(DOMAIN f) /\ 1 \in DOMAIN f
    BY SeqFacts
  <2>5. IsFiniteSet({w} \X DOMAIN f)
    BY <2>4, FS_Singleton, FS_Product
  <2>6. <<w, 1>> \in {w} \X DOMAIN f
    BY <2>4
  <2>. QED  BY <2>3, <2>5, <2>6
<1> HIDE DEF U
<1>4. IsFiniteSet(F)
  <2> DEFINE h == [w \in P |-> U(w)]
  <2>1. h \in Surjection(P, F)
    BY DEF Surjection
  <2> HIDE DEF h, F
  <2>. QED  BY <1>2, <2>1, FS_Surjection
<1>5. IsFiniteSet(UNION F)
  <2>1. \A T \in F : IsFiniteSet(T)
    BY <1>3
  <2> HIDE DEF F
  <2>. QED  BY <1>4, <2>1, FS_UNION
<1>6. Cardinality(UNION F) \in Nat /\ (Cardinality(UNION F) = 0 <=> UNION F = {})
  <2> HIDE DEF F
  <2>. QED  BY <1>5, FS_CardinalityType, FS_EmptySet
<1>7. UNION F = {} <=> P = {}
  BY <1>3
<1> HIDE DEF F, P
<1>8. Cardinality(UNION F) > 0 <=> P # {}
  BY <1>6, <1>7
<1>. QED  BY <1>1, <1>6, <1>8 DEF P

(* The nodes that node n exchanges messages with. *)
Partners(sends, n, s) == { m \in Nodes \ {n} : Pairs(sends, n, s, m) # {} }

LEMMA MsgNodesIs ==
  ASSUME NEW sends, IsRequest(sends), NEW s \in Sides, NEW n \in Nodes
  PROVE  /\ DOMAIN MsgNodes(sends, n, s) = 1 .. Cardinality(Partners(sends, n, s))
         /\ Cardinality(Partners(sends, n, s)) \in Nat
         /\ \A m \in Partners(sends, n, s) : \E k \in DOMAIN MsgNodes(sends, n, s) :
              MsgNodes(sends, n, s)[k] = m
<1> DEFINE size == [m \in Nodes |-> NodeSize(sends, n, s, m)]
           others == { m \in Nodes \ {n} : size[m] > 0 }
           before == [m \in others |->
                        { k \in others : size[k] > size[m] \/ (size[k] = size[m] /\ k < m) }]
<1>1. MsgNodes(sends, n, s) = Sorted(others, before)
  BY DEF MsgNodes
<1>2. \A m \in Nodes : size[m] \in Nat /\ (size[m] > 0 <=> Pairs(sends, n, s, m) # {})
  BY NodeSizeIs
<1> HIDE DEF size
<1>3. others = Partners(sends, n, s)
  BY <1>2 DEF Partners
<1>4. IsFiniteSet(others)
  <2>1. others \in SUBSET Nodes
    OBVIOUS
  <2> HIDE DEF others
  <2>. QED  BY <2>1, Ranks, FS_Subset
<1>5. IsOrder(others, before)
  <2>1. \A m \in others : m \in Nat /\ size[m] \in Nat
    BY <1>2, Ranks
  <2>2. before \in [others -> SUBSET others]
    OBVIOUS
  <2>3. \A d, e \in others : d \in before[e] <=> (size[d] > size[e] \/ (size[d] = size[e] /\ d < e))
    OBVIOUS
  <2> HIDE DEF others, before
  <2>4. \A e \in others : e \notin before[e]
    BY <2>1, <2>3
  <2>5. \A d, e \in others : d = e \/ d \in before[e] \/ e \in before[d]
    BY <2>1, <2>3
  <2>6. ASSUME NEW d \in others, NEW e \in others, d \in before[e], NEW c \in before[d]
        PROVE  c \in before[e]
    <3>1. c \in others
      BY <2>2
    <3>. QED  BY <2>1, <2>3, <2>6, <3>1
  <2>. QED  BY <2>2, <2>4, <2>5, <2>6 DEF IsOrder
<1> HIDE DEF others, before
<1>6. /\ Cardinality(others) \in Nat /\ DOMAIN Sorted(others, before) = 1 .. Cardinality(others)
      /\ \A e \in others : \E k \in DOMAIN Sorted(others, before) : Sorted(others, before)[k] = e
  BY <1>4, <1>5, SortedIs
<1>. QED  BY <1>1, <1>3, <1>6

LEMMA DealtIs ==
  ASSUME NEW k \in Nat \ {0}, NEW s \in Sides
  PROVE  Dealt(k, s) \in LocalRanks
<1>1. PPN \in Nat \ {0} /\ 2 * PPN \in Nat \ {0} /\ k - 1 \in Nat
  BY PlanAssumption
<1>2. (k - 1) % (2 * PPN) \in 0 .. 2 * PPN - 1
  <2>1. PICK n \in Nat \ {0} : n = 2 * PPN
    BY <1>1
  <2>2. (k - 1) % n \in 0 .. n - 1
    BY <1>1
  <2>. QED  BY <2>1, <2>2
<1>3. PICK r \in 0 .. 2 * PPN - 1 : r = (k - 1) % (2 * PPN)
  BY <1>2
<1>. QED  BY <1>1, <1>3 DEF Dealt, LocalRanks

(* The rank in charge of an exchange is a rank of the node. *)
LEMMA InChargeIs ==
  ASSUME NEW sends, IsRequest(sends), NEW s \in Sides, NEW n \in Nodes,
         NEW m \in Partners(sends, n, s)
  PROVE  InCharge(sends, n, s, m) \in Proc /\ Node[InCharge(sends, n, s, m)] = n
<1> DEFINE order == MsgNodes(sends, n, s)
           k == CHOOSE j \in DOMAIN order : order[j] = m
<1>1. InCharge(sends, n, s, m) = Place[n][Dealt(k, s)]
  BY DEF InCharge
<1>2. DOMAIN order \subseteq Nat \ {0} /\ \E j \in DOMAIN order : order[j] = m
  BY MsgNodesIs
<1> HIDE DEF order
<1>3. k \in Nat \ {0}
  BY <1>2
<1> HIDE DEF k
<1>4. Dealt(k, s) \in LocalRanks
  BY <1>3, DealtIs
<1>. QED  BY <1>1, <1>4, PlaceOf
-----------------------------------------------------------------------------
(* What a rank hands over: an entry for every element of a message abroad. *)
Abroad(sends, p, s) == { d \in DOMAIN Orig(sends, p, s) : Node[d] # Node[p] }
Entry(sends, p, s, d, k) == <<Orig(sends, p, s)[d][k], Node[d], p, d>>
Entries(sends, p, s) ==
  { e \in Nat \X Nodes \X Proc \X Proc :
      /\ e[3] = p /\ e[4] \in Abroad(sends, p, s)
      /\ \E k \in DOMAIN Orig(sends, p, s)[e[4]] : e = Entry(sends, p, s, e[4], k) }

LEMMA EntryIs ==
  ASSUME NEW sends, IsRequest(sends), NEW p \in Proc, NEW s \in Sides,
         NEW d \in Abroad(sends, p, s), NEW k \in DOMAIN Orig(sends, p, s)[d]
  PROVE  Entry(sends, p, s, d, k) \in Entries(sends, p, s)
<1>1. d \in Proc /\ d \in DOMAIN Orig(sends, p, s) /\ Orig(sends, p, s)[d] \in Seq(Nat) \ {<< >>}
  BY OrigIs DEF Abroad
<1>2. Orig(sends, p, s)[d][k] \in Nat /\ Node[d] \in Nodes
  BY <1>1, Placed
<1>. QED  BY <1>1, <1>2 DEF Entry, Entries

(* The entries are those the code makes, ... *)
LEMMA EntriesMade ==
  ASSUME NEW sends, IsRequest(sends), NEW p \in Proc, NEW s \in Sides
  PROVE  UNION { { <<Orig(sends, p, s)[d][k], Node[d], p, d>> : k \in DOMAIN Orig(sends, p, s)[d] } :
                   d \in DOMAIN Orig(sends, p, s) \ Mates(p) } = Entries(sends, p, s)
<1> DEFINE M(d) == { <<Orig(sends, p, s)[d][k], Node[d], p, d>> : k \in DOMAIN Orig(sends, p, s)[d] }
           D == DOMAIN Orig(sends, p, s) \ Mates(p)
<1>1. D = Abroad(sends, p, s)
  BY OrigIs, MatesOf DEF Abroad
<1>2. ASSUME NEW d \in D PROVE M(d) \subseteq Entries(sends, p, s)
  <2>1. \A k \in DOMAIN Orig(sends, p, s)[d] :
          Entry(sends, p, s, d, k) \in Entries(sends, p, s)
    BY <1>1, EntryIs
  <2>. QED  BY <2>1 DEF Entry
<1>3. ASSUME NEW e \in Entries(sends, p, s) PROVE \E d \in D : e \in M(d)
  <2>1. /\ e[4] \in Abroad(sends, p, s)
        /\ \E k \in DOMAIN Orig(sends, p, s)[e[4]] : e = Entry(sends, p, s, e[4], k)
    BY DEF Entries
  <2>2. e[4] \in D /\ e \in M(e[4])
    BY <1>1, <2>1 DEF Entry
  <2>. QED  BY <2>2
<1> HIDE DEF M, D
<1>4. UNION { M(d) : d \in D } = Entries(sends, p, s)
  BY <1>2, <1>3
<1>. QED  BY <1>4 DEF M, D

(* ... finitely many, and about exchanges with other nodes. *)
LEMMA EntriesFinite ==
  ASSUME NEW sends, IsRequest(sends), NEW p \in Proc, NEW s \in Sides
  PROVE  IsFiniteSet(Entries(sends, p, s))
<1> DEFINE M(d) == { <<Orig(sends, p, s)[d][k], Node[d], p, d>> : k \in DOMAIN Orig(sends, p, s)[d] }
           D == DOMAIN Orig(sends, p, s) \ Mates(p)
           F == { M(d) : d \in D }
<1>1. UNION F = Entries(sends, p, s)
  BY EntriesMade
<1>2. IsFiniteSet(D)
  <2>1. D \in SUBSET Proc
    BY OrigIs
  <2>. QED  BY <2>1, Ranks, FS_Subset
<1>3. ASSUME NEW d \in D PROVE IsFiniteSet(M(d))
  <2> DEFINE K == DOMAIN Orig(sends, p, s)[d]
             g == [k \in K |-> <<Orig(sends, p, s)[d][k], Node[d], p, d>>]
  <2>1. IsFiniteSet(K)
    <3>1. Orig(sends, p, s)[d] \in Seq(Nat) \ {<< >>}
      BY OrigIs
    <3>. QED  BY <3>1, SeqFacts
  <2>2. g \in Surjection(K, M(d))
    BY DEF Surjection
  <2> HIDE DEF g, K, M
  <2>. QED  BY <2>1, <2>2, FS_Surjection
<1>4. IsFiniteSet(F)
  <2> DEFINE h == [d \in D |-> M(d)]
  <2> HIDE DEF M, D
  <2>1. h \in Surjection(D, F)
    BY DEF Surjection
  <2> HIDE DEF h, F
  <2>. QED  BY <1>2, <2>1, FS_Surjection
<1>5. \A T \in F : IsFiniteSet(T)
  <2> HIDE DEF M, D
  <2>. QED  BY <1>3
<1> HIDE DEF F
<1>. QED  BY <1>1, <1>4, <1>5, FS_UNION

LEMMA EntryPartner ==
  ASSUME NEW sends, IsRequest(sends), NEW p \in Proc, NEW s \in Sides, NEW e \in Entries(sends, p, s)
  PROVE  e[2] \in Partners(sends, Node[p], s) /\ e[2] \in Nodes \ {Node[p]} /\ e[2] = Node[e[4]]
<1>1. e[4] \in Abroad(sends, p, s) /\ e[2] = Node[e[4]]
  BY DEF Entries, Entry
<1>2. e[4] \in Proc /\ e[4] \in DOMAIN Orig(sends, p, s) /\ Node[e[4]] # Node[p]
  BY <1>1, OrigIs DEF Abroad
<1>3. <<p, e[4]>> \in Pairs(sends, Node[p], s, Node[e[4]])
  BY <1>2 DEF Pairs
<1>. QED  BY <1>1, <1>2, <1>3, Placed DEF Partners

LEMMA SendDataIs ==
  ASSUME NEW sends, IsRequest(sends), NEW p \in Proc, NEW s \in Sides
  PROVE  /\ \A q : q \in DOMAIN SendData(sends, p, s) <=>
                     \E e \in Entries(sends, p, s) : q = InCharge(sends, Node[p], s, e[2])
         /\ \A q \in DOMAIN SendData(sends, p, s) : SendData(sends, p, s)[q] =
              { e \in Entries(sends, p, s) : q = InCharge(sends, Node[p], s, e[2]) }
<1> DEFINE E == Entries(sends, p, s)
           charge == [n \in { e[2] : e \in E } |-> InCharge(sends, Node[p], s, n)]
<1>1. SendData(sends, p, s) = [q \in Range(charge) |-> { e \in E : charge[e[2]] = q }]
  <2>1. E = UNION { { <<Orig(sends, p, s)[d][k], Node[d], p, d>> : k \in DOMAIN Orig(sends, p, s)[d] } :
                   d \in DOMAIN Orig(sends, p, s) \ Mates(p) }
    BY EntriesMade
  <2>2. PICK F : F = E
    OBVIOUS
  <2>. QED  BY <2>1, <2>2 DEF SendData
<1>2. \A e \in E : charge[e[2]] = InCharge(sends, Node[p], s, e[2])
  OBVIOUS
<1>3. \A q : q \in Range(charge) <=> \E e \in E : q = InCharge(sends, Node[p], s, e[2])
  BY DEF Range
<1> HIDE DEF charge, E
<1>4. /\ DOMAIN SendData(sends, p, s) = Range(charge)
      /\ \A q \in Range(charge) : SendData(sends, p, s)[q] = { e \in E : charge[e[2]] = q }
  BY <1>1
<1>5. ASSUME NEW q \in Range(charge)
      PROVE  SendData(sends, p, s)[q] = { e \in E : q = InCharge(sends, Node[p], s, e[2]) }
  BY <1>2, <1>4
<1>6. /\ \A q : q \in DOMAIN SendData(sends, p, s) <=> \E e \in E : q = InCharge(sends, Node[p], s, e[2])
      /\ \A q \in DOMAIN SendData(sends, p, s) :
           SendData(sends, p, s)[q] = { e \in E : q = InCharge(sends, Node[p], s, e[2]) }
  BY <1>3, <1>4, <1>5
<1>. QED  BY <1>6 DEF E

(* A rank hands its entries to ranks of its node, something to each. *)
LEMMA HandedIs ==
  ASSUME NEW sends, IsRequest(sends), NEW p \in Proc, NEW s \in Sides,
         NEW q \in DOMAIN SendData(sends, p, s)
  PROVE  /\ q \in Proc /\ Node[q] = Node[p] /\ q \in Mates(p) /\ p \in Mates(q)
         /\ SendData(sends, p, s)[q] # {} /\ IsFiniteSet(SendData(sends, p, s)[q])
         /\ SendData(sends, p, s)[q] \subseteq Entries(sends, p, s)
<1>1. PICK e \in Entries(sends, p, s) : q = InCharge(sends, Node[p], s, e[2])
  BY SendDataIs
<1>2. e[2] \in Partners(sends, Node[p], s) /\ Node[p] \in Nodes
  BY EntryPartner, Placed
<1>3. q \in Proc /\ Node[q] = Node[p]
  BY <1>1, <1>2, InChargeIs
<1>4. SendData(sends, p, s)[q] = { f \in Entries(sends, p, s) : q = InCharge(sends, Node[p], s, f[2]) }
  BY SendDataIs
<1>5. IsFiniteSet(SendData(sends, p, s)[q])
  BY <1>4, EntriesFinite, FS_Subset
<1>6. e \in SendData(sends, p, s)[q]
  BY <1>1, <1>4
<1>7. SendData(sends, p, s)[q] \subseteq Entries(sends, p, s)
  BY <1>4
<1>. QED  BY <1>3, <1>5, <1>6, <1>7, MatesOf
-----------------------------------------------------------------------------
(* Where a rank is: its progress when it is at a step of call c. *)
Pos(w) == CHOOSE i \in DOMAIN Order : Order[i] = w
When(c, step, s) == c * 12 + Pos(<<step, s>>)

LEMMA OrderIs ==
  /\ Len(Order) = 12 /\ DOMAIN Order = 1 .. 12
  /\ Order[1] = <<"sizes", "S">> /\ Order[2] = <<"form", "S">> /\ Order[3] = <<"probe", "S">>
  /\ Order[4] = <<"sizes", "R">> /\ Order[5] = <<"form", "R">> /\ Order[6] = <<"probe", "R">>
  /\ Order[7] = <<"find", "S">> /\ Order[8] = <<"learn", "S">>
  /\ Order[9] = <<"find", "R">> /\ Order[10] = <<"learn", "R">>
  /\ Order[11] = <<"nodes", "R">> /\ Order[12] = <<"idle", "R">>
BY DEF Order

LEMMA OrderInjective ==
  ASSUME NEW i \in 1 .. 12, NEW j \in 1 .. 12, Order[i] = Order[j]
  PROVE  i = j
<1>1. CASE i \in 1 .. 6
  BY <1>1, OrderIs
<1>2. CASE i \in 7 .. 12
  BY <1>2, OrderIs
<1>. QED  BY <1>1, <1>2

LEMMA PosOf ==
  ASSUME NEW i \in 1 .. 12
  PROVE  Pos(Order[i]) = i
BY OrderIs, OrderInjective DEF Pos

LEMMA PosIs ==
  /\ Pos(<<"sizes", "S">>) = 1 /\ Pos(<<"form", "S">>) = 2 /\ Pos(<<"probe", "S">>) = 3
  /\ Pos(<<"sizes", "R">>) = 4 /\ Pos(<<"form", "R">>) = 5 /\ Pos(<<"probe", "R">>) = 6
  /\ Pos(<<"find", "S">>) = 7 /\ Pos(<<"learn", "S">>) = 8
  /\ Pos(<<"find", "R">>) = 9 /\ Pos(<<"learn", "R">>) = 10
  /\ Pos(<<"nodes", "R">>) = 11 /\ Pos(<<"idle", "R">>) = 12
<1>1. /\ Pos(Order[1]) = 1 /\ Pos(Order[2]) = 2 /\ Pos(Order[3]) = 3 /\ Pos(Order[4]) = 4
      /\ Pos(Order[5]) = 5 /\ Pos(Order[6]) = 6 /\ Pos(Order[7]) = 7 /\ Pos(Order[8]) = 8
      /\ Pos(Order[9]) = 9 /\ Pos(Order[10]) = 10 /\ Pos(Order[11]) = 11 /\ Pos(Order[12]) = 12
  BY PosOf
<1>. QED  BY <1>1, OrderIs

LEMMA WhenIs ==
  ASSUME NEW c \in Int
  PROVE  /\ When(c, "sizes", "S") = 12 * c + 1 /\ When(c, "form", "S") = 12 * c + 2
         /\ When(c, "probe", "S") = 12 * c + 3 /\ When(c, "sizes", "R") = 12 * c + 4
         /\ When(c, "form", "R") = 12 * c + 5 /\ When(c, "probe", "R") = 12 * c + 6
         /\ When(c, "find", "S") = 12 * c + 7 /\ When(c, "learn", "S") = 12 * c + 8
         /\ When(c, "find", "R") = 12 * c + 9 /\ When(c, "learn", "R") = 12 * c + 10
         /\ When(c, "nodes", "R") = 12 * c + 11 /\ When(c, "idle", "R") = 12 * c + 12
BY PosIs DEF When

LEMMA PlaceIs ==
  ASSUME NEW w \in Range(Order)
  PROVE  /\ w = <<w[1], w[2]>> /\ w[2] \in Sides /\ Pos(w) \in 1 .. 12
         /\ w[1] \in {"sizes", "form", "probe", "find", "learn", "nodes", "idle"}
         /\ w[1] \in {"nodes", "idle"} => w[2] = "R"
<1>1. PICK i \in 1 .. 12 : w = Order[i]
  BY OrderIs DEF Range
<1>2. Pos(w) \in 1 .. 12
  BY <1>1, PosOf
<1>3. CASE i \in 1 .. 6
  BY <1>1, <1>2, <1>3, OrderIs DEF Sides
<1>4. CASE i \in 7 .. 12
  BY <1>1, <1>2, <1>4, OrderIs DEF Sides
<1>. QED  BY <1>3, <1>4

LEMMA InOrder ==
  /\ \A s \in Sides : /\ <<"sizes", s>> \in Range(Order) /\ <<"form", s>> \in Range(Order)
                      /\ <<"probe", s>> \in Range(Order) /\ <<"find", s>> \in Range(Order)
                      /\ <<"learn", s>> \in Range(Order)
  /\ <<"nodes", "R">> \in Range(Order) /\ <<"idle", "R">> \in Range(Order)
<1>1. \A i \in 1 .. 12 : Order[i] \in Range(Order)
  BY OrderIs DEF Range
<1>2. /\ Order[1] \in Range(Order) /\ Order[2] \in Range(Order) /\ Order[3] \in Range(Order)
      /\ Order[4] \in Range(Order) /\ Order[5] \in Range(Order) /\ Order[6] \in Range(Order)
      /\ Order[7] \in Range(Order) /\ Order[8] \in Range(Order) /\ Order[9] \in Range(Order)
      /\ Order[10] \in Range(Order) /\ Order[11] \in Range(Order) /\ Order[12] \in Range(Order)
  BY <1>1
<1>. QED  BY <1>2, OrderIs DEF Sides
-----------------------------------------------------------------------------
(* What a rank is handed in all, and the messages of a call. *)
Senders(sends, p, s) == { q \in Proc : p \in DOMAIN SendData(sends, q, s) }
RecvOf(sends, p, s) == [q \in Senders(sends, p, s) |-> SendData(sends, q, s)[p]]
EntriesAt(sends, p, s) == UNION { SendData(sends, q, s)[p] : q \in Senders(sends, p, s) }
GlobalOf(sends, p, s) ==
  [n \in { e[2] : e \in EntriesAt(sends, p, s) } |-> { e \in EntriesAt(sends, p, s) : e[2] = n }]

Calls == 1 .. NumCalls

(* The tag counter after k tags have been taken, and the two tags of a call. *)
Tag(k) == (126 + k) % MaxTag
AnnTag(c, s) == Tag(6 * (c - 1) + IF s = "S" THEN 4 ELSE 5)

HandMsg(c, s, p, q) ==
  [comm |-> "local", tag |-> Fixed(s), src |-> p, dst |-> q,
   call |-> c, side |-> s, node |-> Node[p], body |-> SendData(Asked(c), p, s)[q]]
AnnMsg(c, s, p, n) ==
  [comm |-> "global", tag |-> AnnTag(c, s), src |-> p, dst |-> Place[n][Local[p]],
   call |-> c, side |-> s, node |-> Node[p], body |-> {}]

Hands(c, s, p) == { HandMsg(c, s, p, q) : q \in DOMAIN SendData(Asked(c), p, s) }
Anns(c, s, p) == { AnnMsg(c, s, p, n) : n \in DOMAIN GlobalOf(Asked(c), p, s) }

(* m is handed to a rank of the node, or is an announcement. *)
IsHand(m) ==
  /\ m.comm = "local" /\ m.call \in Calls /\ m.side \in Sides /\ m.src \in Proc
  /\ m \in Hands(m.call, m.side, m.src)
IsAnn(m) ==
  /\ m.comm = "global" /\ m.call \in Calls /\ m.side \in Sides /\ m.src \in Proc
  /\ m \in Anns(m.call, m.side, m.src)
-----------------------------------------------------------------------------
(* The inductive invariant.  Except for the messages under way, the state    *)
(* follows from the progress of the ranks. *)
Typed ==
  /\ input \in DOMAIN Inputs
  /\ call \in [Proc -> 0 .. NumCalls]
  /\ at \in [Proc -> Range(Order)]
  /\ \A p \in Proc : call[p] = 0 => at[p] = <<"idle", "R">>

HalfOf(p, c, s) ==
  [send |-> IF Progress(p) >= When(c, "form", s) THEN SendData(Asked(c), p, s) ELSE << >>,
   recv |-> IF Progress(p) > When(c, "probe", s) THEN RecvOf(Asked(c), p, s) ELSE << >>,
   local |-> IF Progress(p) >= When(c, "form", s) THEN LocalData(Asked(c), p, s) ELSE << >>,
   global |-> IF Progress(p) > When(c, "probe", s) THEN GlobalOf(Asked(c), p, s) ELSE << >>]
HalfIs == half = [p \in Proc |-> [c \in Calls |-> [s \in Sides |-> HalfOf(p, c, s)]]]

TagsTaken(p) == IF Progress(p) >= When(call[p], "find", "S") THEN 6 * call[p]
                ELSE 6 * (call[p] - 1) + 4
TagsAre ==
  /\ commTag = [p \in Proc |-> Tag(TagsTaken(p))]
  /\ tags \in [Proc -> [Sides -> 0 .. MaxTag - 1]]
  /\ \A p \in Proc : Progress(p) >= When(call[p], "find", "S") /\ call[p] > 0 =>
       \A s \in Sides : tags[p][s] = AnnTag(call[p], s)

(* No rank is past an Allreduce that another rank of its communicator has    *)
(* not entered. *)
Skew ==
  /\ \A p \in Proc, c \in Calls, s \in Sides : \A q \in Mates(p) :
       /\ Progress(p) >= When(c, "form", s) => Progress(q) >= When(c, "sizes", s)
       /\ Progress(p) >= When(c, "probe", s) => Progress(q) >= When(c, "form", s)
  /\ \A p \in Proc, q \in Proc, c \in Calls, s \in Sides :
       Progress(p) >= When(c, "learn", s) => Progress(q) >= When(c, "find", s)

(* A message under way was sent, and its receiver is not yet past the loop   *)
(* that receives it, nor too far behind. *)
HandInFlight(m) ==
  /\ IsHand(m)
  /\ Progress(m.src) >= When(m.call, "form", m.side)
  /\ Progress(m.dst) >= When(m.call, "sizes", m.side)
  /\ Progress(m.dst) <= When(m.call, "probe", m.side)
AnnInFlight(m) ==
  /\ IsAnn(m)
  /\ Progress(m.src) >= When(m.call, "find", m.side)
  /\ Progress(m.dst) >= IF m.side = "R" THEN When(m.call, "find", "S")
                                       ELSE When(m.call - 1, "find", "R")
  /\ Progress(m.dst) <= When(m.call, "learn", m.side)
InFlight == \A m \in flight : HandInFlight(m) \/ AnnInFlight(m)

GotMsg(p, m) ==
  /\ m.dst = p /\ m.call = call[p] /\ m.side = Side(p) /\ m \notin flight
  /\ (In(p, "probe") /\ IsHand(m)) \/ (In(p, "learn") /\ IsAnn(m))
GotIs ==
  /\ DOMAIN got = Proc
  /\ \A p \in Proc : \A m \in got[p] : GotMsg(p, m)

(* No message is lost. *)
NoneLost ==
  /\ \A c \in Calls, s \in Sides, p \in Proc : \A m \in Hands(c, s, p) :
       Progress(p) >= When(c, "form", s) /\ Progress(m.dst) <= When(c, "probe", s) =>
         m \in flight \cup got[m.dst]
  /\ \A c \in Calls, s \in Sides, p \in Proc : \A m \in Anns(c, s, p) :
       Progress(p) >= When(c, "find", s) /\ Progress(m.dst) <= When(c, "learn", s) =>
         m \in flight \cup got[m.dst]

Recorded ==
  /\ learned \in [Proc -> [Sides -> [Nodes -> Proc]]]
  /\ DOMAIN plan = Proc
  /\ \A p \in Proc : \E S : plan[p] \in Seq(S)
  /\ \A p \in Proc : Len(plan[p]) = IF In(p, "idle") THEN call[p] ELSE call[p] - 1

IInv == Typed /\ HalfIs /\ TagsAre /\ Skew /\ InFlight /\ GotIs /\ NoneLost /\ Recorded
-----------------------------------------------------------------------------
(* The order of the steps. *)
LEMMA NextWhen ==
  ASSUME NEW c \in Int, NEW s \in Sides
  PROVE  /\ When(c, "sizes", s) \in Int /\ When(c, "find", s) \in Int
         /\ When(c, "form", s) = When(c, "sizes", s) + 1
         /\ When(c, "probe", s) = When(c, "sizes", s) + 2
         /\ When(c, "learn", s) = When(c, "find", s) + 1
         /\ When(c, "sizes", "R") = When(c, "sizes", "S") + 3
         /\ When(c, "find", "S") = When(c, "sizes", "R") + 3
         /\ When(c, "find", "R") = When(c, "find", "S") + 2
         /\ When(c, "nodes", "R") = When(c, "find", "R") + 2
         /\ When(c, "idle", "R") = When(c, "find", "R") + 3
         /\ When(c + 1, "sizes", "S") = When(c, "find", "R") + 4
<1>1. When(c + 1, "sizes", "S") = 12 * (c + 1) + 1
  <2>1. c + 1 \in Int
    OBVIOUS
  <2>. QED  BY <2>1, WhenIs
<1>2. PICK a \in Int : a = 12 * c
  OBVIOUS
<1>3. When(c + 1, "sizes", "S") = a + 13
  BY <1>1, <1>2
<1>4. /\ When(c, "sizes", "S") = a + 1 /\ When(c, "form", "S") = a + 2
      /\ When(c, "probe", "S") = a + 3 /\ When(c, "sizes", "R") = a + 4
      /\ When(c, "form", "R") = a + 5 /\ When(c, "probe", "R") = a + 6
      /\ When(c, "find", "S") = a + 7 /\ When(c, "learn", "S") = a + 8
      /\ When(c, "find", "R") = a + 9 /\ When(c, "learn", "R") = a + 10
      /\ When(c, "nodes", "R") = a + 11 /\ When(c, "idle", "R") = a + 12
  BY <1>2, WhenIs
<1>5. CASE s = "S"
  BY <1>3, <1>4, <1>5
<1>6. CASE s = "R"
  BY <1>3, <1>4, <1>6
<1>. QED  BY <1>5, <1>6 DEF Sides

LEMMA SideCases ==
  ASSUME NEW c \in Int, NEW s \in Sides
  PROVE  /\ When(c, "sizes", s) = 12 * c + (IF s = "S" THEN 1 ELSE 4)
         /\ When(c, "find", s) = 12 * c + (IF s = "S" THEN 7 ELSE 9)
<1>1. CASE s = "S"
  BY <1>1, WhenIs
<1>2. CASE s = "R"
  BY <1>2, WhenIs
<1>. QED  BY <1>1, <1>2 DEF Sides

LEMMA CallsAre ==
  ASSUME Typed
  PROVE  NumCalls \in Nat /\ Calls \subseteq Nat /\ DOMAIN Inputs[input] = Calls
         /\ \A c \in Calls : IsRequest(Asked(c))
BY PlanAssumption DEF Typed, NumCalls, Calls, Asked

LEMMA ProgressIs ==
  ASSUME Typed, NEW p \in Proc
  PROVE  /\ call[p] \in 0 .. NumCalls /\ call[p] \in Nat /\ NumCalls \in Nat
         /\ at[p] = <<at[p][1], Side(p)>> /\ Side(p) \in Sides /\ at[p] \in Range(Order)
         /\ Progress(p) = 12 * call[p] + Pos(at[p]) /\ Pos(at[p]) \in 1 .. 12
         /\ Progress(p) = When(call[p], at[p][1], Side(p))
         /\ Progress(p) \in Nat /\ Progress(p) >= 12
         /\ at[p] # <<"idle", "R">> => call[p] \in Calls
<1>1. call[p] \in 0 .. NumCalls /\ at[p] \in Range(Order) /\ NumCalls \in Nat
  BY CallsAre DEF Typed
<1>2. at[p] = <<at[p][1], Side(p)>> /\ Side(p) \in Sides /\ Pos(at[p]) \in 1 .. 12
  BY <1>1, PlaceIs DEF Side
<1>3. Progress(p) = 12 * call[p] + Pos(at[p])
  BY <1>1, <1>2, OrderIs DEF Progress, Pos
<1>4. Progress(p) = When(call[p], at[p][1], Side(p))
  BY <1>1, <1>2, <1>3 DEF When
<1>5. call[p] = 0 => Pos(at[p]) = 12
  BY PosIs DEF Typed
<1>6. at[p] # <<"idle", "R">> => call[p] \in Calls
  BY <1>1 DEF Typed, Calls
<1>. QED  BY <1>1, <1>2, <1>3, <1>4, <1>5, <1>6

LEMMA AtIs ==
  ASSUME Typed, NEW p \in Proc, NEW c \in Int, NEW step, NEW s, <<step, s>> \in Range(Order)
  PROVE  Progress(p) = When(c, step, s) <=> call[p] = c /\ In(p, step) /\ Side(p) = s
<1>1. /\ call[p] \in Nat /\ at[p] = <<at[p][1], Side(p)>> /\ at[p] \in Range(Order)
      /\ Progress(p) = 12 * call[p] + Pos(at[p]) /\ Pos(at[p]) \in 1 .. 12
  BY ProgressIs
<1>2. Pos(<<step, s>>) \in 1 .. 12 /\ When(c, step, s) = 12 * c + Pos(<<step, s>>)
  BY PlaceIs DEF When
<1>3. \A v, w \in Range(Order) : Pos(v) = Pos(w) => v = w
  <2>1. \A v \in Range(Order) : \E i \in 1 .. 12 : v = Order[i] /\ Pos(v) = i
    BY OrderIs, PosOf DEF Range
  <2>. QED  BY <2>1
<1>4. ASSUME Progress(p) = When(c, step, s) PROVE call[p] = c /\ at[p] = <<step, s>>
  <2>1. call[p] = c /\ Pos(at[p]) = Pos(<<step, s>>)
    BY <1>1, <1>2, <1>4
  <2>. QED  BY <1>1, <1>3, <2>1
<1>5. ASSUME call[p] = c, In(p, step), Side(p) = s PROVE Progress(p) = When(c, step, s)
  BY <1>1, <1>2, <1>5 DEF In
<1>. QED  BY <1>4, <1>5 DEF In, Side

(* A rank advances by one step, or all stay where they are. *)
Stays(p) == /\ input' = input /\ call' = call /\ at' = at
            /\ \A q \in Proc : Progress(q)' = Progress(q)
Moves(p) == /\ input' = input /\ Progress(p)' = Progress(p) + 1
            /\ \A q \in Proc \ {p} : Progress(q)' = Progress(q) /\ call'[q] = call[q] /\ at'[q] = at[q]

LEMMA Stay ==
  ASSUME Typed, NEW p \in Proc, UNCHANGED <<input, call, at>>
  PROVE  Typed' /\ Stays(p)
BY DEF Typed, NumCalls, Stays, Progress

LEMMA Go ==
  ASSUME Typed, NEW p \in Proc, NEW step, NEW s, <<step, s>> \in Range(Order),
         call[p] \in Calls, UNCHANGED <<input, call>>, Goto(p, step, s),
         When(call[p], step, s) = Progress(p) + 1
  PROVE  Typed' /\ Moves(p) /\ at'[p] = <<step, s>> /\ call'[p] = call[p]
<1>1. at'[p] = <<step, s>> /\ \A q \in Proc \ {p} : at'[q] = at[q]
  BY DEF Typed, Goto
<1>2. Typed'
  <2>1. call[p] # 0
    BY CallsAre DEF Calls
  <2>2. at' \in [Proc -> Range(Order)]
    BY DEF Typed, Goto
  <2>3. NumCalls' = NumCalls
    BY DEF NumCalls
  <2>. QED  BY <1>1, <2>1, <2>2, <2>3 DEF Typed
<1>3. Progress(p)' = call'[p] * 12 + Pos(at'[p])
  BY OrderIs DEF Progress, Pos
<1>4. Progress(p)' = Progress(p) + 1
  BY <1>1, <1>3 DEF When
<1>5. \A q \in Proc \ {p} : Progress(q)' = Progress(q)
  BY <1>1 DEF Progress
<1>. QED  BY <1>1, <1>2, <1>4, <1>5 DEF Moves

LEMMA InitLocalityGoes ==
  ASSUME Typed, NEW p \in Proc, InitLocality(p)
  PROVE  Typed' /\ Moves(p) /\ at'[p] = <<"sizes", "S">> /\ call'[p] = call[p] + 1
         /\ call[p] + 1 \in Calls /\ Progress(p) = When(call[p], "idle", "R")
<1>1. call[p] \in Nat /\ call[p] < NumCalls /\ NumCalls \in Nat /\ In(p, "idle")
  BY ProgressIs DEF InitLocality
<1>2. Side(p) = "R"
  BY <1>1, ProgressIs, PlaceIs DEF In, Side
<1>3. Progress(p) = When(call[p], "idle", "R")
  BY <1>1, <1>2, ProgressIs DEF In
<1>4. /\ call'[p] = call[p] + 1 /\ \A q \in Proc \ {p} : call'[q] = call[q]
      /\ at'[p] = <<"sizes", "S">> /\ \A q \in Proc \ {p} : at'[q] = at[q]
  BY DEF Typed, InitLocality, Goto
<1>5. Progress(p)' = Progress(p) + 1
  <2>1. Progress(p)' = call'[p] * 12 + Pos(at'[p])
    BY OrderIs DEF Progress, Pos
  <2>2. When(call[p], "idle", "R") = 12 * call[p] + 12
    <3>1. PICK c \in Int : c = call[p]
      BY <1>1
    <3>. QED  BY <3>1, WhenIs
  <2>. QED  BY <1>1, <1>3, <1>4, <2>1, <2>2, PosIs
<1>6. \A q \in Proc \ {p} : Progress(q)' = Progress(q)
  BY <1>4 DEF Progress
<1>7. Typed'
  <2>1. at' \in [Proc -> Range(Order)]
    BY InOrder DEF Typed, InitLocality, Goto, Sides
  <2>2. input' = input /\ NumCalls' = NumCalls
    BY DEF InitLocality, NumCalls
  <2>3. call' \in [Proc -> 0 .. NumCalls]
    BY <1>1 DEF Typed, InitLocality
  <2>4. \A q \in Proc : call'[q] = 0 => at'[q] = <<"idle", "R">>
    BY <1>1, <1>4 DEF Typed
  <2>. QED  BY <2>1, <2>2, <2>3, <2>4 DEF Typed
<1>8. call[p] + 1 \in Calls
  BY <1>1 DEF Calls
<1>. QED  BY <1>3, <1>4, <1>5, <1>6, <1>7, <1>8 DEF Moves, InitLocality

LEMMA MapGoes ==
  ASSUME Typed, NEW p \in Proc, MapProcsToNodes(p)
  PROVE  Typed' /\ Moves(p) /\ at'[p] = <<"form", Side(p)>> /\ call' = call
         /\ call[p] \in Calls /\ Progress(p) = When(call[p], "sizes", Side(p))
<1>1. /\ In(p, "sizes") /\ call[p] \in Calls /\ Side(p) \in Sides
      /\ Progress(p) = When(call[p], "sizes", Side(p))
  BY ProgressIs DEF MapProcsToNodes, In
<1>2. Goto(p, "form", Side(p)) /\ UNCHANGED <<input, call>>
  BY DEF MapProcsToNodes
<1>3. When(call[p], "form", Side(p)) = Progress(p) + 1
  BY <1>1, ProgressIs, NextWhen
<1>. QED  BY <1>1, <1>2, <1>3, Go, InOrder

LEMMA FormAllreduceGoes ==
  ASSUME Typed, NEW p \in Proc, FormAllreduce(p)
  PROVE  Typed' /\ Moves(p) /\ at'[p] = <<"probe", Side(p)>> /\ call' = call
         /\ call[p] \in Calls /\ Progress(p) = When(call[p], "form", Side(p))
<1>1. /\ In(p, "form") /\ call[p] \in Calls /\ Side(p) \in Sides
      /\ Progress(p) = When(call[p], "form", Side(p))
  BY ProgressIs DEF FormAllreduce, In
<1>2. Goto(p, "probe", Side(p)) /\ UNCHANGED <<input, call>>
  BY DEF FormAllreduce
<1>3. When(call[p], "probe", Side(p)) = Progress(p) + 1
  BY <1>1, ProgressIs, NextWhen
<1>. QED  BY <1>1, <1>2, <1>3, Go, InOrder

LEMMA FormGlobalGoes ==
  ASSUME Typed, NEW p \in Proc, FormGlobal(p)
  PROVE  Typed' /\ Moves(p) /\ call' = call
         /\ at'[p] = (IF Side(p) = "S" THEN <<"sizes", "R">> ELSE <<"find", "S">>)
         /\ call[p] \in Calls /\ Progress(p) = When(call[p], "probe", Side(p))
<1>1. /\ In(p, "probe") /\ call[p] \in Calls /\ Side(p) \in Sides /\ call[p] \in Int
      /\ Progress(p) = When(call[p], "probe", Side(p))
  BY ProgressIs DEF FormGlobal, In
<1>2. UNCHANGED <<input, call>>
  BY DEF FormGlobal
<1>3. CASE Side(p) = "S"
  <2>1. Goto(p, "sizes", "R")
    BY <1>3 DEF FormGlobal
  <2>2. When(call[p], "sizes", "R") = Progress(p) + 1
    <3>1. When(call[p], "sizes", "R") = 12 * call[p] + 4 /\ When(call[p], "probe", "S") = 12 * call[p] + 3
      BY <1>1, WhenIs
    <3>. QED  BY <1>1, <1>3, <3>1
  <2>3. <<"sizes", "R">> \in Range(Order)
    BY InOrder DEF Sides
  <2>. QED  BY <1>1, <1>2, <1>3, <2>1, <2>2, <2>3, Go
<1>4. CASE Side(p) = "R"
  <2>1. Goto(p, "find", "S")
    BY <1>4 DEF FormGlobal
  <2>2. When(call[p], "find", "S") = Progress(p) + 1
    <3>1. When(call[p], "find", "S") = 12 * call[p] + 7 /\ When(call[p], "probe", "R") = 12 * call[p] + 6
      BY <1>1, WhenIs
    <3>. QED  BY <1>1, <1>4, <3>1
  <2>3. <<"find", "S">> \in Range(Order)
    BY InOrder DEF Sides
  <2>. QED  BY <1>1, <1>2, <1>4, <2>1, <2>2, <2>3, Go
<1>. QED  BY <1>1, <1>3, <1>4 DEF Sides

LEMMA FindAllreduceGoes ==
  ASSUME Typed, NEW p \in Proc, FindAllreduce(p)
  PROVE  Typed' /\ Moves(p) /\ at'[p] = <<"learn", Side(p)>> /\ call' = call
         /\ call[p] \in Calls /\ Progress(p) = When(call[p], "find", Side(p))
<1>1. /\ In(p, "find") /\ call[p] \in Calls /\ Side(p) \in Sides
      /\ Progress(p) = When(call[p], "find", Side(p))
  BY ProgressIs DEF FindAllreduce, In
<1>2. Goto(p, "learn", Side(p)) /\ UNCHANGED <<input, call>>
  BY DEF FindAllreduce
<1>3. When(call[p], "learn", Side(p)) = Progress(p) + 1
  BY <1>1, ProgressIs, NextWhen
<1>. QED  BY <1>1, <1>2, <1>3, Go, InOrder

LEMMA LearnedGoes ==
  ASSUME Typed, NEW p \in Proc, Learned(p)
  PROVE  Typed' /\ Moves(p) /\ call' = call
         /\ at'[p] = (IF Side(p) = "S" THEN <<"find", "R">> ELSE <<"nodes", "R">>)
         /\ call[p] \in Calls /\ Progress(p) = When(call[p], "learn", Side(p))
<1>1. /\ In(p, "learn") /\ call[p] \in Calls /\ Side(p) \in Sides /\ call[p] \in Int
      /\ Progress(p) = When(call[p], "learn", Side(p))
  BY ProgressIs DEF Learned, In
<1>2. UNCHANGED <<input, call>>
  BY DEF Learned
<1>3. CASE Side(p) = "S"
  <2>1. Goto(p, "find", "R")
    BY <1>3 DEF Learned
  <2>2. When(call[p], "find", "R") = Progress(p) + 1
    <3>1. When(call[p], "find", "R") = 12 * call[p] + 9 /\ When(call[p], "learn", "S") = 12 * call[p] + 8
      BY <1>1, WhenIs
    <3>. QED  BY <1>1, <1>3, <3>1
  <2>3. <<"find", "R">> \in Range(Order)
    BY InOrder DEF Sides
  <2>. QED  BY <1>1, <1>2, <1>3, <2>1, <2>2, <2>3, Go
<1>4. CASE Side(p) = "R"
  <2>1. Goto(p, "nodes", "R")
    BY <1>4 DEF Learned
  <2>2. When(call[p], "nodes", "R") = Progress(p) + 1
    <3>1. When(call[p], "nodes", "R") = 12 * call[p] + 11 /\ When(call[p], "learn", "R") = 12 * call[p] + 10
      BY <1>1, WhenIs
    <3>. QED  BY <1>1, <1>4, <3>1
  <2>. QED  BY <1>1, <1>2, <1>4, <2>1, <2>2, InOrder, Go
<1>. QED  BY <1>1, <1>3, <1>4 DEF Sides

LEMMA FinishGoes ==
  ASSUME Typed, NEW p \in Proc, FinishPlan(p)
  PROVE  Typed' /\ Moves(p) /\ at'[p] = <<"idle", "R">> /\ call' = call
         /\ call[p] \in Calls /\ Progress(p) = When(call[p], "nodes", "R")
<1>1. In(p, "nodes") /\ call[p] \in Calls /\ Side(p) \in Sides /\ call[p] \in Int
  BY ProgressIs DEF FinishPlan, In
<1>2. Goto(p, "idle", "R") /\ UNCHANGED <<input, call>>
  BY DEF FinishPlan
<1>3. Side(p) = "R"
  BY <1>1, ProgressIs, PlaceIs DEF In, Side
<1>4. Progress(p) = When(call[p], "nodes", "R")
  BY <1>1, <1>3, ProgressIs DEF In
<1>5. When(call[p], "idle", "R") = Progress(p) + 1
  <2>1. When(call[p], "nodes", "R") = 12 * call[p] + 11 /\ When(call[p], "idle", "R") = 12 * call[p] + 12
    BY <1>1, WhenIs
  <2>. QED  BY <1>1, <1>4, <2>1
<1>. QED  BY <1>1, <1>2, <1>4, <1>5, Go, InOrder

LEMMA StepIs ==
  ASSUME Typed, NEW p \in Proc, Step(p)
  PROVE  /\ In(p, "idle") => InitLocality(p)
         /\ In(p, "sizes") => MapProcsToNodes(p)
         /\ In(p, "form") => FormAllreduce(p)
         /\ In(p, "probe") => FormProbe(p) \/ FormGlobal(p)
         /\ In(p, "find") => FindAllreduce(p)
         /\ In(p, "learn") => LearnProbe(p) \/ Learned(p)
         /\ In(p, "nodes") => FinishPlan(p)
<1>1. InitLocality(p) => at[p][1] = "idle"
  BY DEF InitLocality, In
<1>2. MapProcsToNodes(p) => at[p][1] = "sizes"
  BY DEF MapProcsToNodes, In
<1>3. FormAllreduce(p) => at[p][1] = "form"
  BY DEF FormAllreduce, In
<1>4. FormProbe(p) \/ FormGlobal(p) => at[p][1] = "probe"
  BY DEF FormProbe, FormGlobal, In
<1>5. FindAllreduce(p) => at[p][1] = "find"
  BY DEF FindAllreduce, In
<1>6. LearnProbe(p) \/ Learned(p) => at[p][1] = "learn"
  BY DEF LearnProbe, Learned, In
<1>7. FinishPlan(p) => at[p][1] = "nodes"
  BY DEF FinishPlan, In
<1>. QED  BY <1>1, <1>2, <1>3, <1>4, <1>5, <1>6, <1>7 DEF Step, In

LEMMA StepMoves ==
  ASSUME Typed, NEW p \in Proc, Step(p)
  PROVE  /\ Typed' /\ input' = input
         /\ (Stays(p) /\ (FormProbe(p) \/ LearnProbe(p))) \/ Moves(p)
<1>1. CASE InitLocality(p)
  BY <1>1, InitLocalityGoes DEF Moves
<1>2. CASE MapProcsToNodes(p)
  BY <1>2, MapGoes DEF Moves
<1>3. CASE FormAllreduce(p)
  BY <1>3, FormAllreduceGoes DEF Moves
<1>4. CASE FormProbe(p)
  BY <1>4, Stay DEF FormProbe, Stays
<1>5. CASE FormGlobal(p)
  BY <1>5, FormGlobalGoes DEF Moves
<1>6. CASE FindAllreduce(p)
  BY <1>6, FindAllreduceGoes DEF Moves
<1>7. CASE LearnProbe(p)
  BY <1>7, Stay DEF LearnProbe, Stays
<1>8. CASE Learned(p)
  BY <1>8, LearnedGoes DEF Moves
<1>9. CASE FinishPlan(p)
  BY <1>9, FinishGoes DEF Moves
<1>. QED  BY <1>1, <1>2, <1>3, <1>4, <1>5, <1>6, <1>7, <1>8, <1>9 DEF Step

(* Progress only grows; whoever reaches a step comes from the step before. *)
LEMMA Grows ==
  ASSUME Typed, NEW p \in Proc, Step(p)
  PROVE  /\ \A q \in Proc : Progress(q) \in Nat /\ Progress(q)' \in Nat /\ Progress(q)' >= Progress(q)
         /\ \A q \in Proc : Progress(q)' # Progress(q) => q = p /\ Progress(p)' = Progress(p) + 1
<1>1. \A q \in Proc : Progress(q) \in Nat
  BY ProgressIs
<1>. QED  BY <1>1, StepMoves DEF Stays, Moves

LEMMA Reaches ==
  ASSUME Typed, NEW p \in Proc, Step(p), NEW q \in Proc, NEW c \in Int, NEW s \in Sides
  PROVE  /\ Progress(q)' >= When(c, "form", s) /\ ~ (Progress(q) >= When(c, "form", s)) =>
              q = p /\ MapProcsToNodes(p) /\ call[p] = c /\ Side(p) = s
         /\ Progress(q)' >= When(c, "probe", s) /\ ~ (Progress(q) >= When(c, "probe", s)) =>
              q = p /\ FormAllreduce(p) /\ call[p] = c /\ Side(p) = s
         /\ Progress(q)' >= When(c, "learn", s) /\ ~ (Progress(q) >= When(c, "learn", s)) =>
              q = p /\ FindAllreduce(p) /\ call[p] = c /\ Side(p) = s
<1>1. /\ Progress(q) \in Nat /\ Progress(q)' \in Nat
      /\ Progress(q)' # Progress(q) => q = p /\ Progress(q)' = Progress(q) + 1
  BY Grows
<1>0. /\ <<"sizes", s>> \in Range(Order) /\ <<"form", s>> \in Range(Order)
      /\ <<"find", s>> \in Range(Order)
  BY InOrder
<1>2. PICK a \in Int, b \in Int :
        /\ When(c, "sizes", s) = a /\ When(c, "form", s) = a + 1 /\ When(c, "probe", s) = a + 2
        /\ When(c, "find", s) = b /\ When(c, "learn", s) = b + 1
  <2>1. When(c, "sizes", s) \in Int /\ When(c, "find", s) \in Int
    BY NextWhen
  <2>2. /\ When(c, "form", s) = When(c, "sizes", s) + 1
        /\ When(c, "probe", s) = When(c, "sizes", s) + 2
        /\ When(c, "learn", s) = When(c, "find", s) + 1
    BY NextWhen
  <2>. QED  BY <2>1, <2>2
<1>3. ASSUME Progress(q)' >= When(c, "form", s), ~ (Progress(q) >= When(c, "form", s))
      PROVE  q = p /\ MapProcsToNodes(p) /\ call[p] = c /\ Side(p) = s
  <2>1. q = p /\ Progress(q) = When(c, "sizes", s)
    BY <1>1, <1>2, <1>3
  <2>2. call[p] = c /\ In(p, "sizes") /\ Side(p) = s
    BY <2>1, <1>0, AtIs
  <2>. QED  BY <2>1, <2>2, StepIs
<1>4. ASSUME Progress(q)' >= When(c, "probe", s), ~ (Progress(q) >= When(c, "probe", s))
      PROVE  q = p /\ FormAllreduce(p) /\ call[p] = c /\ Side(p) = s
  <2>1. q = p /\ Progress(q) = When(c, "form", s)
    BY <1>1, <1>2, <1>4
  <2>2. call[p] = c /\ In(p, "form") /\ Side(p) = s
    BY <2>1, <1>0, AtIs
  <2>. QED  BY <2>1, <2>2, StepIs
<1>5. ASSUME Progress(q)' >= When(c, "learn", s), ~ (Progress(q) >= When(c, "learn", s))
      PROVE  q = p /\ FindAllreduce(p) /\ call[p] = c /\ Side(p) = s
  <2>1. q = p /\ Progress(q) = When(c, "find", s)
    BY <1>1, <1>2, <1>5
  <2>2. call[p] = c /\ In(p, "find") /\ Side(p) = s
    BY <2>1, <1>0, AtIs
  <2>. QED  BY <2>1, <2>2, StepIs
<1>. QED  BY <1>3, <1>4, <1>5

(* Whoever leaves a loop of receives was in it. *)
LEMMA Leaves ==
  ASSUME Typed, NEW p \in Proc, Step(p), NEW q \in Proc, NEW c \in Int, NEW s \in Sides
  PROVE  /\ Progress(q)' > When(c, "probe", s) /\ Progress(q) <= When(c, "probe", s) =>
              q = p /\ FormGlobal(p) /\ call[p] = c /\ Side(p) = s
         /\ Progress(q)' > When(c, "learn", s) /\ Progress(q) <= When(c, "learn", s) =>
              q = p /\ Learned(p) /\ call[p] = c /\ Side(p) = s
<1>1. /\ Progress(q) \in Nat /\ Progress(q)' \in Nat
      /\ Progress(q)' # Progress(q) => q = p /\ Progress(q)' = Progress(q) + 1
  BY Grows
<1>0. <<"probe", s>> \in Range(Order) /\ <<"learn", s>> \in Range(Order)
  BY InOrder
<1>2. When(c, "probe", s) \in Int /\ When(c, "learn", s) \in Int
  <2>1. When(c, "sizes", s) \in Int /\ When(c, "find", s) \in Int
    BY NextWhen
  <2>2. /\ When(c, "probe", s) = When(c, "sizes", s) + 2
        /\ When(c, "learn", s) = When(c, "find", s) + 1
    BY NextWhen
  <2>. QED  BY <2>1, <2>2
<1>3. ASSUME Progress(q)' > When(c, "probe", s), Progress(q) <= When(c, "probe", s)
      PROVE  q = p /\ FormGlobal(p) /\ call[p] = c /\ Side(p) = s
  <2>1. q = p /\ Progress(q) = When(c, "probe", s) /\ Progress(q)' # Progress(q)
    BY <1>1, <1>2, <1>3
  <2>2. call[p] = c /\ In(p, "probe") /\ Side(p) = s
    BY <2>1, <1>0, AtIs
  <2>3. ~ FormProbe(p)
    <3>1. FormProbe(p) => UNCHANGED <<input, call, at>>
      BY DEF FormProbe
    <3>. QED  BY <2>1, <3>1, Stay DEF Stays
  <2>. QED  BY <2>1, <2>2, <2>3, StepIs
<1>4. ASSUME Progress(q)' > When(c, "learn", s), Progress(q) <= When(c, "learn", s)
      PROVE  q = p /\ Learned(p) /\ call[p] = c /\ Side(p) = s
  <2>1. q = p /\ Progress(q) = When(c, "learn", s) /\ Progress(q)' # Progress(q)
    BY <1>1, <1>2, <1>4
  <2>2. call[p] = c /\ In(p, "learn") /\ Side(p) = s
    BY <2>1, <1>0, AtIs
  <2>3. ~ LearnProbe(p)
    <3>1. LearnProbe(p) => UNCHANGED <<input, call, at>>
      BY DEF LearnProbe
    <3>. QED  BY <2>1, <3>1, Stay DEF Stays
  <2>. QED  BY <2>1, <2>2, <2>3, StepIs
<1>. QED  BY <1>3, <1>4

LEMMA SkewKept ==
  ASSUME Typed, Skew, NEW p \in Proc, Step(p)
  PROVE  Skew'
<1>1. Typed' /\ input' = input /\ Calls' = Calls /\ Calls \subseteq Int
  BY StepMoves, CallsAre DEF Calls, NumCalls
<1>2. \A q \in Proc : /\ Progress(q) \in Nat /\ Progress(q)' \in Nat /\ Progress(q)' >= Progress(q)
  BY Grows
<1>3. \A c \in Calls, s \in Sides : /\ When(c, "sizes", s) \in Int /\ When(c, "form", s) \in Int
                                    /\ When(c, "find", s) \in Int
  <2>1. ASSUME NEW c \in Calls, NEW s \in Sides
        PROVE  When(c, "sizes", s) \in Int /\ When(c, "form", s) \in Int /\ When(c, "find", s) \in Int
    BY <1>1, NextWhen
  <2>. QED  BY <2>1
<1>4. ASSUME NEW r \in Proc, NEW c \in Calls, NEW s \in Sides, NEW q \in Mates(r),
             Progress(r)' >= When(c, "form", s)
      PROVE  Progress(q)' >= When(c, "sizes", s)
  <2>1. q \in Proc
    BY MatesOf
  <2>2. CASE Progress(r) >= When(c, "form", s)
    <3>1. Progress(q) >= When(c, "sizes", s)
      BY <2>2 DEF Skew
    <3>. QED  BY <1>2, <1>3, <2>1, <3>1
  <2>3. CASE ~ (Progress(r) >= When(c, "form", s))
    <3>1. r = p /\ MapProcsToNodes(p) /\ call[p] = c /\ Side(p) = s
      BY <1>1, <1>4, <2>3, Reaches
    <3>2. Progress(q) >= Progress(p) /\ Progress(p) = When(c, "sizes", s)
      BY <3>1, MapGoes DEF MapProcsToNodes, AllEntered
    <3>. QED  BY <1>2, <1>3, <2>1, <3>2
  <2>. QED  BY <2>2, <2>3
<1>5. ASSUME NEW r \in Proc, NEW c \in Calls, NEW s \in Sides, NEW q \in Mates(r),
             Progress(r)' >= When(c, "probe", s)
      PROVE  Progress(q)' >= When(c, "form", s)
  <2>1. q \in Proc
    BY MatesOf
  <2>2. CASE Progress(r) >= When(c, "probe", s)
    <3>1. Progress(q) >= When(c, "form", s)
      BY <2>2 DEF Skew
    <3>. QED  BY <1>2, <1>3, <2>1, <3>1
  <2>3. CASE ~ (Progress(r) >= When(c, "probe", s))
    <3>1. r = p /\ FormAllreduce(p) /\ call[p] = c /\ Side(p) = s
      BY <1>1, <1>5, <2>3, Reaches
    <3>2. Progress(q) >= Progress(p) /\ Progress(p) = When(c, "form", s)
      BY <3>1, FormAllreduceGoes DEF FormAllreduce, AllEntered
    <3>. QED  BY <1>2, <1>3, <2>1, <3>2
  <2>. QED  BY <2>2, <2>3
<1>6. ASSUME NEW r \in Proc, NEW q \in Proc, NEW c \in Calls, NEW s \in Sides,
             Progress(r)' >= When(c, "learn", s)
      PROVE  Progress(q)' >= When(c, "find", s)
  <2>1. CASE Progress(r) >= When(c, "learn", s)
    <3>1. Progress(q) >= When(c, "find", s)
      BY <2>1 DEF Skew
    <3>. QED  BY <1>2, <1>3, <3>1
  <2>2. CASE ~ (Progress(r) >= When(c, "learn", s))
    <3>1. r = p /\ FindAllreduce(p) /\ call[p] = c /\ Side(p) = s
      BY <1>1, <1>6, <2>2, Reaches
    <3>2. Progress(q) >= Progress(p) /\ Progress(p) = When(c, "find", s)
      BY <3>1, FindAllreduceGoes DEF FindAllreduce, AllEntered
    <3>. QED  BY <1>2, <1>3, <3>2
  <2>. QED  BY <2>1, <2>2
<1>. QED  BY <1>1, <1>4, <1>5, <1>6 DEF Skew
-----------------------------------------------------------------------------
(* Messages. *)
LEMMA SendersAre ==
  ASSUME NEW sends, IsRequest(sends), NEW p \in Proc, NEW s \in Sides, NEW q \in Senders(sends, p, s)
  PROVE  /\ q \in Proc /\ q \in Mates(p) /\ p \in DOMAIN SendData(sends, q, s)
         /\ SendData(sends, q, s)[p] # {} /\ IsFiniteSet(SendData(sends, q, s)[p])
         /\ SendData(sends, q, s)[p] \subseteq Entries(sends, q, s)
<1>1. q \in Proc /\ p \in DOMAIN SendData(sends, q, s)
  BY DEF Senders
<1>. QED  BY <1>1, HandedIs

LEMMA EntriesAtAre ==
  ASSUME NEW sends, IsRequest(sends), NEW p \in Proc, NEW s \in Sides, NEW e \in EntriesAt(sends, p, s)
  PROVE  \E q \in Senders(sends, p, s) : e \in SendData(sends, q, s)[p] /\ e \in Entries(sends, q, s)
<1>1. PICK q \in Senders(sends, p, s) : e \in SendData(sends, q, s)[p]
  BY DEF EntriesAt
<1>. QED  BY <1>1, SendersAre

LEMMA GlobalNodes ==
  ASSUME NEW sends, IsRequest(sends), NEW p \in Proc, NEW s \in Sides,
         NEW n \in DOMAIN GlobalOf(sends, p, s)
  PROVE  n \in Nodes \ {Node[p]}
<1>1. PICK e \in EntriesAt(sends, p, s) : n = e[2]
  BY DEF GlobalOf
<1>2. PICK q \in Senders(sends, p, s) : e \in Entries(sends, q, s)
  BY EntriesAtAre
<1>3. q \in Proc /\ Node[q] = Node[p]
  BY SendersAre, MatesOf
<1>. QED  BY <1>1, <1>2, <1>3, EntryPartner

LEMMA HandOf ==
  ASSUME Typed, NEW c \in Calls, NEW s \in Sides, NEW p \in Proc, NEW m \in Hands(c, s, p)
  PROVE  /\ IsHand(m) /\ m.comm = "local" /\ m.call = c /\ m.side = s /\ m.src = p
         /\ m.dst \in DOMAIN SendData(Asked(c), p, s)
         /\ m = HandMsg(c, s, p, m.dst)
<1>1. PICK q \in DOMAIN SendData(Asked(c), p, s) : m = HandMsg(c, s, p, q)
  BY DEF Hands
<1>2. m.comm = "local" /\ m.call = c /\ m.side = s /\ m.src = p /\ m.dst = q
  BY <1>1 DEF HandMsg
<1>. QED  BY <1>1, <1>2 DEF IsHand

LEMMA AnnOf ==
  ASSUME Typed, NEW c \in Calls, NEW s \in Sides, NEW p \in Proc, NEW m \in Anns(c, s, p)
  PROVE  /\ IsAnn(m) /\ m.comm = "global" /\ m.call = c /\ m.side = s /\ m.src = p
         /\ m.dst \in Proc /\ Node[m.dst] \in DOMAIN GlobalOf(Asked(c), p, s)
         /\ m.dst = Place[Node[m.dst]][Local[p]]
         /\ m = AnnMsg(c, s, p, Node[m.dst])
<1>1. PICK n \in DOMAIN GlobalOf(Asked(c), p, s) : m = AnnMsg(c, s, p, n)
  BY DEF Anns
<1>2. m.comm = "global" /\ m.call = c /\ m.side = s /\ m.src = p /\ m.dst = Place[n][Local[p]]
  BY <1>1 DEF AnnMsg
<1>3. n \in Nodes /\ Local[p] \in LocalRanks
  BY CallsAre, GlobalNodes, Placed
<1>4. m.dst \in Proc /\ Node[m.dst] = n
  BY <1>2, <1>3, PlaceOf
<1>. QED  BY <1>1, <1>2, <1>4 DEF IsAnn

LEMMA HandIs ==
  ASSUME Typed, NEW m, IsHand(m)
  PROVE  /\ m = HandMsg(m.call, m.side, m.src, m.dst)
         /\ m.src \in Proc /\ m.dst \in Proc /\ m.dst \in Mates(m.src) /\ m.src \in Mates(m.dst)
         /\ m.src \in Senders(Asked(m.call), m.dst, m.side)
         /\ m.tag = Fixed(m.side) /\ m.body = SendData(Asked(m.call), m.src, m.side)[m.dst]
         /\ m.call \in Calls /\ m.side \in Sides /\ m.comm = "local" /\ IsFiniteSet(m.body) /\ m.body # {}
<1>1. /\ m.src \in Proc /\ m.call \in Calls /\ m.side \in Sides /\ m.comm = "local"
      /\ m \in Hands(m.call, m.side, m.src)
  BY DEF IsHand
<1>2. /\ m.dst \in DOMAIN SendData(Asked(m.call), m.src, m.side)
      /\ m = HandMsg(m.call, m.side, m.src, m.dst)
  BY <1>1, HandOf
<1>3. m.tag = Fixed(m.side) /\ m.body = SendData(Asked(m.call), m.src, m.side)[m.dst]
  <2>1. PICK c, s, p, q : c = m.call /\ s = m.side /\ p = m.src /\ q = m.dst
    OBVIOUS
  <2>2. m = HandMsg(c, s, p, q)
    BY <1>2, <2>1
  <2>3. m.tag = Fixed(s) /\ m.body = SendData(Asked(c), p, s)[q]
    BY <2>2 DEF HandMsg
  <2>. QED  BY <2>1, <2>3
<1>4. IsRequest(Asked(m.call))
  BY <1>1, CallsAre
<1>5. m.dst \in Proc /\ m.dst \in Mates(m.src) /\ m.src \in Mates(m.dst)
      /\ IsFiniteSet(m.body) /\ m.body # {}
  BY <1>1, <1>2, <1>3, <1>4, HandedIs
<1>6. m.src \in Senders(Asked(m.call), m.dst, m.side)
  BY <1>1, <1>2 DEF Senders
<1>. QED  BY <1>1, <1>2, <1>3, <1>5, <1>6

LEMMA AnnIs ==
  ASSUME Typed, NEW m, IsAnn(m)
  PROVE  /\ m = AnnMsg(m.call, m.side, m.src, Node[m.dst])
         /\ m.src \in Proc /\ m.dst \in Proc /\ m.dst = Place[Node[m.dst]][Local[m.src]]
         /\ Node[m.dst] \in DOMAIN GlobalOf(Asked(m.call), m.src, m.side)
         /\ m.tag = AnnTag(m.call, m.side) /\ m.node = Node[m.src]
         /\ m.call \in Calls /\ m.side \in Sides /\ m.comm = "global"
<1>1. /\ m.src \in Proc /\ m.call \in Calls /\ m.side \in Sides /\ m.comm = "global"
      /\ m \in Anns(m.call, m.side, m.src)
  BY DEF IsAnn
<1>2. /\ m.dst \in Proc /\ Node[m.dst] \in DOMAIN GlobalOf(Asked(m.call), m.src, m.side)
      /\ m.dst = Place[Node[m.dst]][Local[m.src]]
      /\ m = AnnMsg(m.call, m.side, m.src, Node[m.dst])
  BY <1>1, AnnOf
<1>3. m.tag = AnnTag(m.call, m.side) /\ m.node = Node[m.src]
  <2>1. PICK c, s, p, n : c = m.call /\ s = m.side /\ p = m.src /\ n = Node[m.dst]
    OBVIOUS
  <2>2. m = AnnMsg(c, s, p, n)
    BY <1>2, <2>1
  <2>3. m.tag = AnnTag(c, s) /\ m.node = Node[p]
    BY <2>2 DEF AnnMsg
  <2>. QED  BY <2>1, <2>3
<1>. QED  BY <1>1, <1>2, <1>3

(* The messages a rank takes in one loop, and that they are one per sender. *)
HandedTo(c, s, p) == { HandMsg(c, s, q, p) : q \in Senders(Asked(c), p, s) }
AnnouncersOf(sends, p, s) ==
  { q \in Proc : \E n \in DOMAIN GlobalOf(sends, q, s) : Place[n][Local[q]] = p }
AnnouncedTo(c, s, p) == { AnnMsg(c, s, q, Node[p]) : q \in AnnouncersOf(Asked(c), p, s) }

LEMMA HandedToIs ==
  ASSUME Typed, NEW c \in Calls, NEW s \in Sides, NEW p \in Proc
  PROVE  \A m : m \in HandedTo(c, s, p) <=>
                  IsHand(m) /\ m.dst = p /\ m.call = c /\ m.side = s
<1>1. ASSUME NEW m \in HandedTo(c, s, p)
      PROVE  IsHand(m) /\ m.dst = p /\ m.call = c /\ m.side = s
  <2>1. PICK q \in Senders(Asked(c), p, s) : m = HandMsg(c, s, q, p)
    BY DEF HandedTo
  <2>2. q \in Proc /\ p \in DOMAIN SendData(Asked(c), q, s)
    BY DEF Senders
  <2>3. m \in Hands(c, s, q)
    BY <2>1, <2>2 DEF Hands
  <2>4. m.dst = p
    BY <2>1 DEF HandMsg
  <2>. QED  BY <2>2, <2>3, <2>4, HandOf
<1>2. ASSUME NEW m, IsHand(m), m.dst = p, m.call = c, m.side = s
      PROVE  m \in HandedTo(c, s, p)
  BY <1>2, HandIs DEF HandedTo
<1>. QED  BY <1>1, <1>2

LEMMA AnnouncersAre ==
  ASSUME NEW sends, IsRequest(sends), NEW s \in Sides, NEW p \in Proc, NEW q \in AnnouncersOf(sends, p, s)
  PROVE  q \in Proc /\ Node[p] \in DOMAIN GlobalOf(sends, q, s) /\ Place[Node[p]][Local[q]] = p
<1>1. PICK n \in DOMAIN GlobalOf(sends, q, s) : Place[n][Local[q]] = p
  BY DEF AnnouncersOf
<1>2. q \in Proc
  BY DEF AnnouncersOf
<1>3. n \in Nodes /\ Local[q] \in LocalRanks
  BY <1>2, GlobalNodes, Placed
<1>4. Node[p] = n
  BY <1>1, <1>3, PlaceOf
<1>. QED  BY <1>1, <1>2, <1>4

LEMMA AnnouncedToIs ==
  ASSUME Typed, NEW c \in Calls, NEW s \in Sides, NEW p \in Proc
  PROVE  \A m : m \in AnnouncedTo(c, s, p) <=>
                  IsAnn(m) /\ m.dst = p /\ m.call = c /\ m.side = s
<1>1. ASSUME NEW m \in AnnouncedTo(c, s, p)
      PROVE  IsAnn(m) /\ m.dst = p /\ m.call = c /\ m.side = s
  <2>1. PICK q \in AnnouncersOf(Asked(c), p, s) : m = AnnMsg(c, s, q, Node[p])
    BY DEF AnnouncedTo
  <2>2. q \in Proc /\ Node[p] \in DOMAIN GlobalOf(Asked(c), q, s) /\ Place[Node[p]][Local[q]] = p
    BY CallsAre, AnnouncersAre
  <2>3. m \in Anns(c, s, q)
    BY <2>1, <2>2 DEF Anns
  <2>4. m.dst = p
    BY <2>1, <2>2 DEF AnnMsg
  <2>. QED  BY <2>2, <2>3, <2>4, AnnOf
<1>2. ASSUME NEW m, IsAnn(m), m.dst = p, m.call = c, m.side = s
      PROVE  m \in AnnouncedTo(c, s, p)
  <2>1. /\ m = AnnMsg(c, s, m.src, Node[p]) /\ m.src \in Proc /\ p = Place[Node[p]][Local[m.src]]
        /\ Node[p] \in DOMAIN GlobalOf(Asked(c), m.src, s)
    BY <1>2, AnnIs
  <2>2. m.src \in AnnouncersOf(Asked(c), p, s)
    BY <2>1 DEF AnnouncersOf
  <2>. QED  BY <2>1, <2>2 DEF AnnouncedTo
<1>. QED  BY <1>1, <1>2
-----------------------------------------------------------------------------
(* The loops of receives end when everything has come. *)
LEMMA HalfValue ==
  ASSUME Typed, HalfIs, NEW p \in Proc, NEW c \in Calls, NEW s \in Sides
  PROVE  /\ Progress(p) >= When(c, "form", s) =>
              half[p][c][s].send = SendData(Asked(c), p, s) /\ half[p][c][s].local = LocalData(Asked(c), p, s)
         /\ Progress(p) > When(c, "probe", s) =>
              half[p][c][s].recv = RecvOf(Asked(c), p, s) /\ half[p][c][s].global = GlobalOf(Asked(c), p, s)
<1>1. half[p][c][s] = HalfOf(p, c, s)
  BY DEF HalfIs
<1>. QED  BY <1>1 DEF HalfOf

LEMMA ProbeNow ==
  ASSUME Typed, Skew, NEW p \in Proc, In(p, "probe")
  PROVE  /\ call[p] \in Calls /\ Side(p) \in Sides /\ Progress(p) = When(call[p], "probe", Side(p))
         /\ \A q \in Mates(p) : q \in Proc /\ Progress(q) >= When(call[p], "form", Side(p))
<1>1. /\ call[p] \in Calls /\ Side(p) \in Sides /\ Progress(p) = When(call[p], "probe", Side(p))
      /\ Progress(p) \in Nat
  BY ProgressIs DEF In
<1>2. Progress(p) >= When(call[p], "probe", Side(p))
  BY <1>1
<1>. QED  BY <1>1, <1>2, MatesOf DEF Skew

LEMMA HandedSizeIs ==
  ASSUME Typed, HalfIs, Skew, NEW p \in Proc, In(p, "probe"), NEW c, c = call[p], NEW s, s = Side(p)
  PROVE  HandedSize(p, c, s) =
           Cardinality(UNION { {q} \X SendData(Asked(c), q, s)[p] : q \in Senders(Asked(c), p, s) })
<1>1. c \in Calls /\ s \in Sides /\ \A q \in Mates(p) : half[q][c][s].send = SendData(Asked(c), q, s)
  BY ProbeNow, HalfValue
<1> DEFINE T == { r \in Mates(p) : p \in DOMAIN half[r][c][s].send }
           S == Senders(Asked(c), p, s)
<1>2. T = S
  <2>1. \A q \in S : q \in Mates(p)
    BY <1>1, CallsAre, SendersAre
  <2>2. \A q : q \in S <=> q \in Proc /\ p \in DOMAIN SendData(Asked(c), q, s)
    BY DEF Senders
  <2> HIDE DEF S
  <2>3. \A q : q \in T <=> q \in S
    BY <1>1, <2>1, <2>2, MatesOf
  <2>. QED  BY <2>3
<1>3. \A q \in S : half[q][c][s].send = SendData(Asked(c), q, s)
  BY <1>1, <1>2
<1>4. HandedSize(p, c, s) = Cardinality(UNION { {q} \X half[q][c][s].send[p] : q \in T })
  BY DEF HandedSize
<1> HIDE DEF T, S
<1>5. { {q} \X half[q][c][s].send[p] : q \in T } = { {q} \X SendData(Asked(c), q, s)[p] : q \in S }
  BY <1>2, <1>3
<1>. QED  BY <1>4, <1>5 DEF S

LEMMA AllHanded ==
  ASSUME Typed, HalfIs, Skew, GotIs, NEW p \in Proc, In(p, "probe"), ~ MoreHanded(p)
  PROVE  got[p] = HandedTo(call[p], Side(p), p)
<1> DEFINE c == call[p]
           s == Side(p)
           D(q) == SendData(Asked(c), q, s)[p]
           S == Senders(Asked(c), p, s)
           A == UNION { {m} \X m.body : m \in got[p] }
           B == UNION { {q} \X D(q) : q \in S }
           f == [x \in A |-> <<x[1].src, x[2]>>]
<1>1. c \in Calls /\ s \in Sides /\ IsRequest(Asked(c))
  BY ProbeNow, CallsAre
<1>2. \A m \in got[p] : IsHand(m) /\ m.dst = p /\ m.call = c /\ m.side = s
  BY DEF GotIs, GotMsg, In
<1>3. got[p] \subseteq HandedTo(c, s, p)
  BY <1>1, <1>2, HandedToIs
<1>4. \A q \in S : q \in Proc /\ D(q) # {} /\ IsFiniteSet(D(q))
  BY <1>1, SendersAre
<1>5. \A m \in got[p] : m.src \in S /\ m.body = D(m.src) /\ m = HandMsg(c, s, m.src, p)
  BY <1>2, HandIs
<1>6. ReceivedSize(p) = Cardinality(A)
  BY DEF ReceivedSize
<1>7. HandedSize(p, c, s) = Cardinality(B)
  BY HandedSizeIs
<1>8. ~ (Cardinality(A) < Cardinality(B))
  BY <1>6, <1>7 DEF MoreHanded
<1>9. IsFiniteSet(B)
  <2> DEFINE F == { {q} \X D(q) : q \in S }
             g == [q \in S |-> {q} \X D(q)]
  <2>1. IsFiniteSet(S)
    <3>1. S \subseteq Proc
      BY DEF Senders
    <3>. QED  BY <3>1, Ranks, FS_Subset
  <2>2. \A q \in S : IsFiniteSet({q} \X D(q))
    BY <1>4, FS_Singleton, FS_Product
  <2> HIDE DEF S, D
  <2>3. g \in Surjection(S, F)
    BY DEF Surjection
  <2>4. IsFiniteSet(F)
    <3> HIDE DEF g, F
    <3>. QED  BY <2>1, <2>3, FS_Surjection
  <2>5. (\A T \in F : IsFiniteSet(T)) /\ B = UNION F
    BY <2>2
  <2> HIDE DEF F, B
  <2>. QED  BY <2>4, <2>5, FS_UNION
<1> HIDE DEF D, S
<1>10. \A x \in A : x[1] \in got[p] /\ x[2] \in x[1].body /\ x = <<x[1], x[2]>>
  OBVIOUS
<1>11. \A q \in S : \A e \in D(q) : <<q, e>> \in B
  OBVIOUS
<1> HIDE DEF A, B
<1>12. \A x \in A : f[x] = <<x[1].src, x[2]>> /\ f[x] \in B
  BY <1>5, <1>10, <1>11
<1>13. f \in Injection(A, B)
  <2>1. f \in [A -> B]
    BY <1>12
  <2>2. ASSUME NEW x \in A, NEW y \in A, f[x] = f[y] PROVE x = y
    <3>1. x[1].src = y[1].src /\ x[2] = y[2]
      BY <1>12, <2>2
    <3>2. x[1] = y[1]
      BY <1>5, <1>10, <3>1
    <3>. QED  BY <1>10, <3>1, <3>2
  <2> HIDE DEF f
  <2>. QED  BY <2>1, <2>2 DEF Injection, IsInjective
<1> HIDE DEF f
<1>14. f \in Surjection(A, B)
  <2>1. /\ IsFiniteSet(A) /\ Cardinality(A) <= Cardinality(B)
        /\ (Cardinality(A) = Cardinality(B) <=> f \in Surjection(A, B))
    BY <1>9, <1>13, FS_Injection
  <2>2. Cardinality(A) \in Nat /\ Cardinality(B) \in Nat
    BY <1>9, <2>1, FS_CardinalityType
  <2>. QED  BY <1>8, <2>1, <2>2
<1>15. ASSUME NEW m \in HandedTo(c, s, p) PROVE m \in got[p]
  <2>1. PICK q \in S : m = HandMsg(c, s, q, p)
    BY DEF HandedTo, S
  <2>2. PICK e \in D(q) : TRUE
    BY <1>4
  <2>3. <<q, e>> \in B
    BY <1>11
  <2>4. PICK x \in A : f[x] = <<q, e>>
    BY <1>14, <2>3 DEF Surjection
  <2>5. x[1] \in got[p] /\ x[1].src = q
    BY <1>10, <1>12, <2>4
  <2>. QED  BY <1>5, <2>1, <2>5
<1> HIDE DEF c, s
<1>16. got[p] = HandedTo(c, s, p)
  BY <1>3, <1>15
<1>. QED  BY <1>16 DEF c, s

LEMMA LearnNow ==
  ASSUME Typed, Skew, NEW p \in Proc, In(p, "learn")
  PROVE  /\ call[p] \in Calls /\ Side(p) \in Sides /\ Progress(p) = When(call[p], "learn", Side(p))
         /\ \A q \in Proc : /\ Progress(q) >= When(call[p], "find", Side(p))
                            /\ \A s \in Sides : Progress(q) > When(call[p], "probe", s)
<1>1. /\ call[p] \in Calls /\ Side(p) \in Sides /\ Progress(p) = When(call[p], "learn", Side(p))
      /\ Progress(p) \in Nat /\ call[p] \in Nat
  BY ProgressIs DEF In
<1>2. Progress(p) >= When(call[p], "learn", Side(p))
  BY <1>1
<1>3. \A q \in Proc : Progress(q) >= When(call[p], "find", Side(p))
  BY <1>1, <1>2 DEF Skew
<1>4. ASSUME NEW q \in Proc, NEW s \in Sides PROVE Progress(q) > When(call[p], "probe", s)
  <2>1. PICK c \in Nat : c = call[p]
    BY <1>1
  <2>2. /\ When(c, "probe", s) = When(c, "sizes", s) + 2
        /\ When(c, "sizes", s) = 12 * c + (IF s = "S" THEN 1 ELSE 4)
        /\ When(c, "find", Side(p)) = 12 * c + (IF Side(p) = "S" THEN 7 ELSE 9)
    BY <1>1, NextWhen, SideCases
  <2>3. Progress(q) \in Nat
    BY ProgressIs
  <2>. QED  BY <1>3, <2>1, <2>2, <2>3
<1>. QED  BY <1>1, <1>3, <1>4

LEMMA NumToRecvIs ==
  ASSUME Typed, HalfIs, Skew, NEW p \in Proc, In(p, "learn")
  PROVE  Announcers(p, Side(p)) = AnnouncersOf(Asked(call[p]), p, Side(p))
<1>1. \A q \in Proc : half[q][call[p]][Side(p)].global = GlobalOf(Asked(call[p]), q, Side(p))
  BY LearnNow, HalfValue
<1>. QED  BY <1>1 DEF Announcers, AnnouncersOf

LEMMA AllAnnounced ==
  ASSUME Typed, HalfIs, Skew, GotIs, NEW p \in Proc, In(p, "learn"),
         Cardinality(got[p]) = NumToRecv(p)
  PROVE  got[p] = AnnouncedTo(call[p], Side(p), p)
<1> DEFINE c == call[p]
           s == Side(p)
           S == AnnouncersOf(Asked(c), p, s)
           f == [m \in got[p] |-> m.src]
<1>1. c \in Calls /\ s \in Sides /\ IsRequest(Asked(c))
  BY LearnNow, CallsAre
<1>2. \A m \in got[p] : IsAnn(m) /\ m.dst = p /\ m.call = c /\ m.side = s
  BY DEF GotIs, GotMsg, In
<1>3. got[p] \subseteq AnnouncedTo(c, s, p)
  BY <1>1, <1>2, AnnouncedToIs
<1>4. \A m \in got[p] : m.src \in S /\ m = AnnMsg(c, s, m.src, Node[p])
  BY <1>2, AnnIs DEF AnnouncersOf
<1>5. Cardinality(got[p]) = Cardinality(S)
  BY NumToRecvIs DEF NumToRecv
<1>6. IsFiniteSet(S)
  <2>1. S \subseteq Proc
    BY DEF AnnouncersOf
  <2>. QED  BY <2>1, Ranks, FS_Subset
<1>7. f \in Injection(got[p], S)
  <2>1. f \in [got[p] -> S]
    BY <1>4
  <2>2. \A m, n \in got[p] : f[m] = f[n] => m = n
    BY <1>4
  <2> HIDE DEF f, S
  <2>. QED  BY <2>1, <2>2 DEF Injection, IsInjective
<1>8. f \in Surjection(got[p], S)
  <2> HIDE DEF f, S
  <2>. QED  BY <1>5, <1>6, <1>7, FS_Injection
<1>9. ASSUME NEW m \in AnnouncedTo(c, s, p) PROVE m \in got[p]
  <2>1. PICK q \in S : m = AnnMsg(c, s, q, Node[p])
    BY DEF AnnouncedTo
  <2>2. PICK x \in got[p] : f[x] = q
    <3> HIDE DEF f, S
    <3>. QED  BY <1>8 DEF Surjection
  <2>3. x.src = q
    BY <2>2
  <2>. QED  BY <1>4, <2>1, <2>3
<1> HIDE DEF c, s
<1>10. got[p] = AnnouncedTo(c, s, p)
  BY <1>3, <1>9
<1>. QED  BY <1>10 DEF c, s
-----------------------------------------------------------------------------
(* Every step keeps the invariant. *)
LEMMA AskedKept ==
  ASSUME input' = input
  PROVE  /\ Calls' = Calls /\ NumCalls' = NumCalls /\ \A c : Asked(c)' = Asked(c)
         /\ \A c, s, p : SendData(Asked(c), p, s)' = SendData(Asked(c), p, s)
         /\ \A c, s, p : RecvOf(Asked(c), p, s)' = RecvOf(Asked(c), p, s)
         /\ \A c, s, p : LocalData(Asked(c), p, s)' = LocalData(Asked(c), p, s)
         /\ \A c, s, p : GlobalOf(Asked(c), p, s)' = GlobalOf(Asked(c), p, s)
         /\ \A c, s, p : Hands(c, s, p)' = Hands(c, s, p) /\ Anns(c, s, p)' = Anns(c, s, p)
         /\ \A m : IsHand(m)' = IsHand(m) /\ IsAnn(m)' = IsAnn(m)
<1>1. Calls' = Calls /\ NumCalls' = NumCalls /\ \A c : Asked(c)' = Asked(c)
  BY DEF Calls, NumCalls, Asked
<1>2. \A c, s, p : SendData(Asked(c), p, s)' = SendData(Asked(c), p, s)
  BY <1>1
<1>3. \A c, s, p : RecvOf(Asked(c), p, s)' = RecvOf(Asked(c), p, s)
  BY <1>1
<1>4. \A c, s, p : LocalData(Asked(c), p, s)' = LocalData(Asked(c), p, s)
  BY <1>1
<1>5. \A c, s, p : GlobalOf(Asked(c), p, s)' = GlobalOf(Asked(c), p, s)
  BY <1>1
<1>6. \A c, s, p : Hands(c, s, p)' = Hands(c, s, p) /\ Anns(c, s, p)' = Anns(c, s, p)
  BY <1>1, <1>2, <1>5 DEF Hands, Anns, HandMsg, AnnMsg
<1>7. \A m : IsHand(m)' = IsHand(m) /\ IsAnn(m)' = IsAnn(m)
  BY <1>1, <1>6 DEF IsHand, IsAnn
<1>. QED  BY <1>1, <1>2, <1>3, <1>4, <1>5, <1>6, <1>7

LEMMA ReceivedAll ==
  ASSUME Typed, HalfIs, Skew, GotIs, NEW p \in Proc, In(p, "probe"), ~ MoreHanded(p)
  PROVE  /\ RecvData(p) = RecvOf(Asked(call[p]), p, Side(p))
         /\ GlobalData(p) = GlobalOf(Asked(call[p]), p, Side(p))
<1> DEFINE c == call[p]
           s == Side(p)
           D(q) == SendData(Asked(c), q, s)[p]
           S == Senders(Asked(c), p, s)
           G == got[p]
<1>1. c \in Calls /\ s \in Sides
  BY ProbeNow
<1>2. \A m : m \in G <=> \E q \in S : m = HandMsg(c, s, q, p)
  BY AllHanded DEF HandedTo
<1>3. \A q \in S : HandMsg(c, s, q, p).src = q /\ HandMsg(c, s, q, p).body = D(q)
  BY DEF HandMsg
<1> HIDE DEF D, S, G
<1>4. { m.src : m \in G } = S
  BY <1>2, <1>3
<1>5. ASSUME NEW q \in S PROVE UNION { m.body : m \in { n \in G : n.src = q } } = D(q)
  <2>1. \A m : m \in { n \in G : n.src = q } <=> m = HandMsg(c, s, q, p)
    BY <1>2, <1>3
  <2>2. { n \in G : n.src = q } = {HandMsg(c, s, q, p)}
    BY <2>1
  <2>3. { m.body : m \in { n \in G : n.src = q } } = {D(q)}
    BY <1>3, <2>2
  <2>. QED  BY <2>3
<1>6. [q \in { m.src : m \in G } |-> UNION { m.body : m \in { n \in G : n.src = q } }]
        = [q \in S |-> D(q)]
  BY <1>4, <1>5
<1>7. RecvData(p) = RecvOf(Asked(c), p, s)
  BY <1>6 DEF RecvData, RecvOf, D, S, G
<1>8. { m.body : m \in G } = { D(q) : q \in S }
  BY <1>2, <1>3
<1>9. UNION { m.body : m \in G } = EntriesAt(Asked(c), p, s)
  BY <1>8 DEF EntriesAt, D, S
<1>10. GlobalData(p) = GlobalOf(Asked(c), p, s)
  <2>1. PICK E : E = EntriesAt(Asked(c), p, s)
    OBVIOUS
  <2>2. UNION { m.body : m \in got[p] } = E
    BY <1>9, <2>1 DEF G
  <2>. QED  BY <2>1, <2>2 DEF GlobalData, GlobalOf
<1>. QED  BY <1>7, <1>10

LEMMA HalfSame ==
  ASSUME Typed, NEW p \in Proc, Step(p), NEW q \in Proc, NEW c \in Calls, NEW s \in Sides,
         ~ (q = p /\ call[p] = c /\ Side(p) = s /\ (MapProcsToNodes(p) \/ FormGlobal(p)))
  PROVE  HalfOf(q, c, s)' = HalfOf(q, c, s)
<1>1. input' = input /\ c \in Int /\ Progress(q) \in Nat /\ Progress(q)' \in Nat /\ Progress(q)' >= Progress(q)
  BY StepMoves, CallsAre, Grows
<1>2. When(c, "form", s) \in Int /\ When(c, "probe", s) \in Int
  BY <1>1, NextWhen
<1>3. Progress(q)' >= When(c, "form", s) <=> Progress(q) >= When(c, "form", s)
  BY <1>1, <1>2, Reaches
<1>4. Progress(q)' > When(c, "probe", s) <=> Progress(q) > When(c, "probe", s)
  BY <1>1, <1>2, Leaves
<1>. QED  BY <1>1, <1>3, <1>4, AskedKept DEF HalfOf

LEMMA HalfKept ==
  ASSUME Typed, HalfIs, Skew, GotIs, NEW p \in Proc, Step(p)
  PROVE  HalfIs'
<1>1. input' = input /\ Calls' = Calls
  BY StepMoves, AskedKept
<1>2. SUFFICES half' = [q \in Proc |-> [d \in Calls |-> [t \in Sides |-> HalfOf(q, d, t)']]]
  BY <1>1 DEF HalfIs
<1>3. half = [q \in Proc |-> [d \in Calls |-> [t \in Sides |-> HalfOf(q, d, t)]]]
  BY DEF HalfIs
<1>4. CASE ~ MapProcsToNodes(p) /\ ~ FormGlobal(p)
  <2>1. half' = half
    BY <1>4 DEF Step, InitLocality, FormAllreduce, FormProbe, FindAllreduce, LearnProbe, Learned, FinishPlan
  <2>2. \A q \in Proc, d \in Calls, t \in Sides : HalfOf(q, d, t)' = HalfOf(q, d, t)
    BY <1>4, HalfSame
  <2>. QED  BY <1>3, <2>1, <2>2
<1>5. ASSUME NEW c \in Calls, NEW s \in Sides, c = call[p], s = Side(p),
             MapProcsToNodes(p) \/ FormGlobal(p),
             half' = [half EXCEPT ![p][c][s] = HalfOf(p, c, s)']
      PROVE  half' = [q \in Proc |-> [d \in Calls |-> [t \in Sides |-> HalfOf(q, d, t)']]]
  <2> DEFINE h(q, d, t) == HalfOf(q, d, t)
             k(q, d, t) == HalfOf(q, d, t)'
  <2>1. \A q \in Proc, d \in Calls, t \in Sides : ~ (q = p /\ d = c /\ t = s) => k(q, d, t) = h(q, d, t)
    BY <1>5, HalfSame
  <2>2. half = [q \in Proc |-> [d \in Calls |-> [t \in Sides |-> h(q, d, t)]]]
    BY <1>3
  <2>3. half' = [half EXCEPT ![p][c][s] = k(p, c, s)]
    BY <1>5
  <2> HIDE DEF h, k
  <2>4. half' = [q \in Proc |-> [d \in Calls |-> [t \in Sides |-> k(q, d, t)]]]
    <3> DEFINE R == [q \in Proc |-> [d \in Calls |-> [t \in Sides |-> k(q, d, t)]]]
    <3>1. half' = [q \in Proc |-> IF q = p THEN [half[p] EXCEPT ![c][s] = k(p, c, s)] ELSE half[q]]
      BY <2>2, <2>3
    <3>2. \A q \in Proc : half[q] = [d \in Calls |-> [t \in Sides |-> h(q, d, t)]]
      BY <2>2
    <3>3. \A q \in Proc \ {p} : half[q] = R[q]
      <4>1. \A q \in Proc \ {p} : \A d \in Calls, t \in Sides : k(q, d, t) = h(q, d, t)
        BY <2>1
      <4>. QED  BY <3>2, <4>1
    <3>4. [half[p] EXCEPT ![c][s] = k(p, c, s)]
            = [d \in Calls |-> IF d = c THEN [half[p][c] EXCEPT ![s] = k(p, c, s)] ELSE half[p][d]]
      BY <1>5, <3>2
    <3>5. \A d \in Calls : half[p][d] = [t \in Sides |-> h(p, d, t)]
      BY <3>2
    <3>6. [half[p][c] EXCEPT ![s] = k(p, c, s)]
            = [t \in Sides |-> IF t = s THEN k(p, c, s) ELSE h(p, c, t)]
      BY <1>5, <3>5
    <3>7. [half[p][c] EXCEPT ![s] = k(p, c, s)] = [t \in Sides |-> k(p, c, t)]
      <4>1. \A t \in Sides : (IF t = s THEN k(p, c, s) ELSE h(p, c, t)) = k(p, c, t)
        BY <1>5, <2>1
      <4>. QED  BY <3>6, <4>1
    <3>8. \A d \in Calls \ {c} : half[p][d] = [t \in Sides |-> k(p, d, t)]
      <4>1. \A d \in Calls \ {c} : \A t \in Sides : k(p, d, t) = h(p, d, t)
        BY <2>1
      <4>. QED  BY <3>5, <4>1
    <3>9. [half[p] EXCEPT ![c][s] = k(p, c, s)] = R[p]
      BY <3>4, <3>7, <3>8
    <3>10. half' = [q \in Proc |-> R[q]]
      BY <3>1, <3>3, <3>9
    <3>. QED  BY <3>10
  <2>. QED  BY <2>4 DEF k
<1>6. CASE MapProcsToNodes(p)
  <2>0. PICK c \in Calls, s \in Sides : c = call[p] /\ s = Side(p)
    BY <1>6, MapGoes, ProgressIs
  <2>1. Progress(p) = When(c, "sizes", s) /\ Progress(p)' = Progress(p) + 1
        /\ c \in Int /\ Progress(p) \in Nat
    BY <1>6, <2>0, MapGoes, ProgressIs, CallsAre DEF Moves
  <2>2. When(c, "form", s) = Progress(p) + 1 /\ When(c, "probe", s) = Progress(p) + 2
    BY <2>1, NextWhen
  <2>3. HalfOf(p, c, s) = NoHalf
    BY <2>1, <2>2 DEF HalfOf, NoHalf
  <2>4. half[p][c][s] = NoHalf
    BY <1>3, <2>1, <2>3
  <2>5. HalfOf(p, c, s)' = [send |-> SendData(Asked(c), p, s), recv |-> << >>,
                            local |-> LocalData(Asked(c), p, s), global |-> << >>]
    <3>1. \A d \in Calls : \A t \in Sides : HalfOf(p, d, t)' =
            [send |-> IF Progress(p)' >= When(d, "form", t) THEN SendData(Asked(d), p, t) ELSE << >>,
             recv |-> IF Progress(p)' > When(d, "probe", t) THEN RecvOf(Asked(d), p, t) ELSE << >>,
             local |-> IF Progress(p)' >= When(d, "form", t) THEN LocalData(Asked(d), p, t) ELSE << >>,
             global |-> IF Progress(p)' > When(d, "probe", t) THEN GlobalOf(Asked(d), p, t) ELSE << >>]
      BY <1>1, AskedKept DEF HalfOf
    <3>. QED  BY <2>1, <2>2, <3>1
  <2>6. half' = [half EXCEPT ![p][c][s] = [half[p][c][s] EXCEPT !.send = SendData(Asked(c), p, s),
                                                               !.local = LocalData(Asked(c), p, s)]]
    BY <1>6, <2>0 DEF MapProcsToNodes
  <2>7. [half[p][c][s] EXCEPT !.send = SendData(Asked(c), p, s), !.local = LocalData(Asked(c), p, s)]
          = HalfOf(p, c, s)'
    <3>1. PICK r, a, b : r = half[p][c][s] /\ a = SendData(Asked(c), p, s) /\ b = LocalData(Asked(c), p, s)
      OBVIOUS
    <3>2. PICK x : x = [r EXCEPT !.send = a, !.local = b]
      OBVIOUS
    <3>3. r = [send |-> << >>, recv |-> << >>, local |-> << >>, global |-> << >>]
      BY <3>1, <2>4 DEF NoHalf
    <3>4. DOMAIN r = {"send", "recv", "local", "global"}
      BY <3>3
    <3>5. x.send = a /\ x.local = b /\ x = [i \in DOMAIN r |-> x[i]]
      BY <3>2, <3>4
    <3>6. \A i \in DOMAIN r \ {"send", "local"} : x[i] = r[i]
      BY <3>2, <3>4
    <3>7. x = [send |-> a, recv |-> << >>, local |-> b, global |-> << >>]
      BY <3>3, <3>4, <3>5, <3>6
    <3>. QED  BY <2>5, <3>1, <3>2, <3>7
  <2>. QED  BY <1>5, <1>6, <2>0, <2>6, <2>7
<1>7. CASE FormGlobal(p)
  <2>0. PICK c \in Calls, s \in Sides : c = call[p] /\ s = Side(p)
    BY <1>7, FormGlobalGoes, ProgressIs
  <2>1. Progress(p) = When(c, "probe", s) /\ Progress(p)' = Progress(p) + 1
        /\ c \in Int /\ Progress(p) \in Nat
    BY <1>7, <2>0, FormGlobalGoes, ProgressIs, CallsAre DEF Moves
  <2>2. When(c, "form", s) = Progress(p) - 1
    BY <2>1, NextWhen
  <2>3. HalfOf(p, c, s) = [send |-> SendData(Asked(c), p, s), recv |-> << >>,
                           local |-> LocalData(Asked(c), p, s), global |-> << >>]
    BY <2>1, <2>2 DEF HalfOf
  <2>4. half[p][c][s] = HalfOf(p, c, s)
    BY <1>3, <2>1
  <2>5. HalfOf(p, c, s)' = [send |-> SendData(Asked(c), p, s), recv |-> RecvOf(Asked(c), p, s),
                            local |-> LocalData(Asked(c), p, s), global |-> GlobalOf(Asked(c), p, s)]
    <3>1. \A d \in Calls : \A t \in Sides : HalfOf(p, d, t)' =
            [send |-> IF Progress(p)' >= When(d, "form", t) THEN SendData(Asked(d), p, t) ELSE << >>,
             recv |-> IF Progress(p)' > When(d, "probe", t) THEN RecvOf(Asked(d), p, t) ELSE << >>,
             local |-> IF Progress(p)' >= When(d, "form", t) THEN LocalData(Asked(d), p, t) ELSE << >>,
             global |-> IF Progress(p)' > When(d, "probe", t) THEN GlobalOf(Asked(d), p, t) ELSE << >>]
      BY <1>1, AskedKept DEF HalfOf
    <3>. QED  BY <2>1, <2>2, <3>1
  <2>6. RecvData(p) = RecvOf(Asked(c), p, s) /\ GlobalData(p) = GlobalOf(Asked(c), p, s)
    <3>1. In(p, "probe") /\ ~ MoreHanded(p)
      BY <1>7 DEF FormGlobal
    <3>. QED  BY <2>0, <3>1, ReceivedAll
  <2>7. half' = [half EXCEPT ![p][c][s] = [half[p][c][s] EXCEPT !.recv = RecvData(p), !.global = GlobalData(p)]]
    BY <1>7, <2>0 DEF FormGlobal
  <2>8. [half[p][c][s] EXCEPT !.recv = RecvData(p), !.global = GlobalData(p)] = HalfOf(p, c, s)'
    <3>1. PICK r, a, b : r = half[p][c][s] /\ a = RecvData(p) /\ b = GlobalData(p)
      OBVIOUS
    <3>2. PICK x : x = [r EXCEPT !.recv = a, !.global = b]
      OBVIOUS
    <3>3. r = [send |-> SendData(Asked(c), p, s), recv |-> << >>,
               local |-> LocalData(Asked(c), p, s), global |-> << >>]
      BY <3>1, <2>3, <2>4
    <3>4. DOMAIN r = {"send", "recv", "local", "global"}
      BY <3>3
    <3>5. x.recv = a /\ x.global = b /\ x = [i \in DOMAIN r |-> x[i]]
      BY <3>2, <3>4
    <3>6. \A i \in DOMAIN r \ {"recv", "global"} : x[i] = r[i]
      BY <3>2, <3>4
    <3>7. x = [send |-> SendData(Asked(c), p, s), recv |-> a,
               local |-> LocalData(Asked(c), p, s), global |-> b]
      BY <3>3, <3>4, <3>5, <3>6
    <3>. QED  BY <2>5, <2>6, <3>1, <3>2, <3>7
  <2>. QED  BY <1>5, <1>7, <2>0, <2>7, <2>8
<1>. QED  BY <1>4, <1>6, <1>7

(* Tags. *)
LEMMA ModStep ==
  ASSUME NEW i \in Nat, NEW s \in Nat \ {0}
  PROVE  /\ i % s \in 0 .. s - 1
         /\ (i + 1) % s = IF (i % s) + 1 = s THEN 0 ELSE (i % s) + 1
<1>1. i = (s * (i \div s)) + (i % s) /\ i % s \in 0 .. s - 1
  OBVIOUS
<1>2. i + 1 = (s * ((i + 1) \div s)) + ((i + 1) % s) /\ (i + 1) % s \in 0 .. s - 1
  OBVIOUS
<1>3. PICK a \in Int, b \in Int : a = i \div s /\ b = (i + 1) \div s
  OBVIOUS
<1>4. PICK r \in 0 .. s - 1, t \in 0 .. s - 1 : r = i % s /\ t = (i + 1) % s
  BY <1>1, <1>2
<1>5. s * (b - a) = r + 1 - t
  <2>1. (s * a) + r + 1 = (s * b) + t
    BY <1>1, <1>2, <1>3, <1>4
  <2>. QED  BY <2>1
<1>6. b = a \/ b = a + 1
  BY <1>5
<1>7. CASE b = a
  BY <1>4, <1>5, <1>7
<1>8. CASE b = a + 1
  BY <1>4, <1>5, <1>8
<1>. QED  BY <1>6, <1>7, <1>8

LEMMA TagIs ==
  ASSUME NEW k \in Nat
  PROVE  Tag(k) \in 0 .. MaxTag - 1 /\ NextTag(Tag(k)) = Tag(k + 1)
<1>1. MaxTag \in Nat \ {0} /\ 126 + k \in Nat
  BY PlanAssumption
<1>2. PICK n \in Nat \ {0}, i \in Nat : n = MaxTag /\ i = 126 + k
  BY <1>1
<1>3. PICK t \in 0 .. n - 1 : t = i % n
  BY ModStep
<1>4. (i + 1) % n = IF t + 1 = n THEN 0 ELSE t + 1
  BY <1>3, ModStep
<1>5. t \in Nat /\ t % n = t
  OBVIOUS
<1>6. (t + 1) % n = IF t + 1 = n THEN 0 ELSE t + 1
  <2>1. (t + 1) % n = IF (t % n) + 1 = n THEN 0 ELSE (t % n) + 1
    BY <1>5, ModStep
  <2>. QED  BY <1>5, <2>1
<1>7. 126 + (k + 1) = i + 1
  BY <1>2
<1>8. Tag(k) = t /\ Tag(k + 1) = (i + 1) % n /\ NextTag(t) = (t + 1) % n
  BY <1>2, <1>3, <1>7 DEF Tag, NextTag
<1>. QED  BY <1>2, <1>4, <1>6, <1>8

LEMMA TagsApart ==
  ASSUME EnoughTags, NEW k \in Nat, NEW d \in {1, 5}
  PROVE  Tag(k + d) # Tag(k)
<1>1. MaxTag \in Nat \ {0, 1, 5}
  BY PlanAssumption DEF EnoughTags
<1>2. PICK n \in Nat \ {0, 1, 5}, i \in Nat : n = MaxTag /\ i = 126 + k
  BY <1>1
<1>3. i = (n * (i \div n)) + (i % n) /\ i % n \in 0 .. n - 1
  OBVIOUS
<1>4. i + d \in Nat /\ i + d = (n * ((i + d) \div n)) + ((i + d) % n) /\ (i + d) % n \in 0 .. n - 1
  <2>1. PICK j \in Nat : j = i + d
    OBVIOUS
  <2>2. j = (n * (j \div n)) + (j % n) /\ j % n \in 0 .. n - 1
    OBVIOUS
  <2>. QED  BY <2>1, <2>2
<1>5. SUFFICES ASSUME (i + d) % n = i % n PROVE FALSE
  <2>1. 126 + (k + d) = i + d
    BY <1>2
  <2>. QED  BY <1>2, <2>1 DEF Tag
<1>6. PICK a \in Int, b \in Int : a = i \div n /\ b = (i + d) \div n
  <2>1. PICK j \in Nat : j = i + d
    BY <1>4
  <2>2. i \div n \in Int /\ j \div n \in Int
    OBVIOUS
  <2>. QED  BY <2>1, <2>2
<1>7. n * (b - a) = d
  <2>1. (n * a) + d = n * b
    BY <1>3, <1>4, <1>5, <1>6
  <2>. QED  BY <2>1
<1>8. PICK x \in Int : x = b - a
  OBVIOUS
<1>9. n * x = d
  BY <1>7, <1>8
<1>10. x > 0 /\ x < 6
  BY <1>9
<1>11. x = 1 \/ x = 2 \/ x = 3 \/ x = 4 \/ x = 5
  BY <1>10
<1>. QED  BY <1>9, <1>11

LEMMA TagsKept ==
  ASSUME Typed, TagsAre, NEW p \in Proc, Step(p)
  PROVE  TagsAre'
<1>1. \A q \in Proc : call[q] \in Nat /\ commTag[q] = Tag(TagsTaken(q))
  BY ProgressIs DEF TagsAre
<1>2. DOMAIN commTag = Proc /\ tags \in [Proc -> [Sides -> 0 .. MaxTag - 1]]
  BY DEF TagsAre
<1>3. input' = input
  BY StepMoves
<1>4. SUFFICES /\ DOMAIN commTag' = Proc /\ commTag' = [q \in Proc |-> commTag'[q]]
               /\ tags' \in [Proc -> [Sides -> 0 .. MaxTag - 1]]
               /\ \A q \in Proc : /\ commTag'[q] = Tag(TagsTaken(q)')
                                  /\ Progress(q)' >= When(call'[q], "find", "S") /\ call'[q] > 0 =>
                                       \A s \in Sides : tags'[q][s] = AnnTag(call'[q], s)
  BY DEF TagsAre
<1>5. ASSUME NEW q \in Proc, Progress(q)' = Progress(q), call'[q] = call[q],
             commTag'[q] = commTag[q], tags'[q] = tags[q]
      PROVE  /\ commTag'[q] = Tag(TagsTaken(q)')
             /\ Progress(q)' >= When(call'[q], "find", "S") /\ call'[q] > 0 =>
                  \A s \in Sides : tags'[q][s] = AnnTag(call'[q], s)
  BY <1>1, <1>5 DEF TagsTaken, TagsAre
<1>6. CASE InitLocality(p)
  <2>1. /\ Progress(p) = When(call[p], "idle", "R") /\ Moves(p) /\ call'[p] = call[p] + 1
    BY <1>6, InitLocalityGoes
  <2>2. PICK c \in Nat : c = call[p]
    BY <1>1
  <2>3. /\ When(c, "idle", "R") = When(c, "find", "R") + 3 /\ When(c, "find", "R") \in Int
        /\ When(c, "find", "R") = When(c, "find", "S") + 2 /\ When(c, "find", "S") \in Int
        /\ When(c + 1, "sizes", "S") = When(c, "find", "R") + 4
    <3>1. "R" \in Sides /\ "S" \in Sides
      BY DEF Sides
    <3>. QED  BY <3>1, NextWhen
  <2>4. When(c + 1, "sizes", "S") = 12 * (c + 1) + 1 /\ When(c + 1, "find", "S") = 12 * (c + 1) + 7
    <3>1. PICK d \in Int : d = c + 1
      OBVIOUS
    <3>. QED  BY <3>1, WhenIs
  <2>5. commTag[p] = Tag(6 * c)
    BY <1>1, <2>1, <2>2, <2>3 DEF TagsTaken
  <2>6. NextTag(NextTag(NextTag(NextTag(commTag[p])))) = Tag(6 * c + 4)
    <3>1. PICK k \in Nat : k = 6 * c
      BY <2>2
    <3>2. NextTag(Tag(k)) = Tag(k + 1) /\ NextTag(Tag(k + 1)) = Tag((k + 1) + 1)
      BY TagIs
    <3>3. NextTag(Tag(k + 2)) = Tag((k + 2) + 1) /\ NextTag(Tag(k + 3)) = Tag((k + 3) + 1)
      BY TagIs
    <3>4. (k + 1) + 1 = k + 2 /\ (k + 2) + 1 = k + 3 /\ (k + 3) + 1 = k + 4
      OBVIOUS
    <3>. QED  BY <2>5, <3>1, <3>2, <3>3, <3>4
  <2>7. commTag' = [commTag EXCEPT ![p] = NextTag(NextTag(NextTag(NextTag(commTag[p]))))]
        /\ tags' = tags
    BY <1>6 DEF InitLocality
  <2>8. commTag'[p] = Tag(6 * c + 4) /\ \A q \in Proc \ {p} : commTag'[q] = commTag[q]
    BY <1>2, <2>6, <2>7
  <2>9. Progress(p)' = 12 * (c + 1) + 1
    BY <2>1, <2>2, <2>3, <2>4 DEF Moves
  <2>10. ~ (Progress(p)' >= When(call'[p], "find", "S"))
    BY <2>1, <2>2, <2>4, <2>9
  <2>11. TagsTaken(p)' = 6 * c + 4
    <3>1. TagsTaken(p)' = 6 * (call'[p] - 1) + 4
      BY <2>10 DEF TagsTaken
    <3>. QED  BY <2>1, <2>2, <3>1
  <2>12. \A q \in Proc \ {p} : Progress(q)' = Progress(q) /\ call'[q] = call[q]
    BY <2>1 DEF Moves
  <2>. QED  BY <1>2, <1>5, <2>7, <2>8, <2>10, <2>11, <2>12
<1>7. CASE FormGlobal(p) /\ Side(p) = "R"
  <2>1. /\ Progress(p) = When(call[p], "probe", "R") /\ Moves(p) /\ call'[p] = call[p] /\ call[p] \in Calls
    BY <1>7, FormGlobalGoes
  <2>2. PICK c \in Nat : c = call[p]
    BY <1>1
  <2>3. When(c, "probe", "R") = 12 * c + 6 /\ When(c, "find", "S") = 12 * c + 7
    BY WhenIs
  <2>4. commTag[p] = Tag(6 * (c - 1) + 4)
    BY <1>1, <2>1, <2>2, <2>3 DEF TagsTaken
  <2>5. c >= 1
    BY <2>1, <2>2 DEF Calls
  <2>6. /\ NextTag(commTag[p]) = Tag(6 * (c - 1) + 5) /\ NextTag(NextTag(commTag[p])) = Tag(6 * c)
        /\ commTag[p] \in 0 .. MaxTag - 1 /\ NextTag(commTag[p]) \in 0 .. MaxTag - 1
    <3>1. PICK k \in Nat : k = 6 * (c - 1) + 4
      BY <2>5
    <3>2. Tag(k) \in 0 .. MaxTag - 1 /\ NextTag(Tag(k)) = Tag(k + 1)
      BY TagIs
    <3>3. Tag(k + 1) \in 0 .. MaxTag - 1 /\ NextTag(Tag(k + 1)) = Tag((k + 1) + 1)
      BY TagIs
    <3>4. k + 1 = 6 * (c - 1) + 5 /\ (k + 1) + 1 = 6 * c
      BY <3>1
    <3>. QED  BY <2>4, <3>1, <3>2, <3>3, <3>4
  <2>7. /\ commTag' = [commTag EXCEPT ![p] = NextTag(NextTag(commTag[p]))]
        /\ tags' = [tags EXCEPT ![p]["S"] = commTag[p], ![p]["R"] = NextTag(commTag[p])]
    BY <1>7 DEF FormGlobal
  <2>8. commTag'[p] = Tag(6 * c) /\ \A q \in Proc \ {p} : commTag'[q] = commTag[q]
    BY <1>2, <2>6, <2>7
  <2>9. Progress(p)' >= When(call'[p], "find", "S")
    BY <2>1, <2>2, <2>3 DEF Moves
  <2>10. TagsTaken(p)' = 6 * c
    BY <2>1, <2>2, <2>9 DEF TagsTaken
  <2>11. /\ tags' \in [Proc -> [Sides -> 0 .. MaxTag - 1]]
         /\ tags'[p]["S"] = commTag[p] /\ tags'[p]["R"] = NextTag(commTag[p])
         /\ \A q \in Proc \ {p} : tags'[q] = tags[q]
    <3>1. PICK u, v : u = commTag[p] /\ v = NextTag(commTag[p])
      OBVIOUS
    <3>2. tags' = [[tags EXCEPT ![p]["S"] = u] EXCEPT ![p]["R"] = v]
      BY <2>7, <3>1
    <3>3. PICK w : w = [tags EXCEPT ![p]["S"] = u]
      OBVIOUS
    <3>4. w \in [Proc -> [Sides -> 0 .. MaxTag - 1]] /\ w[p]["S"] = u /\ \A q \in Proc \ {p} : w[q] = tags[q]
      BY <1>2, <2>6, <3>1, <3>3 DEF Sides
    <3>5. tags' = [w EXCEPT ![p]["R"] = v]
      BY <3>2, <3>3
    <3>. QED  BY <2>6, <3>1, <3>4, <3>5 DEF Sides
  <2>12. \A s \in Sides : tags'[p][s] = AnnTag(c, s)
    BY <2>4, <2>6, <2>11 DEF AnnTag, Sides
  <2>13. \A q \in Proc \ {p} : Progress(q)' = Progress(q) /\ call'[q] = call[q]
    BY <2>1 DEF Moves
  <2>14. DOMAIN commTag' = Proc /\ commTag' = [q \in Proc |-> commTag'[q]]
    <3>1. PICK v : commTag' = [commTag EXCEPT ![p] = v]
      BY <2>7
    <3>. QED  BY <1>2, <3>1
  <2>15. ASSUME NEW q \in Proc
         PROVE  /\ commTag'[q] = Tag(TagsTaken(q)')
                /\ Progress(q)' >= When(call'[q], "find", "S") /\ call'[q] > 0 =>
                     \A s \in Sides : tags'[q][s] = AnnTag(call'[q], s)
    <3>1. CASE q = p
      BY <2>1, <2>2, <2>8, <2>10, <2>12, <3>1
    <3>2. CASE q # p
      BY <1>5, <2>8, <2>11, <2>13, <3>2
    <3>. QED  BY <3>1, <3>2
  <2>. QED  BY <2>11, <2>14, <2>15
<1>8. CASE ~ InitLocality(p) /\ ~ (FormGlobal(p) /\ Side(p) = "R")
  <2>1. commTag' = commTag /\ tags' = tags /\ call' = call
    <3>1. FormGlobal(p) => Side(p) = "S"
      BY <1>8, ProgressIs DEF Sides
    <3>2. FormGlobal(p) => UNCHANGED <<commTag, tags, call>>
      BY <3>1 DEF FormGlobal
    <3>. QED  BY <1>8, <3>2 DEF Step, MapProcsToNodes, FormAllreduce, FormProbe, FindAllreduce,
                                LearnProbe, Learned, FinishPlan
  <2>2. \A q \in Proc : Progress(q) \in Nat /\ Progress(q)' \in Nat /\ Progress(q)' >= Progress(q)
    BY Grows
  <2>3. ASSUME NEW q \in Proc PROVE Progress(q)' >= When(call[q], "find", "S") <=> Progress(q) >= When(call[q], "find", "S")
    <3>1. PICK c \in Nat : c = call[q]
      BY <1>1
    <3>2. When(c, "probe", "R") = 12 * c + 6 /\ When(c, "find", "S") = 12 * c + 7
      BY WhenIs
    <3>3. ~ (Progress(q)' > When(c, "probe", "R") /\ Progress(q) <= When(c, "probe", "R"))
      BY <1>8, Leaves DEF Sides
    <3>. QED  BY <2>2, <3>1, <3>2, <3>3
  <2>4. ASSUME NEW q \in Proc PROVE TagsTaken(q)' = TagsTaken(q)
    BY <2>1, <2>3 DEF TagsTaken
  <2>. QED  BY <1>1, <1>2, <2>1, <2>3, <2>4 DEF TagsAre
<1>. QED  BY <1>6, <1>7, <1>8
-----------------------------------------------------------------------------
(* What a rank takes from MPI_ANY_SOURCE is meant for the loop it is in. *)
LEMMA FixedApart ==
  ASSUME NEW s \in Sides, NEW t \in Sides, Fixed(s) = Fixed(t)
  PROVE  s = t
BY DEF Fixed, Sides

LEMMA HandOwn ==
  ASSUME Typed, NEW p \in Proc, In(p, "probe"), NEW m, HandInFlight(m), m.dst = p,
         m.tag = Fixed(Side(p))
  PROVE  m.call = call[p] /\ m.side = Side(p)
<1>1. /\ call[p] \in Nat /\ Side(p) \in Sides /\ Progress(p) = When(call[p], "probe", Side(p))
  BY ProgressIs DEF In
<1>2. m.call \in Nat /\ m.side \in Sides /\ m.tag = Fixed(m.side)
  BY HandIs, CallsAre DEF HandInFlight
<1>3. m.side = Side(p)
  BY <1>1, <1>2, FixedApart
<1>4. PICK c \in Nat, d \in Nat, s \in Sides : c = call[p] /\ d = m.call /\ s = Side(p)
  BY <1>1, <1>2
<1>5. PICK k \in {1, 4} : When(c, "sizes", s) = 12 * c + k /\ When(d, "sizes", s) = 12 * d + k
  BY SideCases
<1>6. When(c, "probe", s) = When(c, "sizes", s) + 2 /\ When(d, "probe", s) = When(d, "sizes", s) + 2
  BY NextWhen
<1>7. When(c, "probe", s) >= When(d, "sizes", s) /\ When(c, "probe", s) <= When(d, "probe", s)
  BY <1>1, <1>3, <1>4 DEF HandInFlight
<1>8. c = d
  BY <1>5, <1>6, <1>7
<1>. QED  BY <1>3, <1>4, <1>8

LEMMA AnnOwn ==
  ASSUME Typed, TagsAre, EnoughTags, NEW p \in Proc, In(p, "learn"), NEW m, AnnInFlight(m),
         m.dst = p, m.tag = tags[p][Side(p)]
  PROVE  m.call = call[p] /\ m.side = Side(p)
<1>1. /\ call[p] \in Nat /\ call[p] \in Calls /\ Side(p) \in Sides
      /\ Progress(p) = When(call[p], "learn", Side(p))
  BY ProgressIs DEF In
<1>2. m.call \in Nat /\ m.call \in Calls /\ m.side \in Sides /\ m.tag = AnnTag(m.call, m.side)
  BY AnnIs, CallsAre DEF AnnInFlight
<1>3. PICK c \in Nat, d \in Nat, s \in Sides, t \in Sides :
        c = call[p] /\ d = m.call /\ s = Side(p) /\ t = m.side
  BY <1>1, <1>2
<1>4. c >= 1 /\ d >= 1
  BY <1>1, <1>2, <1>3 DEF Calls
<1>5. PICK e \in Int : e = d - 1
  OBVIOUS
<1>6. /\ When(c, "learn", "S") = 12 * c + 8 /\ When(c, "learn", "R") = 12 * c + 10
      /\ When(c, "find", "S") = 12 * c + 7
  BY WhenIs
<1>7. /\ When(d, "learn", "S") = 12 * d + 8 /\ When(d, "learn", "R") = 12 * d + 10
      /\ When(d, "find", "S") = 12 * d + 7 /\ When(e, "find", "R") = 12 * e + 9
  BY WhenIs
<1>8. tags[p][s] = AnnTag(c, s)
  <2>1. Progress(p) >= When(c, "find", "S")
    BY <1>1, <1>3, <1>6 DEF Sides
  <2>. QED  BY <1>3, <1>4, <2>1 DEF TagsAre
<1>9. AnnTag(d, t) = AnnTag(c, s)
  BY <1>2, <1>3, <1>8
<1>10. /\ When(c, "learn", s) >= (IF t = "R" THEN When(d, "find", "S") ELSE When(e, "find", "R"))
       /\ When(c, "learn", s) <= When(d, "learn", t)
  BY <1>1, <1>3, <1>5 DEF AnnInFlight
<1>11. PICK k \in Nat : k = 6 * (c - 1) + 4
  BY <1>4
<1>12. Tag(k + 1) # Tag(k) /\ Tag((k + 1) + 5) # Tag(k + 1)
  BY TagsApart
<1>13. AnnTag(c, "S") = Tag(k) /\ AnnTag(c, "R") = Tag(k + 1)
  <2>1. 6 * (c - 1) + 5 = k + 1
    BY <1>11
  <2>. QED  BY <1>11, <2>1 DEF AnnTag
<1>14. CASE t = "R" /\ s = "R"
  BY <1>3, <1>6, <1>7, <1>10, <1>14
<1>15. CASE t = "R" /\ s = "S"
  <2>1. c = d
    BY <1>6, <1>7, <1>10, <1>15
  <2>. QED  BY <1>9, <1>12, <1>13, <1>15, <2>1
<1>16. CASE t = "S" /\ s = "S"
  BY <1>3, <1>5, <1>6, <1>7, <1>10, <1>16
<1>17. CASE t = "S" /\ s = "R"
  <2>1. d = c + 1
    BY <1>5, <1>6, <1>7, <1>10, <1>17
  <2>2. AnnTag(d, "S") = Tag((k + 1) + 5)
    <3>1. 6 * (d - 1) + 4 = (k + 1) + 5
      BY <1>11, <2>1
    <3>. QED  BY <3>1 DEF AnnTag
  <2>. QED  BY <1>9, <1>12, <1>13, <1>17, <2>2
<1>. QED  BY <1>14, <1>15, <1>16, <1>17 DEF Sides

LEMMA Taken ==
  ASSUME Typed, TagsAre, InFlight, EnoughTags, NEW p \in Proc
  PROVE  /\ In(p, "probe") => \A m \in Matching(p, "local", Fixed(Side(p))) :
              m \in flight /\ IsHand(m) /\ m.dst = p /\ m.call = call[p] /\ m.side = Side(p)
         /\ In(p, "learn") => \A m \in Matching(p, "global", tags[p][Side(p)]) :
              m \in flight /\ IsAnn(m) /\ m.dst = p /\ m.call = call[p] /\ m.side = Side(p)
<1>1. \A m \in flight : /\ m.comm = "local" => HandInFlight(m)
                        /\ m.comm = "global" => AnnInFlight(m)
  BY DEF InFlight, HandInFlight, AnnInFlight, IsHand, IsAnn
<1>2. ASSUME In(p, "probe"), NEW m \in Matching(p, "local", Fixed(Side(p)))
      PROVE  m \in flight /\ IsHand(m) /\ m.dst = p /\ m.call = call[p] /\ m.side = Side(p)
  <2>1. m \in flight /\ m.comm = "local" /\ m.dst = p /\ m.tag = Fixed(Side(p))
    BY DEF Matching
  <2>. QED  BY <1>1, <1>2, <2>1, HandOwn DEF HandInFlight
<1>3. ASSUME In(p, "learn"), NEW m \in Matching(p, "global", tags[p][Side(p)])
      PROVE  m \in flight /\ IsAnn(m) /\ m.dst = p /\ m.call = call[p] /\ m.side = Side(p)
  <2>1. m \in flight /\ m.comm = "global" /\ m.dst = p /\ m.tag = tags[p][Side(p)]
    BY DEF Matching
  <2>. QED  BY <1>1, <1>3, <2>1, AnnOwn DEF AnnInFlight
<1>. QED  BY <1>2, <1>3

(* The announcements of a rank. *)
LEMMA AnnouncedIs ==
  ASSUME NEW p, NEW c, c = call[p], NEW s, NEW G, G = GlobalOf(Asked(c), p, s), NEW t, t = AnnTag(c, s)
  PROVE  Announced(p, s, G, t) = Anns(c, s, p)
BY DEF Announced, Anns, AnnMsg

LEMMA FormGlobalPosts ==
  ASSUME Typed, HalfIs, TagsAre, NEW p \in Proc, FormGlobal(p)
  PROVE  /\ Side(p) = "S" => flight' = flight
         /\ Side(p) = "R" => flight' = flight \cup Anns(call[p], "S", p)
         /\ got' = [got EXCEPT ![p] = {}]
<1>1. ASSUME Side(p) = "R" PROVE flight' = flight \cup Anns(call[p], "S", p)
  <2>1. call[p] \in Calls /\ Progress(p) = When(call[p], "probe", "R") /\ call[p] \in Nat
    BY <1>1, FormGlobalGoes, ProgressIs
  <2>2. PICK c \in Nat : c = call[p]
    BY <2>1
  <2>3. /\ When(c, "probe", "S") = 12 * c + 3 /\ When(c, "probe", "R") = 12 * c + 6
        /\ When(c, "find", "S") = 12 * c + 7
    BY WhenIs
  <2>4. half[p][c]["S"].global = GlobalOf(Asked(c), p, "S")
    <3>1. Progress(p) > When(c, "probe", "S")
      BY <2>1, <2>2, <2>3
    <3>. QED  BY <2>1, <2>2, <3>1, HalfValue DEF Sides
  <2>5. commTag[p] = AnnTag(c, "S")
    <3>1. TagsTaken(p) = 6 * (c - 1) + 4
      BY <2>1, <2>2, <2>3 DEF TagsTaken
    <3>. QED  BY <3>1 DEF TagsAre, AnnTag
  <2>6. flight' = flight \cup Announced(p, "S", half[p][c]["S"].global, commTag[p])
    BY <1>1, <2>2 DEF FormGlobal
  <2>7. Announced(p, "S", half[p][c]["S"].global, commTag[p]) = Anns(c, "S", p)
    BY <2>2, <2>4, <2>5, AnnouncedIs
  <2>. QED  BY <2>2, <2>6, <2>7
<1>2. Side(p) = "S" => flight' = flight
  BY DEF FormGlobal
<1>. QED  BY <1>1, <1>2 DEF FormGlobal

LEMMA LearnedPosts ==
  ASSUME Typed, HalfIs, TagsAre, NEW p \in Proc, Learned(p)
  PROVE  /\ Side(p) = "S" => flight' = flight \cup Anns(call[p], "R", p)
         /\ Side(p) = "R" => flight' = flight
         /\ got' = [got EXCEPT ![p] = {}]
<1>1. ASSUME Side(p) = "S" PROVE flight' = flight \cup Anns(call[p], "R", p)
  <2>1. call[p] \in Calls /\ Progress(p) = When(call[p], "learn", "S") /\ call[p] \in Nat
    BY <1>1, LearnedGoes, ProgressIs
  <2>2. PICK c \in Nat : c = call[p] /\ c > 0
    BY <2>1 DEF Calls
  <2>3. /\ When(c, "probe", "R") = 12 * c + 6 /\ When(c, "find", "S") = 12 * c + 7
        /\ When(c, "learn", "S") = 12 * c + 8
    BY WhenIs
  <2>4. half[p][c]["R"].global = GlobalOf(Asked(c), p, "R")
    <3>1. Progress(p) > When(c, "probe", "R")
      BY <2>1, <2>2, <2>3
    <3>. QED  BY <2>1, <2>2, <3>1, HalfValue DEF Sides
  <2>5. tags[p]["R"] = AnnTag(c, "R")
    <3>1. Progress(p) >= When(c, "find", "S")
      BY <2>1, <2>2, <2>3
    <3>. QED  BY <2>2, <3>1 DEF TagsAre, Sides
  <2>6. flight' = flight \cup Announced(p, "R", half[p][c]["R"].global, tags[p]["R"])
    BY <1>1, <2>2 DEF Learned
  <2>7. Announced(p, "R", half[p][c]["R"].global, tags[p]["R"]) = Anns(c, "R", p)
    BY <2>2, <2>4, <2>5, AnnouncedIs
  <2>. QED  BY <2>2, <2>6, <2>7
<1>2. Side(p) = "R" => flight' = flight
  BY DEF Learned
<1>. QED  BY <1>1, <1>2 DEF Learned

LEMMA MapPosts ==
  ASSUME NEW p \in Proc, MapProcsToNodes(p)
  PROVE  flight' = flight \cup Hands(call[p], Side(p), p) /\ got' = got
BY DEF MapProcsToNodes, Hands, HandMsg

(* What a step does to the messages: those it posts, ... *)
Posted(p, m) ==
  \/ MapProcsToNodes(p) /\ m \in Hands(call[p], Side(p), p)
  \/ FormGlobal(p) /\ Side(p) = "R" /\ m \in Anns(call[p], "S", p)
  \/ Learned(p) /\ Side(p) = "S" /\ m \in Anns(call[p], "R", p)
Clears(p) == FormGlobal(p) \/ Learned(p)

LEMMA Traffic ==
  ASSUME Typed, HalfIs, TagsAre, InFlight, GotIs, EnoughTags, NEW p \in Proc, Step(p)
  PROVE  /\ \A m \in flight' : m \in flight \/ Posted(p, m)
         /\ \A m : Posted(p, m) => m \in flight'
         /\ DOMAIN got' = Proc
         /\ \A q \in Proc \ {p} : got'[q] = got[q]
         /\ Clears(p) => flight \subseteq flight' /\ got'[p] = {}
         /\ ~ Clears(p) => got[p] \subseteq got'[p] /\ flight \subseteq flight' \cup got'[p]
         /\ \A m \in got'[p] :
              m \in got[p] \/ (/\ UNCHANGED <<call, at>> /\ m \notin flight'
                               /\ m \in flight /\ m.dst = p /\ m.call = call[p] /\ m.side = Side(p)
                               /\ ((In(p, "probe") /\ IsHand(m)) \/ (In(p, "learn") /\ IsAnn(m))))
         /\ \A m \in flight \ flight' : m.dst = p /\ m \in got'[p]
<1>1. DOMAIN got = Proc
  BY DEF GotIs
<1>2. CASE MapProcsToNodes(p)
  <2>1. flight' = flight \cup Hands(call[p], Side(p), p) /\ got' = got
    BY <1>2, MapPosts
  <2>2. at[p][1] = "sizes"
    BY <1>2 DEF MapProcsToNodes, In
  <2>3. ~ Clears(p)
    BY <2>2 DEF Clears, FormGlobal, Learned, In
  <2>4. \A m : Posted(p, m) <=> m \in Hands(call[p], Side(p), p)
    BY <1>2, <2>3 DEF Posted, Clears
  <2>. QED  BY <1>1, <2>1, <2>3, <2>4
<1>3. CASE FormGlobal(p)
  <2>1. at[p][1] = "probe"
    BY <1>3 DEF FormGlobal, In
  <2>2. ~ MapProcsToNodes(p) /\ ~ Learned(p) /\ Clears(p)
    BY <1>3, <2>1 DEF MapProcsToNodes, Learned, In, Clears
  <2>3. \A m : Posted(p, m) <=> Side(p) = "R" /\ m \in Anns(call[p], "S", p)
    BY <1>3, <2>2 DEF Posted
  <2>4. got' = [got EXCEPT ![p] = {}]
    BY <1>3, FormGlobalPosts
  <2>5. CASE Side(p) = "S"
    <3>1. flight' = flight
      BY <1>3, <2>5, FormGlobalPosts
    <3>. QED  BY <1>1, <2>2, <2>3, <2>4, <2>5, <3>1
  <2>6. CASE Side(p) = "R"
    <3>1. flight' = flight \cup Anns(call[p], "S", p)
      BY <1>3, <2>6, FormGlobalPosts
    <3>. QED  BY <1>1, <2>2, <2>3, <2>4, <2>6, <3>1
  <2>. QED  BY <2>5, <2>6, ProgressIs DEF Sides
<1>4. CASE Learned(p)
  <2>1. at[p][1] = "learn"
    BY <1>4 DEF Learned, In
  <2>2. ~ MapProcsToNodes(p) /\ ~ FormGlobal(p) /\ Clears(p)
    BY <1>4, <2>1 DEF MapProcsToNodes, FormGlobal, In, Clears
  <2>3. \A m : Posted(p, m) <=> Side(p) = "S" /\ m \in Anns(call[p], "R", p)
    BY <1>4, <2>2 DEF Posted
  <2>4. got' = [got EXCEPT ![p] = {}]
    BY <1>4, LearnedPosts
  <2>5. CASE Side(p) = "R"
    <3>1. flight' = flight
      BY <1>4, <2>5, LearnedPosts
    <3>. QED  BY <1>1, <2>2, <2>3, <2>4, <2>5, <3>1
  <2>6. CASE Side(p) = "S"
    <3>1. flight' = flight \cup Anns(call[p], "R", p)
      BY <1>4, <2>6, LearnedPosts
    <3>. QED  BY <1>1, <2>2, <2>3, <2>4, <2>6, <3>1
  <2>. QED  BY <2>5, <2>6, ProgressIs DEF Sides
<1>5. ASSUME UNCHANGED <<call, at>>, NEW m \in flight, flight' = flight \ {m}, got' = [got EXCEPT ![p] = @ \cup {m}],
             m.dst = p, m.call = call[p], m.side = Side(p),
             (In(p, "probe") /\ IsHand(m)) \/ (In(p, "learn") /\ IsAnn(m)),
             ~ Clears(p), \A n : ~ Posted(p, n)
      PROVE  /\ \A n \in flight' : n \in flight \/ Posted(p, n)
             /\ \A n : Posted(p, n) => n \in flight'
             /\ DOMAIN got' = Proc
             /\ \A q \in Proc \ {p} : got'[q] = got[q]
             /\ ~ Clears(p) => got[p] \subseteq got'[p] /\ flight \subseteq flight' \cup got'[p]
             /\ \A n \in got'[p] :
                  n \in got[p] \/ (/\ UNCHANGED <<call, at>> /\ n \notin flight'
                                   /\ n \in flight /\ n.dst = p /\ n.call = call[p] /\ n.side = Side(p)
                                   /\ ((In(p, "probe") /\ IsHand(n)) \/ (In(p, "learn") /\ IsAnn(n))))
             /\ \A n \in flight \ flight' : n.dst = p /\ n \in got'[p]
  <2>1. got'[p] = got[p] \cup {m} /\ m \notin flight' /\ m \in got'[p]
    BY <1>1, <1>5
  <2>. QED  BY <1>1, <1>5, <2>1
<1>6. CASE FormProbe(p)
  <2>1. In(p, "probe") /\ at[p][1] = "probe" /\ UNCHANGED <<call, at>>
    BY <1>6 DEF FormProbe, In
  <2>2. PICK m \in Matching(p, "local", Fixed(Side(p))) : Receive(p, m)
    BY <1>6 DEF FormProbe
  <2>3. m \in flight /\ IsHand(m) /\ m.dst = p /\ m.call = call[p] /\ m.side = Side(p)
    BY <2>1, Taken
  <2>4. flight' = flight \ {m} /\ got' = [got EXCEPT ![p] = @ \cup {m}]
    BY <2>2 DEF Receive
  <2>5. ~ FormGlobal(p) /\ ~ Learned(p) /\ ~ MapProcsToNodes(p)
    <3>1. ~ FormGlobal(p)
      <4>1. FormGlobal(p) => at' # at
        BY <2>1, FormGlobalGoes
      <4>. QED  BY <2>1, <4>1
    <3>. QED  BY <2>1, <3>1 DEF Learned, MapProcsToNodes, In
  <2>6. ~ Clears(p) /\ \A n : ~ Posted(p, n)
    BY <2>5 DEF Clears, Posted
  <2>. QED  BY <1>5, <2>1, <2>3, <2>4, <2>6
<1>7. CASE LearnProbe(p)
  <2>1. In(p, "learn") /\ at[p][1] = "learn" /\ UNCHANGED <<call, at>>
    BY <1>7 DEF LearnProbe, In
  <2>2. PICK m \in Matching(p, "global", tags[p][Side(p)]) : Receive(p, m)
    BY <1>7 DEF LearnProbe
  <2>3. m \in flight /\ IsAnn(m) /\ m.dst = p /\ m.call = call[p] /\ m.side = Side(p)
    BY <2>1, Taken
  <2>4. flight' = flight \ {m} /\ got' = [got EXCEPT ![p] = @ \cup {m}]
    BY <2>2 DEF Receive
  <2>5. ~ FormGlobal(p) /\ ~ Learned(p) /\ ~ MapProcsToNodes(p)
    <3>1. ~ Learned(p)
      <4>1. Learned(p) => at' # at
        BY <2>1, LearnedGoes
      <4>. QED  BY <2>1, <4>1
    <3>. QED  BY <2>1, <3>1 DEF FormGlobal, MapProcsToNodes, In
  <2>6. ~ Clears(p) /\ \A n : ~ Posted(p, n)
    BY <2>5 DEF Clears, Posted
  <2>. QED  BY <1>5, <2>1, <2>3, <2>4, <2>6
<1>8. CASE InitLocality(p) \/ FormAllreduce(p) \/ FindAllreduce(p) \/ FinishPlan(p)
  <2>1. flight' = flight /\ got' = got
    BY <1>8 DEF InitLocality, FormAllreduce, FindAllreduce, FinishPlan
  <2>2. at[p][1] \notin {"sizes", "probe", "learn"}
    BY <1>8 DEF InitLocality, FormAllreduce, FindAllreduce, FinishPlan, In
  <2>3. ~ FormGlobal(p) /\ ~ Learned(p) /\ ~ MapProcsToNodes(p)
    BY <2>2 DEF FormGlobal, Learned, MapProcsToNodes, In
  <2>4. ~ Clears(p) /\ \A n : ~ Posted(p, n)
    BY <2>3 DEF Clears, Posted
  <2>. QED  BY <1>1, <2>1, <2>4
<1>. QED  BY <1>2, <1>3, <1>4, <1>6, <1>7, <1>8 DEF Step

(* A rank that leaves a loop of receives has taken all its messages. *)
LEMMA NothingLeft ==
  ASSUME Typed, HalfIs, Skew, InFlight, GotIs, NEW p \in Proc, NEW m \in flight, m.dst = p,
         m.call = call[p], m.side = Side(p)
  PROVE  ~ (FormGlobal(p) /\ IsHand(m)) /\ ~ (Learned(p) /\ IsAnn(m))
<1>1. m \notin got[p]
  BY DEF GotIs, GotMsg
<1>2. ASSUME FormGlobal(p), IsHand(m) PROVE FALSE
  <2>1. In(p, "probe") /\ ~ MoreHanded(p)
    BY <1>2 DEF FormGlobal
  <2>2. call[p] \in Calls /\ Side(p) \in Sides
    BY <2>1, ProbeNow
  <2>3. m \in HandedTo(call[p], Side(p), p)
    BY <1>2, <2>2, HandedToIs
  <2>. QED  BY <1>1, <2>1, <2>3, AllHanded
<1>3. ASSUME Learned(p), IsAnn(m) PROVE FALSE
  <2>1. In(p, "learn") /\ Cardinality(got[p]) = NumToRecv(p)
    BY <1>3 DEF Learned
  <2>2. call[p] \in Calls /\ Side(p) \in Sides
    BY <2>1, LearnNow
  <2>3. m \in AnnouncedTo(call[p], Side(p), p)
    BY <1>3, <2>2, AnnouncedToIs
  <2>. QED  BY <1>1, <2>1, <2>3, AllAnnounced
<1>. QED  BY <1>2, <1>3

LEMMA OldHand ==
  ASSUME Typed, HalfIs, Skew, InFlight, GotIs, NEW p \in Proc, Step(p),
         NEW m \in flight, HandInFlight(m)
  PROVE  HandInFlight(m)'
<1>1. IsHand(m) /\ m.src \in Proc /\ m.dst \in Proc /\ m.call \in Int /\ m.side \in Sides
  BY HandIs, CallsAre DEF HandInFlight
<1>2. IsHand(m)'
  BY <1>1, StepMoves, AskedKept
<1>3. \A q \in Proc : Progress(q) \in Nat /\ Progress(q)' \in Nat /\ Progress(q)' >= Progress(q)
  BY Grows
<1>4. PICK c \in Int, s \in Sides : c = m.call /\ s = m.side
  BY <1>1
<1>5. When(c, "form", s) \in Int /\ When(c, "sizes", s) \in Int /\ When(c, "probe", s) \in Int
  BY NextWhen
<1>6. ~ (Progress(m.dst)' > When(c, "probe", s))
  <2>1. SUFFICES ASSUME Progress(m.dst)' > When(c, "probe", s) PROVE FALSE
    OBVIOUS
  <2>2. Progress(m.dst) <= When(c, "probe", s)
    BY <1>4 DEF HandInFlight
  <2>3. m.dst = p /\ FormGlobal(p) /\ call[p] = c /\ Side(p) = s
    BY <1>1, <2>1, <2>2, Leaves
  <2>. QED  BY <1>1, <1>4, <2>3, NothingLeft
<1>7. /\ Progress(m.src)' >= When(c, "form", s) /\ Progress(m.dst)' >= When(c, "sizes", s)
      /\ Progress(m.dst)' <= When(c, "probe", s)
  BY <1>1, <1>3, <1>4, <1>5, <1>6 DEF HandInFlight
<1>. QED  BY <1>2, <1>4, <1>7 DEF HandInFlight

LEMMA OldAnn ==
  ASSUME Typed, HalfIs, Skew, InFlight, GotIs, NEW p \in Proc, Step(p),
         NEW m \in flight, AnnInFlight(m)
  PROVE  AnnInFlight(m)'
<1>1. IsAnn(m) /\ m.src \in Proc /\ m.dst \in Proc /\ m.call \in Int /\ m.side \in Sides
  BY AnnIs, CallsAre DEF AnnInFlight
<1>2. IsAnn(m)'
  BY <1>1, StepMoves, AskedKept
<1>3. \A q \in Proc : Progress(q) \in Nat /\ Progress(q)' \in Nat /\ Progress(q)' >= Progress(q)
  BY Grows
<1>4. PICK c \in Int, d \in Int, s \in Sides : c = m.call /\ d = c - 1 /\ s = m.side
  BY <1>1
<1>5. PICK low \in Int : low = IF s = "R" THEN When(c, "find", "S") ELSE When(d, "find", "R")
  BY NextWhen DEF Sides
<1>6. When(c, "find", s) \in Int /\ When(c, "learn", s) \in Int
  BY NextWhen
<1>7. ~ (Progress(m.dst)' > When(c, "learn", s))
  <2>1. SUFFICES ASSUME Progress(m.dst)' > When(c, "learn", s) PROVE FALSE
    OBVIOUS
  <2>2. Progress(m.dst) <= When(c, "learn", s)
    BY <1>4 DEF AnnInFlight
  <2>3. m.dst = p /\ Learned(p) /\ call[p] = c /\ Side(p) = s
    BY <1>1, <2>1, <2>2, Leaves
  <2>. QED  BY <1>1, <1>4, <2>3, NothingLeft
<1>8. Progress(m.dst) >= low /\ Progress(m.src) >= When(c, "find", s)
  BY <1>4, <1>5 DEF AnnInFlight
<1>9. /\ Progress(m.src)' >= When(c, "find", s) /\ Progress(m.dst)' >= low
      /\ Progress(m.dst)' <= When(c, "learn", s)
  BY <1>1, <1>3, <1>6, <1>7, <1>8
<1>. QED  BY <1>2, <1>4, <1>5, <1>9 DEF AnnInFlight

(* A rank that posts a message is at the step before its bounds. *)
LEMMA NewHand ==
  ASSUME Typed, Skew, NEW p \in Proc, Step(p), MapProcsToNodes(p),
         NEW m \in Hands(call[p], Side(p), p)
  PROVE  HandInFlight(m)' /\ m.dst \in Proc /\ Progress(m.dst) < When(call[p], "probe", Side(p))
<1>1. /\ call[p] \in Calls /\ Progress(p) = When(call[p], "sizes", Side(p)) /\ Moves(p)
      /\ Side(p) \in Sides
  BY MapGoes, ProgressIs
<1>2. PICK c \in Int, s \in Sides : c = call[p] /\ s = Side(p)
  BY <1>1, CallsAre
<1>3. IsHand(m) /\ m.call = c /\ m.side = s /\ m.src = p
  BY <1>1, <1>2, HandOf
<1>4. m.dst \in Proc /\ m.dst \in Mates(p) /\ p \in Mates(m.dst)
  BY <1>3, HandIs
<1>5. IsHand(m)'
  BY <1>3, StepMoves, AskedKept
<1>6. PICK a \in Int : /\ When(c, "sizes", s) = a /\ When(c, "form", s) = a + 1
                       /\ When(c, "probe", s) = a + 2
  BY NextWhen
<1>7. \A q \in Proc : Progress(q) \in Nat /\ Progress(q)' \in Nat /\ Progress(q)' >= Progress(q)
  BY Grows
<1>8. Progress(m.dst) >= a /\ Progress(p) = a
  BY <1>1, <1>2, <1>4, <1>6 DEF MapProcsToNodes, AllEntered
<1>9. ~ (Progress(m.dst) >= a + 2)
  <2>1. Progress(m.dst) >= When(c, "probe", s) => Progress(p) >= When(c, "form", s)
    BY <1>1, <1>2, <1>4 DEF Skew
  <2>. QED  BY <1>6, <1>8, <2>1
<1>10. /\ Progress(p)' = a + 1 /\ Progress(m.dst)' >= a /\ Progress(m.dst)' <= a + 2
  <2>1. m.dst # p => Progress(m.dst)' = Progress(m.dst)
    BY <1>1, <1>4 DEF Moves
  <2>2. Progress(p)' = Progress(p) + 1
    BY <1>1 DEF Moves
  <2>. QED  BY <1>4, <1>7, <1>8, <1>9, <2>1, <2>2
<1>11. HandInFlight(m)'
  BY <1>3, <1>5, <1>6, <1>10 DEF HandInFlight
<1>. QED  BY <1>2, <1>4, <1>6, <1>7, <1>9, <1>11

LEMMA NewAnnS ==
  ASSUME Typed, Skew, NEW p \in Proc, Step(p), FormGlobal(p), Side(p) = "R",
         NEW m \in Anns(call[p], "S", p)
  PROVE  AnnInFlight(m)' /\ m.dst \in Proc /\ Progress(m.dst) < When(call[p], "learn", "S")
<1>1. /\ call[p] \in Calls /\ Progress(p) = When(call[p], "probe", "R") /\ Moves(p)
      /\ "S" \in Sides /\ "R" \in Sides
  BY FormGlobalGoes DEF Sides
<1>2. PICK c \in Nat, d \in Int : c = call[p] /\ d = c - 1 /\ c >= 1
  BY <1>1, CallsAre DEF Calls
<1>3. IsAnn(m) /\ m.call = c /\ m.side = "S" /\ m.src = p /\ m.dst \in Proc
  BY <1>1, <1>2, AnnOf
<1>4. IsAnn(m)'
  BY <1>3, StepMoves, AskedKept
<1>5. /\ When(c, "probe", "R") = 12 * c + 6 /\ When(c, "find", "S") = 12 * c + 7
      /\ When(c, "learn", "S") = 12 * c + 8
  BY WhenIs
<1>6. When(d, "find", "R") = 12 * d + 9 /\ When(d, "learn", "R") = 12 * d + 10
  BY WhenIs
<1>7. \A q \in Proc : Progress(q) \in Nat /\ Progress(q)' \in Nat /\ Progress(q)' >= Progress(q)
  BY Grows
<1>8. Progress(m.dst) >= When(d, "find", "R")
  <2>1. CASE d = 0
    BY <1>3, <1>6, <2>1, ProgressIs
  <2>2. CASE d # 0
    <3>1. d \in Calls
      BY <1>1, <1>2, <2>2, CallsAre DEF Calls
    <3>2. Progress(p) >= When(d, "learn", "R")
      BY <1>1, <1>2, <1>5, <1>6
    <3>. QED  BY <1>1, <1>3, <3>1, <3>2 DEF Skew
  <2>. QED  BY <2>1, <2>2
<1>9. ~ (Progress(m.dst) >= When(c, "learn", "S"))
  <2>1. Progress(m.dst) >= When(c, "learn", "S") => Progress(p) >= When(c, "find", "S")
    BY <1>1, <1>2, <1>3 DEF Skew
  <2>. QED  BY <1>1, <1>2, <1>5, <2>1
<1>10. /\ Progress(p)' = 12 * c + 7 /\ Progress(m.dst)' <= 12 * c + 8
       /\ Progress(m.dst)' >= When(d, "find", "R")
  <2>1. m.dst # p => Progress(m.dst)' = Progress(m.dst)
    BY <1>1, <1>3 DEF Moves
  <2>2. Progress(p)' = Progress(p) + 1
    BY <1>1 DEF Moves
  <2>. QED  BY <1>1, <1>2, <1>3, <1>5, <1>6, <1>7, <1>8, <1>9, <2>1, <2>2
<1>11. AnnInFlight(m)'
  BY <1>2, <1>3, <1>4, <1>5, <1>10 DEF AnnInFlight
<1>. QED  BY <1>2, <1>3, <1>5, <1>7, <1>9, <1>11

LEMMA NewAnnR ==
  ASSUME Typed, Skew, NEW p \in Proc, Step(p), Learned(p), Side(p) = "S",
         NEW m \in Anns(call[p], "R", p)
  PROVE  AnnInFlight(m)' /\ m.dst \in Proc /\ Progress(m.dst) < When(call[p], "learn", "R")
<1>1. /\ call[p] \in Calls /\ Progress(p) = When(call[p], "learn", "S") /\ Moves(p)
      /\ "S" \in Sides /\ "R" \in Sides
  BY LearnedGoes DEF Sides
<1>2. PICK c \in Nat : c = call[p]
  BY <1>1, CallsAre
<1>3. IsAnn(m) /\ m.call = c /\ m.side = "R" /\ m.src = p /\ m.dst \in Proc
  BY <1>1, <1>2, AnnOf
<1>4. IsAnn(m)'
  BY <1>3, StepMoves, AskedKept
<1>5. /\ When(c, "find", "S") = 12 * c + 7 /\ When(c, "learn", "S") = 12 * c + 8
      /\ When(c, "find", "R") = 12 * c + 9 /\ When(c, "learn", "R") = 12 * c + 10
  BY WhenIs
<1>6. \A q \in Proc : Progress(q) \in Nat /\ Progress(q)' \in Nat /\ Progress(q)' >= Progress(q)
  BY Grows
<1>7. Progress(m.dst) >= When(c, "find", "S")
  <2>1. Progress(p) >= When(c, "learn", "S")
    BY <1>1, <1>2, <1>5
  <2>. QED  BY <1>1, <1>2, <1>3, <2>1 DEF Skew
<1>8. ~ (Progress(m.dst) >= When(c, "learn", "R"))
  <2>1. Progress(m.dst) >= When(c, "learn", "R") => Progress(p) >= When(c, "find", "R")
    BY <1>1, <1>2, <1>3 DEF Skew
  <2>. QED  BY <1>1, <1>2, <1>5, <2>1
<1>9. /\ Progress(p)' = 12 * c + 9 /\ Progress(m.dst)' <= 12 * c + 10
      /\ Progress(m.dst)' >= 12 * c + 7
  <2>1. m.dst # p => Progress(m.dst)' = Progress(m.dst)
    BY <1>1, <1>3 DEF Moves
  <2>2. Progress(p)' = Progress(p) + 1
    BY <1>1 DEF Moves
  <2>. QED  BY <1>1, <1>2, <1>3, <1>5, <1>6, <1>7, <1>8, <2>1, <2>2
<1>10. AnnInFlight(m)'
  BY <1>3, <1>4, <1>5, <1>9 DEF AnnInFlight
<1>. QED  BY <1>2, <1>3, <1>5, <1>6, <1>8, <1>10

LEMMA InFlightKept ==
  ASSUME Typed, HalfIs, TagsAre, Skew, InFlight, GotIs, EnoughTags, NEW p \in Proc, Step(p)
  PROVE  InFlight'
<1>1. \A m \in flight' : m \in flight \/ Posted(p, m)
  BY Traffic
<1>2. \A m \in flight : HandInFlight(m)' \/ AnnInFlight(m)'
  BY OldHand, OldAnn DEF InFlight
<1>3. \A m : Posted(p, m) => HandInFlight(m)' \/ AnnInFlight(m)'
  BY NewHand, NewAnnS, NewAnnR DEF Posted
<1>. QED  BY <1>1, <1>2, <1>3 DEF InFlight

LEMMA GotNow ==
  ASSUME Typed, GotIs, NEW q \in Proc, NEW m \in got[q]
  PROVE  /\ m.dst = q /\ m.call = call[q] /\ m.side = Side(q) /\ m \notin flight
         /\ call[q] \in Calls /\ Side(q) \in Sides
         /\ \/ In(q, "probe") /\ IsHand(m) /\ m.comm = "local"
               /\ Progress(q) = When(m.call, "probe", m.side)
            \/ In(q, "learn") /\ IsAnn(m) /\ m.comm = "global"
               /\ Progress(q) = When(m.call, "learn", m.side)
<1>1. /\ m.dst = q /\ m.call = call[q] /\ m.side = Side(q) /\ m \notin flight
      /\ ((In(q, "probe") /\ IsHand(m)) \/ (In(q, "learn") /\ IsAnn(m)))
  BY DEF GotIs, GotMsg
<1>2. In(q, "probe") \/ In(q, "learn") => call[q] \in Calls /\ Side(q) \in Sides
  BY ProgressIs DEF In
<1>3. /\ In(q, "probe") => Progress(q) = When(call[q], "probe", Side(q))
      /\ In(q, "learn") => Progress(q) = When(call[q], "learn", Side(q))
  BY ProgressIs DEF In
<1>4. (IsHand(m) => m.comm = "local") /\ (IsAnn(m) => m.comm = "global")
  BY DEF IsHand, IsAnn
<1>. QED  BY <1>1, <1>2, <1>3, <1>4

(* No message is posted again once it has been received. *)
LEMMA NotPosted ==
  ASSUME Typed, Skew, GotIs, NEW p \in Proc, Step(p), NEW q \in Proc, NEW m \in got[q]
  PROVE  ~ Posted(p, m)
<1>1. /\ m.dst = q
      /\ m.comm = "local" => Progress(q) = When(m.call, "probe", m.side)
      /\ m.comm = "global" => Progress(q) = When(m.call, "learn", m.side)
      /\ Progress(q) \in Nat
  BY GotNow, ProgressIs
<1>2. ASSUME MapProcsToNodes(p), m \in Hands(call[p], Side(p), p) PROVE FALSE
  <2>1. call[p] \in Calls /\ Side(p) \in Sides
    BY <1>2, MapGoes, ProgressIs
  <2>2. m.comm = "local" /\ m.call = call[p] /\ m.side = Side(p)
    BY <1>2, <2>1, HandOf
  <2>3. Progress(q) < When(call[p], "probe", Side(p))
    BY <1>1, <1>2, NewHand
  <2>. QED  BY <1>1, <2>2, <2>3
<1>3. ASSUME FormGlobal(p), Side(p) = "R", m \in Anns(call[p], "S", p) PROVE FALSE
  <2>1. call[p] \in Calls /\ "S" \in Sides
    BY <1>3, FormGlobalGoes DEF Sides
  <2>2. m.comm = "global" /\ m.call = call[p] /\ m.side = "S"
    BY <1>3, <2>1, AnnOf
  <2>3. Progress(q) < When(call[p], "learn", "S")
    BY <1>1, <1>3, NewAnnS
  <2>. QED  BY <1>1, <2>2, <2>3
<1>4. ASSUME Learned(p), Side(p) = "S", m \in Anns(call[p], "R", p) PROVE FALSE
  <2>1. call[p] \in Calls /\ "R" \in Sides
    BY <1>4, LearnedGoes DEF Sides
  <2>2. m.comm = "global" /\ m.call = call[p] /\ m.side = "R"
    BY <1>4, <2>1, AnnOf
  <2>3. Progress(q) < When(call[p], "learn", "R")
    BY <1>1, <1>4, NewAnnR
  <2>. QED  BY <1>1, <2>2, <2>3
<1>. QED  BY <1>2, <1>3, <1>4 DEF Posted

LEMMA GotKept ==
  ASSUME Typed, HalfIs, TagsAre, Skew, InFlight, GotIs, EnoughTags, NEW p \in Proc, Step(p)
  PROVE  GotIs'
<1>1. DOMAIN got' = Proc
  BY Traffic
<1>2. \A m : IsHand(m)' = IsHand(m) /\ IsAnn(m)' = IsAnn(m)
  BY StepMoves, AskedKept
<1>3. ASSUME NEW q \in Proc, NEW m \in got[q] PROVE m \notin flight'
  <2>1. m \notin flight
    BY GotNow
  <2>2. ~ Posted(p, m)
    BY NotPosted
  <2>. QED  BY <2>1, <2>2, Traffic
<1>4. ASSUME NEW q \in Proc, NEW m \in got[q], call'[q] = call[q], at'[q] = at[q]
      PROVE  GotMsg(q, m)'
  <2>1. m.dst = q /\ m.call = call[q] /\ m.side = Side(q) /\ m \notin flight'
        /\ ((In(q, "probe") /\ IsHand(m)) \/ (In(q, "learn") /\ IsAnn(m)))
    BY <1>3, GotNow
  <2>2. Side(q)' = Side(q) /\ In(q, "probe")' = In(q, "probe") /\ In(q, "learn")' = In(q, "learn")
    BY <1>4 DEF Side, In
  <2>. QED  BY <1>2, <1>4, <2>1, <2>2 DEF GotMsg
<1>5. ASSUME NEW q \in Proc \ {p}, NEW m \in got'[q] PROVE GotMsg(q, m)'
  <2>1. m \in got[q]
    BY Traffic
  <2>2. call'[q] = call[q] /\ at'[q] = at[q]
    BY StepMoves DEF Stays, Moves
  <2>. QED  BY <1>4, <2>1, <2>2
<1>6. ASSUME NEW m \in got'[p] PROVE GotMsg(p, m)'
  <2>1. ~ Clears(p)
    BY Traffic
  <2>2. CASE m \in got[p]
    <3>1. In(p, "probe") \/ In(p, "learn")
      BY <2>2, GotNow
    <3>2. FormProbe(p) \/ LearnProbe(p)
      BY <2>1, <3>1, StepIs DEF Clears
    <3>3. UNCHANGED <<call, at>>
      BY <3>2 DEF FormProbe, LearnProbe
    <3>. QED  BY <1>4, <2>2, <3>3
  <2>3. CASE m \notin got[p]
    <3>1. /\ UNCHANGED <<call, at>> /\ m \notin flight'
          /\ m.dst = p /\ m.call = call[p] /\ m.side = Side(p)
          /\ ((In(p, "probe") /\ IsHand(m)) \/ (In(p, "learn") /\ IsAnn(m)))
      BY <2>3, Traffic
    <3>2. Side(p)' = Side(p) /\ In(p, "probe")' = In(p, "probe") /\ In(p, "learn")' = In(p, "learn")
      BY <3>1 DEF Side, In
    <3>. QED  BY <1>2, <3>1, <3>2 DEF GotMsg
  <2>. QED  BY <2>2, <2>3
<1>. QED  BY <1>1, <1>5, <1>6 DEF GotIs

(* A message stays under way until its receiver takes it, and is then kept *)
(* until the loop ends. *)
LEMMA Carried ==
  ASSUME Typed, HalfIs, TagsAre, Skew, InFlight, GotIs, EnoughTags, NEW p \in Proc, Step(p),
         NEW m, m.dst \in Proc, m \in flight \cup got[m.dst],
         ~ (m \in got[p] /\ m.dst = p /\ Clears(p))
  PROVE  m \in flight' \cup got'[m.dst]
<1>1. CASE m \in flight
  <2>1. m \notin flight' => m.dst = p /\ m \in got'[p]
    BY <1>1, Traffic
  <2>. QED  BY <2>1
<1>2. CASE m \in got[m.dst] /\ m.dst # p
  BY <1>2, Traffic
<1>3. CASE m \in got[m.dst] /\ m.dst = p
  <2>1. ~ Clears(p)
    BY <1>3
  <2>. QED  BY <1>3, <2>1, Traffic
<1>. QED  BY <1>1, <1>2, <1>3

LEMMA NoneLostKept ==
  ASSUME Typed, HalfIs, TagsAre, Skew, InFlight, GotIs, NoneLost, EnoughTags, NEW p \in Proc, Step(p)
  PROVE  NoneLost'
<1>1. /\ Calls' = Calls /\ Calls \subseteq Nat
      /\ \A c, s, q : Hands(c, s, q)' = Hands(c, s, q) /\ Anns(c, s, q)' = Anns(c, s, q)
  BY StepMoves, AskedKept, CallsAre
<1>2. \A q \in Proc : Progress(q) \in Nat /\ Progress(q)' \in Nat /\ Progress(q)' >= Progress(q)
  BY Grows
<1>3. ASSUME NEW c \in Calls, NEW s \in Sides, NEW r \in Proc, NEW m \in Hands(c, s, r),
             Progress(r)' >= When(c, "form", s), Progress(m.dst)' <= When(c, "probe", s)
      PROVE  m \in flight' \cup got'[m.dst]
  <2>1. IsHand(m) /\ m.call = c /\ m.side = s /\ m.comm = "local" /\ c \in Int
    BY <1>1, HandOf
  <2>2. m.dst \in Proc
    BY <2>1, HandIs
  <2>3. When(c, "form", s) \in Int /\ When(c, "probe", s) \in Int
    BY <2>1, NextWhen
  <2>4. CASE Progress(r) >= When(c, "form", s)
    <3>1. Progress(m.dst) <= When(c, "probe", s)
      BY <1>2, <1>3, <2>2, <2>3
    <3>2. m \in flight \cup got[m.dst]
      BY <2>4, <3>1 DEF NoneLost
    <3>3. ~ (m \in got[p] /\ m.dst = p /\ Clears(p))
      <4>1. SUFFICES ASSUME m \in got[p], m.dst = p, Clears(p) PROVE FALSE
        OBVIOUS
      <4>2. In(p, "probe") /\ Progress(p) = When(c, "probe", s)
        BY <2>1, <4>1, GotNow
      <4>3. FormGlobal(p)
        BY <4>1, <4>2 DEF Clears, Learned, In
      <4>4. Progress(p)' = Progress(p) + 1
        BY <4>3, FormGlobalGoes DEF Moves
      <4>. QED  BY <1>2, <1>3, <2>3, <4>1, <4>2, <4>4
    <3>. QED  BY <2>2, <3>2, <3>3, Carried
  <2>5. CASE ~ (Progress(r) >= When(c, "form", s))
    <3>1. r = p /\ MapProcsToNodes(p) /\ call[p] = c /\ Side(p) = s
      BY <1>3, <2>1, <2>5, Reaches
    <3>2. Posted(p, m)
      BY <3>1 DEF Posted
    <3>. QED  BY <3>2, Traffic
  <2>. QED  BY <2>4, <2>5
<1>4. ASSUME NEW c \in Calls, NEW s \in Sides, NEW r \in Proc, NEW m \in Anns(c, s, r),
             Progress(r)' >= When(c, "find", s), Progress(m.dst)' <= When(c, "learn", s)
      PROVE  m \in flight' \cup got'[m.dst]
  <2>1. IsAnn(m) /\ m.call = c /\ m.side = s /\ m.comm = "global" /\ m.dst \in Proc /\ c \in Int
    BY <1>1, AnnOf
  <2>3. When(c, "find", s) \in Int /\ When(c, "learn", s) \in Int
    BY <2>1, NextWhen
  <2>4. CASE Progress(r) >= When(c, "find", s)
    <3>1. Progress(m.dst) <= When(c, "learn", s)
      BY <1>2, <1>4, <2>1, <2>3
    <3>2. m \in flight \cup got[m.dst]
      BY <2>4, <3>1 DEF NoneLost
    <3>3. ~ (m \in got[p] /\ m.dst = p /\ Clears(p))
      <4>1. SUFFICES ASSUME m \in got[p], m.dst = p, Clears(p) PROVE FALSE
        OBVIOUS
      <4>2. In(p, "learn") /\ Progress(p) = When(c, "learn", s)
        BY <2>1, <4>1, GotNow
      <4>3. Learned(p)
        BY <4>1, <4>2 DEF Clears, FormGlobal, In
      <4>4. Progress(p)' = Progress(p) + 1
        BY <4>3, LearnedGoes DEF Moves
      <4>. QED  BY <1>2, <1>4, <2>3, <4>1, <4>2, <4>4
    <3>. QED  BY <2>1, <3>2, <3>3, Carried
  <2>5. CASE ~ (Progress(r) >= When(c, "find", s))
    <3>0. /\ When(c, "probe", "R") = 12 * c + 6 /\ When(c, "find", "S") = 12 * c + 7
          /\ When(c, "learn", "S") = 12 * c + 8 /\ When(c, "find", "R") = 12 * c + 9
      BY <2>1, WhenIs
    <3>1. CASE s = "S"
      <4>1. Progress(r)' > When(c, "probe", "R") /\ Progress(r) <= When(c, "probe", "R")
        BY <1>2, <1>4, <2>1, <2>5, <3>0, <3>1
      <4>2. r = p /\ FormGlobal(p) /\ call[p] = c /\ Side(p) = "R"
        BY <2>1, <4>1, Leaves DEF Sides
      <4>. QED  BY <3>1, <4>2, Traffic DEF Posted
    <3>2. CASE s = "R"
      <4>1. Progress(r)' > When(c, "learn", "S") /\ Progress(r) <= When(c, "learn", "S")
        BY <1>2, <1>4, <2>1, <2>5, <3>0, <3>2
      <4>2. r = p /\ Learned(p) /\ call[p] = c /\ Side(p) = "S"
        BY <2>1, <4>1, Leaves DEF Sides
      <4>. QED  BY <3>2, <4>2, Traffic DEF Posted
    <3>. QED  BY <3>1, <3>2 DEF Sides
  <2>. QED  BY <2>4, <2>5
<1>. QED  BY <1>1, <1>3, <1>4 DEF NoneLost

(* What a rank is told, and its plans. *)
LEMMA LearnedTyped ==
  ASSUME Typed, TagsAre, InFlight, EnoughTags, NEW p \in Proc, Step(p),
         learned \in [Proc -> [Sides -> [Nodes -> Proc]]]
  PROVE  learned' \in [Proc -> [Sides -> [Nodes -> Proc]]]
<1>1. CASE LearnProbe(p)
  <2>1. In(p, "learn")
    BY <1>1 DEF LearnProbe
  <2>2. PICK m \in Matching(p, "global", tags[p][Side(p)]) :
           learned' = [learned EXCEPT ![p][Side(p)][m.node] = m.src]
    BY <1>1 DEF LearnProbe
  <2>3. IsAnn(m)
    BY <2>1, <2>2, Taken
  <2>4. m.src \in Proc /\ m.node \in Nodes /\ Side(p) \in Sides
    BY <2>3, AnnIs, Placed, ProgressIs
  <2>. QED  BY <2>2, <2>4
<1>2. CASE FormGlobal(p)
  <2>1. 0 \in Proc
    BY PlanAssumption DEF Proc
  <2>2. PICK z : z = [t \in Sides |-> [n \in Nodes |-> 0]]
    OBVIOUS
  <2>3. z \in [Sides -> [Nodes -> Proc]]
    BY <2>1, <2>2
  <2>4. learned' = learned \/ learned' = [learned EXCEPT ![p] = z]
    BY <1>2, <2>2 DEF FormGlobal
  <2>. QED  BY <2>3, <2>4
<1>3. CASE ~ LearnProbe(p) /\ ~ FormGlobal(p)
  BY <1>3 DEF Step, InitLocality, MapProcsToNodes, FormAllreduce, FormProbe, FindAllreduce,
              Learned, FinishPlan
<1>. QED  BY <1>1, <1>2, <1>3

LEMMA RecordedKept ==
  ASSUME Typed, TagsAre, InFlight, Recorded, EnoughTags, NEW p \in Proc, Step(p)
  PROVE  Recorded'
<1>1. learned' \in [Proc -> [Sides -> [Nodes -> Proc]]]
  BY LearnedTyped DEF Recorded
<1>2. DOMAIN plan = Proc /\ \A q \in Proc : \E S : plan[q] \in Seq(S)
  BY DEF Recorded
<1>3. \A q \in Proc : Len(plan[q]) = IF In(q, "idle") THEN call[q] ELSE call[q] - 1
  BY DEF Recorded
<1>4. \A q \in Proc : call[q] \in Nat
  BY ProgressIs
<1>5. \A q \in Proc \ {p} : call'[q] = call[q] /\ at'[q] = at[q]
  BY StepMoves DEF Stays, Moves
<1>6. CASE FinishPlan(p)
  <2>1. PICK u : plan' = [plan EXCEPT ![p] = Append(plan[p], u)]
    BY <1>6 DEF FinishPlan
  <2>2. In(p, "nodes") /\ ~ In(p, "idle") /\ at'[p] = <<"idle", "R">> /\ call' = call
    BY <1>6, FinishGoes DEF FinishPlan, In
  <2>3. PICK S : plan[p] \in Seq(S)
    BY <1>2
  <2>4. plan[p] \in Seq(S \cup {u})
    BY <2>3
  <2>5. Append(plan[p], u) \in Seq(S \cup {u}) /\ Len(Append(plan[p], u)) = Len(plan[p]) + 1
    BY <2>4
  <2>6. Len(plan'[p]) = call'[p] /\ In(p, "idle")'
    BY <1>2, <1>3, <1>4, <2>1, <2>2, <2>5 DEF In
  <2>7. \A q \in Proc \ {p} : plan'[q] = plan[q] /\ In(q, "idle")' = In(q, "idle")
    BY <1>2, <1>5, <2>1 DEF In
  <2>8. DOMAIN plan' = Proc /\ plan'[p] \in Seq(S \cup {u})
    BY <1>2, <2>1, <2>5
  <2>9. \A q \in Proc : \E T : plan'[q] \in Seq(T)
    BY <1>2, <2>7, <2>8
  <2>10. \A q \in Proc : Len(plan'[q]) = IF In(q, "idle")' THEN call'[q] ELSE call'[q] - 1
    BY <1>3, <1>5, <2>6, <2>7
  <2>. QED  BY <1>1, <2>8, <2>9, <2>10 DEF Recorded
<1>7. CASE ~ FinishPlan(p)
  <2>1. plan' = plan
    BY <1>7 DEF Step, InitLocality, MapProcsToNodes, FormAllreduce, FormProbe, FormGlobal, FindAllreduce,
                LearnProbe, Learned
  <2>2. (IF In(p, "idle")' THEN call'[p] ELSE call'[p] - 1) = (IF In(p, "idle") THEN call[p] ELSE call[p] - 1)
    <3>1. CASE InitLocality(p)
      <4>1. In(p, "idle") /\ at'[p] = <<"sizes", "S">> /\ call'[p] = call[p] + 1
        BY <3>1, InitLocalityGoes DEF InitLocality
      <4>. QED  BY <1>4, <4>1 DEF In
    <3>2. CASE ~ InitLocality(p)
      <4>1. ~ In(p, "idle")
        BY <3>2, StepIs
      <4>2. call' = call /\ ~ In(p, "idle")'
        BY <1>7, <3>2, <4>1, MapGoes, FormAllreduceGoes, FormGlobalGoes, FindAllreduceGoes, LearnedGoes
           DEF Step, FormProbe, LearnProbe, In
      <4>. QED  BY <4>1, <4>2
    <3>. QED  BY <3>1, <3>2
  <2>3. \A q \in Proc : Len(plan[q]) = IF In(q, "idle")' THEN call'[q] ELSE call'[q] - 1
    BY <1>3, <1>5, <2>2 DEF In
  <2>. QED  BY <1>1, <1>2, <2>1, <2>3 DEF Recorded
<1>. QED  BY <1>6, <1>7
-----------------------------------------------------------------------------
(* The initial states. *)
LEMMA InitIInv ==
  ASSUME Init
  PROVE  IInv
<1>1. PICK i \in DOMAIN Inputs : i = input
  BY DEF Init
<1>2. NumCalls \in Nat /\ Calls = DOMAIN Inputs[input] /\ MaxTag \in Nat \ {0}
  BY <1>1, PlanAssumption DEF NumCalls, Calls
<1>3. Typed
  <2>1. <<"idle", "R">> \in Range(Order)
    BY InOrder
  <2>. QED  BY <1>2, <2>1 DEF Init, Typed
<1>4. \A p \in Proc : Progress(p) = 12 /\ call[p] = 0 /\ at[p] = <<"idle", "R">> /\ got[p] = {}
  <2>1. ASSUME NEW p \in Proc PROVE Progress(p) = 12
    <3>1. Progress(p) = 12 * call[p] + Pos(at[p]) /\ call[p] = 0 /\ at[p] = <<"idle", "R">>
      BY <1>3, ProgressIs DEF Init
    <3>. QED  BY <3>1, PosIs
  <2>. QED  BY <2>1 DEF Init
<1>5. \A c \in Calls, s \in Sides :
        /\ 12 < When(c, "sizes", s) /\ 12 < When(c, "form", s) /\ 12 < When(c, "probe", s)
        /\ 12 < When(c, "find", s) /\ 12 < When(c, "learn", s)
  <2>1. ASSUME NEW c \in Calls, NEW s \in Sides
        PROVE  /\ 12 < When(c, "sizes", s) /\ 12 < When(c, "form", s) /\ 12 < When(c, "probe", s)
               /\ 12 < When(c, "find", s) /\ 12 < When(c, "learn", s)
    <3>1. c \in Int /\ c >= 1
      BY DEF Calls
    <3>2. /\ When(c, "form", s) = When(c, "sizes", s) + 1 /\ When(c, "probe", s) = When(c, "sizes", s) + 2
          /\ When(c, "learn", s) = When(c, "find", s) + 1
      BY <3>1, NextWhen
    <3>3. /\ When(c, "sizes", s) = 12 * c + (IF s = "S" THEN 1 ELSE 4)
          /\ When(c, "find", s) = 12 * c + (IF s = "S" THEN 7 ELSE 9)
      BY <3>1, SideCases
    <3>. QED  BY <3>1, <3>2, <3>3
  <2>. QED  BY <2>1
<1>6. \A c \in Calls, s \in Sides :
        /\ When(c, "sizes", s) \in Int /\ When(c, "form", s) \in Int /\ When(c, "probe", s) \in Int
        /\ When(c, "find", s) \in Int /\ When(c, "learn", s) \in Int
  <2>1. ASSUME NEW c \in Calls, NEW s \in Sides
        PROVE  /\ When(c, "sizes", s) \in Int /\ When(c, "form", s) \in Int /\ When(c, "probe", s) \in Int
               /\ When(c, "find", s) \in Int /\ When(c, "learn", s) \in Int
    <3>1. c \in Int
      BY DEF Calls
    <3>. QED  BY <3>1, NextWhen
  <2>. QED  BY <2>1
<1>7. HalfIs
  <2>1. ASSUME NEW p \in Proc, NEW c \in Calls, NEW s \in Sides PROVE HalfOf(p, c, s) = NoHalf
    <3>1. ~ (Progress(p) >= When(c, "form", s)) /\ ~ (Progress(p) > When(c, "probe", s))
      BY <1>4, <1>5, <1>6
    <3>. QED  BY <3>1 DEF HalfOf, NoHalf
  <2>2. half = [p \in Proc |-> [c \in Calls |-> [s \in Sides |-> NoHalf]]]
    BY <1>2 DEF Init
  <2>. QED  BY <2>1, <2>2 DEF HalfIs
<1>8. TagsAre
  <2>1. 12 >= When(0, "find", "S")
    <3>1. 0 \in Int
      OBVIOUS
    <3>2. When(0, "find", "S") = 12 * 0 + 7
      BY <3>1, WhenIs
    <3>. QED  BY <3>2
  <2>2. \A p \in Proc : TagsTaken(p) = 0
    BY <1>4, <2>1 DEF TagsTaken
  <2>3. Tag(0) = 126 % MaxTag
    BY DEF Tag
  <2>4. 0 \in 0 .. MaxTag - 1
    BY <1>2
  <2>. QED  BY <1>4, <2>2, <2>3, <2>4 DEF Init, TagsAre
<1>9. Skew
  <2>1. \A p \in Proc, c \in Calls, s \in Sides :
          /\ ~ (Progress(p) >= When(c, "form", s)) /\ ~ (Progress(p) >= When(c, "probe", s))
          /\ ~ (Progress(p) >= When(c, "learn", s))
    BY <1>4, <1>5, <1>6
  <2>. QED  BY <2>1 DEF Skew
<1>10. InFlight /\ GotIs
  BY <1>4 DEF Init, InFlight, GotIs
<1>11. NoneLost
  <2>1. \A p \in Proc, c \in Calls, s \in Sides :
          ~ (Progress(p) >= When(c, "form", s)) /\ ~ (Progress(p) >= When(c, "find", s))
    BY <1>4, <1>5, <1>6
  <2>. QED  BY <2>1 DEF NoneLost
<1>12. Recorded
  <2>1. 0 \in Proc
    BY PlanAssumption DEF Proc
  <2>2. learned \in [Proc -> [Sides -> [Nodes -> Proc]]]
    BY <2>1 DEF Init
  <2>3. DOMAIN plan = Proc /\ \A p \in Proc : plan[p] = << >> /\ plan[p] \in Seq({}) /\ Len(plan[p]) = 0
    BY DEF Init
  <2>4. \A p \in Proc : In(p, "idle")
    BY <1>4 DEF In
  <2>. QED  BY <1>4, <2>2, <2>3, <2>4 DEF Recorded
<1>. QED  BY <1>3, <1>7, <1>8, <1>9, <1>10, <1>11, <1>12 DEF IInv

LEMMA IInvSame ==
  ASSUME IInv, UNCHANGED vars
  PROVE  IInv'
<1>1. UNCHANGED <<input, eager, call, at, commTag, tags, flight, got, half, learned, plan>>
  BY DEF vars
<1>2. Calls' = Calls /\ NumCalls' = NumCalls
  BY <1>1 DEF Calls, NumCalls
<1>3. \A p : Progress(p)' = Progress(p)
  BY <1>1 DEF Progress
<1>4. /\ \A c : Asked(c)' = Asked(c)
      /\ \A c, s, p : Hands(c, s, p)' = Hands(c, s, p) /\ Anns(c, s, p)' = Anns(c, s, p)
      /\ \A m : IsHand(m)' = IsHand(m) /\ IsAnn(m)' = IsAnn(m)
  BY <1>1, AskedKept
<1>5. Typed'
  BY <1>1, <1>2 DEF IInv, Typed
<1>6. HalfIs'
  <2>1. \A p, c, s : HalfOf(p, c, s)' = HalfOf(p, c, s)
    BY <1>1, <1>3, AskedKept DEF HalfOf
  <2>. QED  BY <1>1, <1>2, <2>1 DEF IInv, HalfIs
<1>7. TagsAre'
  <2>1. \A p : TagsTaken(p)' = TagsTaken(p)
    BY <1>1, <1>3 DEF TagsTaken
  <2>. QED  BY <1>1, <1>3, <2>1 DEF IInv, TagsAre
<1>8. Skew'
  BY <1>2, <1>3 DEF IInv, Skew
<1>9. InFlight'
  <2>1. \A m \in flight : HandInFlight(m) = HandInFlight(m)' /\ AnnInFlight(m) = AnnInFlight(m)'
    BY <1>3, <1>4 DEF HandInFlight, AnnInFlight
  <2>. QED  BY <1>1, <2>1 DEF IInv, InFlight
<1>10. GotIs'
  <2>1. \A p, m : GotMsg(p, m) = GotMsg(p, m)'
    BY <1>1, <1>4 DEF GotMsg, Side, In
  <2>. QED  BY <1>1, <2>1 DEF IInv, GotIs
<1>11. NoneLost'
  BY <1>1, <1>2, <1>3, <1>4 DEF IInv, NoneLost
<1>12. Recorded'
  BY <1>1 DEF IInv, Recorded, In
<1>. QED  BY <1>5, <1>6, <1>7, <1>8, <1>9, <1>10, <1>11, <1>12 DEF IInv

LEMMA NextIInv ==
  ASSUME EnoughTags, IInv, [Next]_vars
  PROVE  IInv'
<1>1. CASE UNCHANGED vars
  BY <1>1, IInvSame
<1>2. ASSUME NEW p \in Proc, Step(p) PROVE IInv'
  <2>1. /\ Typed /\ HalfIs /\ TagsAre /\ Skew /\ InFlight /\ GotIs /\ NoneLost /\ Recorded
    BY DEF IInv
  <2>2. Typed' /\ HalfIs' /\ TagsAre' /\ Skew'
    BY <1>2, <2>1, StepMoves, HalfKept, TagsKept, SkewKept
  <2>3. InFlight' /\ GotIs' /\ NoneLost' /\ Recorded'
    BY <1>2, <2>1, InFlightKept, GotKept, NoneLostKept, RecordedKept
  <2>. QED  BY <2>2, <2>3 DEF IInv
<1>. QED  BY <1>1, <1>2 DEF Next, AllReturned

(* While the plans are made, the state follows from how far the ranks have   *)
(* come: the tags each has taken, the half-plans each has made, and that no   *)
(* message of the handshakes is lost or outlives the loop it is meant for.    *)
THEOREM PlanInvariant ==
  ASSUME EnoughTags
  PROVE  Spec => []IInv
<1>1. Init => IInv
  BY InitIInv
<1>2. IInv /\ [Next]_vars => IInv'
  BY NextIInv
<1>. QED  BY <1>1, <1>2, PTL DEF Spec
-----------------------------------------------------------------------------
LEMMA IInvTypeOK ==
  ASSUME IInv
  PROVE  TypeOK
<1>0. Typed /\ TagsAre /\ InFlight /\ GotIs /\ Recorded
  BY DEF IInv
<1>1. call \in [Proc -> 0 .. NumCalls] /\ at \in [Proc -> Range(Order)]
  BY <1>0 DEF Typed
<1>2. commTag \in [Proc -> 0 .. MaxTag - 1] /\ tags \in [Proc -> [Sides -> 0 .. MaxTag - 1]]
  <2>1. ASSUME NEW p \in Proc PROVE Tag(TagsTaken(p)) \in 0 .. MaxTag - 1
    <3>1. call[p] \in Nat /\ Progress(p) = 12 * call[p] + Pos(at[p]) /\ Pos(at[p]) \in 1 .. 12
      BY <1>0, ProgressIs
    <3>2. PICK c \in Nat : c = call[p]
      BY <3>1
    <3>3. 126 + TagsTaken(p) \in Nat
      <4>1. TagsTaken(p) = 6 * c \/ TagsTaken(p) = 6 * (c - 1) + 4
        BY <3>2 DEF TagsTaken
      <4>. QED  BY <4>1
    <3>4. PICK i \in Nat, n \in Nat \ {0} : i = 126 + TagsTaken(p) /\ n = MaxTag
      BY <3>3, PlanAssumption
    <3>5. i % n \in 0 .. n - 1
      BY ModStep
    <3>. QED  BY <3>4, <3>5 DEF Tag
  <2>. QED  BY <1>0, <2>1 DEF TagsAre
<1>3. ASSUME NEW m \in flight PROVE m.src \in Proc /\ m.dst \in Proc /\ m.call \in 1 .. call[m.src]
  <2>1. m.src \in Proc /\ m.dst \in Proc /\ m.call \in Calls /\ m.side \in Sides
    BY <1>0, HandIs, AnnIs DEF InFlight, HandInFlight, AnnInFlight
  <2>2. PICK c \in Nat, s \in Sides : c = m.call /\ s = m.side /\ c >= 1
    BY <1>0, <2>1, CallsAre DEF Calls
  <2>3. Progress(m.src) >= When(c, "form", s) \/ Progress(m.src) >= When(c, "find", s)
    BY <1>0, <2>2 DEF InFlight, HandInFlight, AnnInFlight
  <2>4. /\ When(c, "form", s) = When(c, "sizes", s) + 1
        /\ When(c, "sizes", s) = 12 * c + (IF s = "S" THEN 1 ELSE 4)
        /\ When(c, "find", s) = 12 * c + (IF s = "S" THEN 7 ELSE 9)
    BY NextWhen, SideCases
  <2>5. PICK d \in Nat : d = call[m.src] /\ Progress(m.src) <= 12 * d + 12 /\ Progress(m.src) \in Nat
    BY <1>0, <2>1, ProgressIs
  <2>6. Progress(m.src) > 12 * c
    BY <2>3, <2>4, <2>5
  <2>7. c <= d
    BY <2>5, <2>6
  <2>. QED  BY <2>1, <2>2, <2>5, <2>7
<1>4. \A p \in Proc : \A m \in got[p] : m.dst = p
  BY <1>0 DEF GotIs, GotMsg
<1>. QED  BY <1>0, <1>1, <1>2, <1>3, <1>4 DEF TypeOK, Recorded

(* Whatever the placement and the calls: the call counters, the steps, the    *)
(* tags of the communicator and of update_global_comm, the ranks announced to *)
(* update_global_comm and the number of finished plans have their types, and  *)
(* a message under way was posted in a call its sender has begun.             *)
THEOREM TypeCorrect ==
  ASSUME EnoughTags
  PROVE  Spec => []TypeOK
<1>1. IInv => TypeOK
  BY IInvTypeOK
<1>. QED  BY <1>1, PlanInvariant, PTL

(* A probe of MPI_ANY_SOURCE, in form_local_comm and in update_global_comm,   *)
(* finds only messages of its own call and half: the fixed tags of the local  *)
(* handshakes need the Allreduce before them, and the announcements of R and  *)
(* of the next S, which no Allreduce keeps apart, need their different tags.  *)
THEOREM Separate ==
  ASSUME EnoughTags
  PROVE  Spec => []HandshakesSeparate
<1>1. IInv => HandshakesSeparate
  <2> SUFFICES ASSUME IInv, NEW p \in Proc
               PROVE  \A m \in
                        CASE In(p, "probe") -> Matching(p, "local", Fixed(Side(p)))
                          [] In(p, "learn") -> Matching(p, "global", tags[p][Side(p)])
                          [] OTHER -> {} :
                        m.call = call[p] /\ m.side = Side(p)
    BY DEF HandshakesSeparate
  <2>1. Typed /\ TagsAre /\ InFlight
    BY DEF IInv
  <2>2. ~ (In(p, "probe") /\ In(p, "learn"))
    BY DEF In
  <2>3. CASE In(p, "probe")
    BY <2>1, <2>2, <2>3, Taken
  <2>4. CASE In(p, "learn")
    BY <2>1, <2>2, <2>4, Taken
  <2>5. CASE ~ In(p, "probe") /\ ~ In(p, "learn")
    BY <2>5
  <2>. QED  BY <2>3, <2>4, <2>5
<1>. QED  BY <1>1, PlanInvariant, PTL
-----------------------------------------------------------------------------
(* What the announcements of a call tell a rank: the ranks of the other nodes *)
(* that are in charge of its node and have its local rank. *)
Told(sends, p, s) ==
  [n \in Nodes |-> IF Place[n][Local[p]] \in AnnouncersOf(sends, p, s) THEN Place[n][Local[p]] ELSE 0]
ToldSoFar(p, s) ==
  [n \in Nodes |-> IF \E m \in got[p] : m.side = s /\ m.node = n THEN Place[n][Local[p]] ELSE 0]

LearnedIs ==
  \A p \in Proc, s \in Sides, c \in Calls :
    /\ Progress(p) > When(c, "learn", s) /\ Progress(p) <= When(c + 1, "probe", "R") =>
         learned[p][s] = Told(Asked(c), p, s)
    /\ Progress(p) >= When(c, "find", "S") /\ Progress(p) <= When(c, "learn", s) =>
         learned[p][s] = ToldSoFar(p, s)

(* The plan of a rank follows from what all are asked to send. *)
PlanOf(sends, p) ==
  LET sRecv == RemoveDuplicates(RecvOf(sends, p, "S"))
      gRecv == RemoveDuplicates(GlobalOf(sends, p, "R"))
  IN  [sSend |-> MapIndices(RemoveDuplicates(SendData(sends, p, "S")), Orig(sends, p, "S")),
       sRecv |-> sRecv,
       gSend |-> MapIndices(RemoveDuplicates(GlobalOf(sends, p, "S")), sRecv),
       gRecv |-> gRecv,
       rSend |-> MapIndices(RemoveDuplicates(RecvOf(sends, p, "R")), gRecv),
       rRecv |-> MapIndices(RemoveDuplicates(SendData(sends, p, "R")), Orig(sends, p, "R")),
       lSend |-> MapIndices(LocalData(sends, p, "S"), Orig(sends, p, "S")),
       lRecv |-> MapIndices(LocalData(sends, p, "R"), Orig(sends, p, "R")),
       to    |-> [n \in DOMAIN GlobalOf(sends, p, "S") |-> InCharge(sends, n, "R", Node[p])],
       from  |-> [n \in DOMAIN GlobalOf(sends, p, "R") |-> InCharge(sends, n, "S", Node[p])]]

PlansAre == \A p \in Proc : \A c \in 1 .. Len(plan[p]) : plan[p][c] = PlanOf(Asked(c), p)

(* What a rank has been told once all announcements have come. *)
LEMMA ToldIs ==
  ASSUME Typed, NEW c \in Calls, NEW s \in Sides, NEW p \in Proc, NEW n \in Nodes
  PROVE  (\E m \in AnnouncedTo(c, s, p) : m.side = s /\ m.node = n)
           <=> Place[n][Local[p]] \in AnnouncersOf(Asked(c), p, s)
<1>1. IsRequest(Asked(c)) /\ Local[p] \in LocalRanks /\ Node[p] \in Nodes
  BY CallsAre, Placed
<1>2. ASSUME NEW m \in AnnouncedTo(c, s, p), m.node = n
      PROVE  Place[n][Local[p]] \in AnnouncersOf(Asked(c), p, s)
  <2>1. PICK q \in AnnouncersOf(Asked(c), p, s) : m = AnnMsg(c, s, q, Node[p])
    BY DEF AnnouncedTo
  <2>2. q \in Proc /\ Place[Node[p]][Local[q]] = p
    BY <1>1, <2>1, AnnouncersAre
  <2>3. Local[q] \in LocalRanks /\ Place[Node[q]][Local[q]] = q
    BY <2>2, Placed
  <2>4. Local[p] = Local[q]
    BY <1>1, <2>2, <2>3, PlaceOf
  <2>5. Node[q] = n
    BY <1>2, <2>1 DEF AnnMsg
  <2>. QED  BY <2>1, <2>3, <2>4, <2>5
<1>3. ASSUME Place[n][Local[p]] \in AnnouncersOf(Asked(c), p, s)
      PROVE  \E m \in AnnouncedTo(c, s, p) : m.side = s /\ m.node = n
  <2>1. PICK q \in AnnouncersOf(Asked(c), p, s) : q = Place[n][Local[p]]
    BY <1>3
  <2>2. Node[q] = n
    BY <1>1, <2>1, PlaceOf
  <2>3. AnnMsg(c, s, q, Node[p]) \in AnnouncedTo(c, s, p)
    BY DEF AnnouncedTo
  <2>4. AnnMsg(c, s, q, Node[p]).side = s /\ AnnMsg(c, s, q, Node[p]).node = n
    BY <2>2 DEF AnnMsg
  <2>. QED  BY <2>3, <2>4
<1>. QED  BY <1>2, <1>3


(* What an announcement teaches. *)
LEMMA AnnTeaches ==
  ASSUME Typed, NEW m, IsAnn(m)
  PROVE  m.node \in Nodes /\ m.src = Place[m.node][Local[m.dst]] /\ m.src \in Proc
<1>1. /\ m.src \in Proc /\ m.dst \in Proc /\ m.dst = Place[Node[m.dst]][Local[m.src]]
      /\ m.node = Node[m.src]
  BY AnnIs
<1>2. Local[m.src] \in LocalRanks /\ Place[Node[m.src]][Local[m.src]] = m.src /\ Node[m.src] \in Nodes
      /\ Node[m.dst] \in Nodes
  BY <1>1, Placed
<1>3. Local[m.dst] = Local[m.src]
  BY <1>1, <1>2, PlaceOf
<1>. QED  BY <1>1, <1>2, <1>3

(* What a step teaches a rank. *)
LEMMA Teaches ==
  ASSUME Typed, TagsAre, InFlight, GotIs, EnoughTags, NEW p \in Proc, Step(p),
         learned \in [Proc -> [Sides -> [Nodes -> Proc]]]
  PROVE  /\ \A q \in Proc \ {p} : learned'[q] = learned[q] /\ got'[q] = got[q]
         /\ LearnProbe(p) => \E m : /\ IsAnn(m) /\ m.dst = p /\ m.side = Side(p)
                                    /\ got'[p] = got[p] \cup {m}
                                    /\ learned'[p] = [learned[p] EXCEPT ![Side(p)][m.node] = m.src]
         /\ FormGlobal(p) => /\ got'[p] = {}
                             /\ Side(p) = "S" => learned'[p] = learned[p]
                             /\ Side(p) = "R" => learned'[p] = [t \in Sides |-> [n \in Nodes |-> 0]]
         /\ ~ LearnProbe(p) /\ ~ FormGlobal(p) => learned'[p] = learned[p]
         /\ Learned(p) => got'[p] = {}
         /\ ~ In(p, "probe") /\ ~ In(p, "learn") => got'[p] = got[p]
<1>0. DOMAIN got = Proc
  BY DEF GotIs
<1>1. CASE LearnProbe(p)
  <2>1. In(p, "learn")
    BY <1>1 DEF LearnProbe
  <2>2. PICK m \in Matching(p, "global", tags[p][Side(p)]) :
           Receive(p, m) /\ learned' = [learned EXCEPT ![p][Side(p)][m.node] = m.src]
    BY <1>1 DEF LearnProbe
  <2>3. IsAnn(m) /\ m.dst = p /\ m.side = Side(p)
    BY <2>1, <2>2, Taken
  <2>4. got' = [got EXCEPT ![p] = got[p] \cup {m}]
    BY <2>2 DEF Receive
  <2>5. got'[p] = got[p] \cup {m} /\ \A q \in Proc \ {p} : got'[q] = got[q]
    BY <1>0, <2>4
  <2>6. learned' = [learned EXCEPT ![p] = [learned[p] EXCEPT ![Side(p)][m.node] = m.src]]
    BY <2>2
  <2>7. PICK z : z = [learned[p] EXCEPT ![Side(p)][m.node] = m.src]
    OBVIOUS
  <2>8. learned'[p] = z /\ \A q \in Proc \ {p} : learned'[q] = learned[q]
    BY <2>6, <2>7
  <2>9. ~ FormGlobal(p) /\ ~ Learned(p)
    <3>1. FormGlobal(p) => In(p, "probe")
      BY DEF FormGlobal
    <3>2. Learned(p) => Progress(p)' = Progress(p) + 1
      BY LearnedGoes DEF Moves
    <3>3. Progress(p)' = Progress(p) /\ Progress(p) \in Nat
      BY <1>1, Stay, ProgressIs DEF LearnProbe, Stays
    <3>. QED  BY <2>1, <3>1, <3>2, <3>3 DEF In
  <2>10. learned'[p] = [learned[p] EXCEPT ![Side(p)][m.node] = m.src]
    BY <2>7, <2>8
  <2>11. \E x : /\ IsAnn(x) /\ x.dst = p /\ x.side = Side(p) /\ got'[p] = got[p] \cup {x}
                /\ learned'[p] = [learned[p] EXCEPT ![Side(p)][x.node] = x.src]
    BY <2>3, <2>5, <2>10
  <2>. QED  BY <1>1, <2>1, <2>5, <2>8, <2>9, <2>11
<1>2. CASE FormGlobal(p)
  <2>1. got' = [got EXCEPT ![p] = {}]
    BY <1>2 DEF FormGlobal
  <2>2. In(p, "probe") /\ ~ In(p, "learn")
    BY <1>2 DEF FormGlobal, In
  <2>3. ~ LearnProbe(p) /\ ~ Learned(p)
    BY <2>2 DEF LearnProbe, Learned
  <2>4. PICK z : z = [t \in Sides |-> [n \in Nodes |-> 0]]
    OBVIOUS
  <2>5. /\ Side(p) = "S" => learned' = learned
        /\ Side(p) = "R" => learned' = [learned EXCEPT ![p] = z]
    BY <1>2, <2>4 DEF FormGlobal
  <2>6. Side(p) \in Sides
    BY ProgressIs
  <2>7. /\ Side(p) = "S" => learned'[p] = learned[p]
        /\ Side(p) = "R" => learned'[p] = z
        /\ \A q \in Proc \ {p} : learned'[q] = learned[q]
    BY <2>5, <2>6 DEF Sides
  <2>8. got'[p] = {} /\ \A q \in Proc \ {p} : got'[q] = got[q]
    BY <1>0, <2>1
  <2>9. Side(p) = "R" => learned'[p] = [t \in Sides |-> [n \in Nodes |-> 0]]
    BY <2>4, <2>7
  <2>. QED  BY <1>2, <2>2, <2>3, <2>7, <2>8, <2>9
<1>3. CASE Learned(p)
  <2>1. got' = [got EXCEPT ![p] = {}] /\ learned' = learned /\ In(p, "learn")
    BY <1>3 DEF Learned
  <2>2. ~ LearnProbe(p)
    <3>1. LearnProbe(p) => Progress(p)' = Progress(p)
      BY Stay DEF LearnProbe, Stays
    <3>2. Progress(p)' = Progress(p) + 1 /\ Progress(p) \in Nat
      BY <1>3, LearnedGoes, ProgressIs DEF Moves
    <3>. QED  BY <3>1, <3>2
  <2>3. ~ FormGlobal(p)
    BY <2>1 DEF FormGlobal, In
  <2>. QED  BY <1>0, <2>1, <2>2, <2>3
<1>4. CASE FormProbe(p)
  <2>1. In(p, "probe") /\ learned' = learned
    BY <1>4 DEF FormProbe
  <2>2. ~ LearnProbe(p) /\ ~ Learned(p) /\ (FormGlobal(p) => Progress(p)' = Progress(p) + 1)
    BY <2>1, FormGlobalGoes DEF LearnProbe, Learned, In, Moves
  <2>3. Progress(p)' = Progress(p) /\ Progress(p) \in Nat
    BY <1>4, Stay, ProgressIs DEF FormProbe, Stays
  <2>4. \A q \in Proc \ {p} : got'[q] = got[q]
    BY <1>0, <1>4 DEF FormProbe, Receive
  <2>. QED  BY <2>1, <2>2, <2>3, <2>4
<1>5. CASE InitLocality(p) \/ MapProcsToNodes(p) \/ FormAllreduce(p) \/ FindAllreduce(p) \/ FinishPlan(p)
  <2>1. got' = got /\ learned' = learned
    BY <1>5 DEF InitLocality, MapProcsToNodes, FormAllreduce, FindAllreduce, FinishPlan
  <2>2. at[p][1] \in {"idle", "sizes", "form", "find", "nodes"}
    BY <1>5 DEF InitLocality, MapProcsToNodes, FormAllreduce, FindAllreduce, FinishPlan, In
  <2>3. ~ LearnProbe(p) /\ ~ FormGlobal(p) /\ ~ Learned(p)
    BY <2>2 DEF LearnProbe, FormGlobal, Learned, In
  <2>. QED  BY <2>1, <2>3
<1>. QED  BY <1>1, <1>2, <1>3, <1>4, <1>5 DEF Step

(* When a rank is told of a call. *)
LEMMA TellingTime ==
  ASSUME NEW c \in Int, NEW s \in Sides
  PROVE  /\ When(c, "find", "S") = 12 * c + 7 /\ When(c + 1, "probe", "R") = 12 * c + 18
         /\ When(c, "probe", "R") = 12 * c + 6
         /\ When(c, "learn", s) = 12 * c + (IF s = "S" THEN 8 ELSE 10)
<1>1. PICK d \in Int : d = c + 1
  OBVIOUS
<1>2. When(d, "probe", "R") = 12 * d + 6
  BY WhenIs
<1>3. /\ When(c, "find", "S") = 12 * c + 7 /\ When(c, "probe", "R") = 12 * c + 6
      /\ When(c, "learn", "S") = 12 * c + 8 /\ When(c, "learn", "R") = 12 * c + 10
  BY WhenIs
<1>. QED  BY <1>1, <1>2, <1>3 DEF Sides

LEMMA LearnedKept ==
  ASSUME Typed, HalfIs, TagsAre, Skew, InFlight, GotIs, EnoughTags, LearnedIs, NEW p \in Proc, Step(p),
         learned \in [Proc -> [Sides -> [Nodes -> Proc]]]
  PROVE  LearnedIs'
<1>1. /\ Typed' /\ Calls' = Calls /\ Calls \subseteq Nat
      /\ \A c, q, s : Told(Asked(c), q, s)' = Told(Asked(c), q, s)
  <2>1. input' = input /\ Calls \subseteq Nat /\ Typed'
    BY StepMoves, CallsAre
  <2>2. Calls' = Calls /\ \A c : Asked(c)' = Asked(c)
    BY <2>1, AskedKept
  <2>3. \A c, q, s : Told(Asked(c), q, s)' = Told(Asked(c), q, s)
    BY <2>2
  <2>. QED  BY <2>1, <2>2, <2>3
<1>2. \A q \in Proc : /\ Progress(q) \in Nat /\ Progress(q)' \in Nat /\ Progress(q)' >= Progress(q)
                      /\ Progress(q)' # Progress(q) => q = p /\ Progress(p)' = Progress(p) + 1
  BY Grows
<1>3. /\ \A q \in Proc \ {p} : learned'[q] = learned[q] /\ got'[q] = got[q]
      /\ LearnProbe(p) => \E m : /\ IsAnn(m) /\ m.dst = p /\ m.side = Side(p)
                                 /\ got'[p] = got[p] \cup {m}
                                 /\ learned'[p] = [learned[p] EXCEPT ![Side(p)][m.node] = m.src]
      /\ FormGlobal(p) => /\ got'[p] = {}
                          /\ Side(p) = "S" => learned'[p] = learned[p]
                          /\ Side(p) = "R" => learned'[p] = [t \in Sides |-> [n \in Nodes |-> 0]]
      /\ ~ LearnProbe(p) /\ ~ FormGlobal(p) => learned'[p] = learned[p]
      /\ Learned(p) => got'[p] = {}
      /\ ~ In(p, "probe") /\ ~ In(p, "learn") => got'[p] = got[p]
  BY Teaches
<1>4. PICK b \in Nat, t \in Sides : b = call[p] /\ t = Side(p)
  BY ProgressIs
<1>5. /\ LearnProbe(p) => Progress(p) = When(b, "learn", t) /\ Progress(p)' = Progress(p)
      /\ Learned(p) => Progress(p) = When(b, "learn", t)
      /\ FormGlobal(p) => Progress(p) = When(b, "probe", t) /\ Progress(p)' = Progress(p) + 1
  <2>1. LearnProbe(p) => In(p, "learn") /\ Progress(p)' = Progress(p)
    BY Stay DEF LearnProbe, Stays
  <2>2. In(p, "learn") => Progress(p) = When(b, "learn", t)
    BY <1>4, ProgressIs DEF In
  <2>3. Learned(p) => In(p, "learn")
    BY DEF Learned
  <2>4. FormGlobal(p) => Progress(p) = When(b, "probe", t) /\ Progress(p)' = Progress(p) + 1
    BY <1>4, FormGlobalGoes DEF Moves
  <2>. QED  BY <2>1, <2>2, <2>3, <2>4
<1>6. SUFFICES ASSUME NEW q \in Proc, NEW s \in Sides, NEW c \in Calls
               PROVE  /\ Progress(q)' > When(c, "learn", s) /\ Progress(q)' <= When(c + 1, "probe", "R") =>
                           learned'[q][s] = Told(Asked(c), q, s)
                      /\ Progress(q)' >= When(c, "find", "S") /\ Progress(q)' <= When(c, "learn", s) =>
                           learned'[q][s] = ToldSoFar(q, s)'
  BY <1>1 DEF LearnedIs
<1>7. /\ Progress(q) > When(c, "learn", s) /\ Progress(q) <= When(c + 1, "probe", "R") =>
           learned[q][s] = Told(Asked(c), q, s)
      /\ Progress(q) >= When(c, "find", "S") /\ Progress(q) <= When(c, "learn", s) =>
           learned[q][s] = ToldSoFar(q, s)
  BY DEF LearnedIs
<1>8. PICK k \in {8, 10} : /\ k = (IF s = "S" THEN 8 ELSE 10)
                           /\ When(c, "find", "S") = 12 * c + 7 /\ When(c + 1, "probe", "R") = 12 * c + 18
                           /\ When(c, "probe", "R") = 12 * c + 6 /\ When(c, "learn", s) = 12 * c + k
  <2>1. c \in Int
    BY <1>1
  <2>. QED  BY <2>1, TellingTime
<1>9. PICK j \in {8, 10} : /\ j = (IF t = "S" THEN 8 ELSE 10) /\ When(b, "learn", t) = 12 * b + j
                           /\ When(b, "probe", "R") = 12 * b + 6 /\ When(b, "probe", "S") = 12 * b + 3
  <2>1. b \in Int
    OBVIOUS
  <2>2. /\ When(b, "learn", t) = 12 * b + (IF t = "S" THEN 8 ELSE 10)
        /\ When(b, "probe", "R") = 12 * b + 6
    BY <2>1, TellingTime
  <2>3. When(b, "probe", "S") = 12 * b + 3
    BY <2>1, WhenIs
  <2>. QED  BY <2>2, <2>3
<1>10. c \in Nat
  BY <1>1
<1>11. CASE q # p
  <2>1. Progress(q)' = Progress(q) /\ learned'[q] = learned[q] /\ got'[q] = got[q]
    BY <1>2, <1>3, <1>11
  <2>2. ToldSoFar(q, s)' = ToldSoFar(q, s)
    BY <2>1 DEF ToldSoFar
  <2>. QED  BY <1>7, <2>1, <2>2
<1>12. ASSUME q = p, Progress(p)' > When(c, "learn", s), Progress(p)' <= When(c + 1, "probe", "R")
       PROVE  learned'[p][s] = Told(Asked(c), p, s)
  <2>1. CASE Progress(p) <= When(c, "learn", s)
    <3>1. Learned(p) /\ call[p] = c /\ Side(p) = s
      BY <1>10, <1>12, <2>1, Leaves
    <3>2. Progress(p) = When(c, "learn", s)
      BY <1>4, <1>5, <3>1
    <3>3. learned[p][s] = ToldSoFar(p, s)
      <4>1. Progress(p) >= When(c, "find", "S") /\ Progress(p) <= When(c, "learn", s)
        BY <1>8, <1>10, <3>2
      <4>. QED  BY <1>7, <1>12, <4>1
    <3>4. got[p] = AnnouncedTo(c, s, p)
      BY <3>1, AllAnnounced DEF Learned
    <3>5. \A n \in Nodes : (\E m \in got[p] : m.side = s /\ m.node = n)
                             <=> Place[n][Local[p]] \in AnnouncersOf(Asked(c), p, s)
      BY <3>4, ToldIs
    <3>6. ToldSoFar(p, s) = Told(Asked(c), p, s)
      BY <3>5 DEF ToldSoFar, Told
    <3>7. learned'[p] = learned[p]
      <4>1. learned' = learned
        BY <3>1 DEF Learned
      <4>. QED  BY <4>1
    <3>. QED  BY <3>3, <3>6, <3>7
  <2>2. CASE Progress(p) > When(c, "learn", s)
    <3>1. learned[p][s] = Told(Asked(c), p, s)
      BY <1>2, <1>7, <1>8, <1>10, <1>12, <2>2
    <3>2. CASE LearnProbe(p)
      <4>1. t # s
        <5>1. t = s => j = k
          BY <1>8, <1>9
        <5>2. 12 * b + j > 12 * c + k /\ 12 * b + j <= 12 * c + 18
          BY <1>5, <1>8, <1>9, <1>12, <2>2, <3>2
        <5>3. j # k
          BY <1>10, <5>2
        <5>. QED  BY <5>1, <5>3
      <4>2. PICK m : learned'[p] = [learned[p] EXCEPT ![t][m.node] = m.src]
        BY <1>3, <1>4, <3>2
      <4>. QED  BY <3>1, <4>1, <4>2
    <3>3. CASE FormGlobal(p)
      <4>1. t = "S"
        <5>1. SUFFICES ASSUME t = "R" PROVE FALSE
          BY DEF Sides
        <5>2. Progress(p)' = 12 * b + 7
          BY <1>5, <1>9, <3>3, <5>1
        <5>3. 12 * b + 7 > 12 * c + k /\ 12 * b + 7 <= 12 * c + 18
          BY <1>8, <1>12, <5>2
        <5>. QED  BY <1>10, <5>3
      <4>. QED  BY <1>3, <1>4, <3>1, <3>3, <4>1
    <3>4. CASE ~ LearnProbe(p) /\ ~ FormGlobal(p)
      BY <1>3, <3>1, <3>4
    <3>. QED  BY <3>2, <3>3, <3>4
  <2>. QED  BY <1>2, <1>8, <1>10, <2>1, <2>2
<1>13. ASSUME q = p, Progress(p)' >= When(c, "find", "S"), Progress(p)' <= When(c, "learn", s)
       PROVE  learned'[p][s] = ToldSoFar(p, s)'
  <2>1. CASE Progress(p) <= When(c, "probe", "R")
    <3>1. FormGlobal(p) /\ Side(p) = "R"
      <4>1. Progress(p)' > When(c, "probe", "R")
        BY <1>2, <1>8, <1>10, <1>13
      <4>. QED  BY <1>10, <2>1, <4>1, Leaves DEF Sides
    <3>2. got'[p] = {} /\ learned'[p] = [r \in Sides |-> [n \in Nodes |-> 0]]
      BY <1>3, <3>1
    <3>3. ToldSoFar(p, s)' = [n \in Nodes |-> 0]
      BY <3>2 DEF ToldSoFar
    <3>. QED  BY <3>2, <3>3
  <2>2. CASE ~ (Progress(p) <= When(c, "probe", "R"))
    <3>1. /\ Progress(p) >= When(c, "find", "S") /\ Progress(p) <= When(c, "learn", s)
          /\ Progress(p) >= 12 * c + 7 /\ Progress(p) <= 12 * c + 10
      BY <1>2, <1>8, <1>10, <1>13, <2>2
    <3>2. learned[p][s] = ToldSoFar(p, s)
      BY <1>7, <1>13, <3>1
    <3>3. ~ In(p, "probe")
      <4>1. In(p, "probe") => Progress(p) = When(b, "probe", t)
        BY <1>4, ProgressIs DEF In
      <4>2. In(p, "probe") => Progress(p) = 12 * b + 3 \/ Progress(p) = 12 * b + 6
        BY <1>9, <4>1 DEF Sides
      <4>. QED  BY <1>10, <3>1, <4>2
    <3>4. CASE LearnProbe(p)
      <4>1. PICK m : /\ IsAnn(m) /\ m.dst = p /\ m.side = t /\ got'[p] = got[p] \cup {m}
                     /\ learned'[p] = [learned[p] EXCEPT ![t][m.node] = m.src]
        BY <1>3, <1>4, <3>4
      <4>2. PICK i \in Nodes, x \in Proc : i = m.node /\ x = m.src /\ x = Place[i][Local[p]]
        BY <4>1, AnnTeaches
      <4>3. ToldSoFar(p, s)' = [r \in Nodes |-> IF \E y \in got[p] \cup {m} : y.side = s /\ y.node = r
                                                       THEN Place[r][Local[p]] ELSE 0]
        BY <4>1 DEF ToldSoFar
      <4>4. CASE t = s
        <5>0. PICK g \in [Sides -> [Nodes -> Proc]] : g = learned[p]
          OBVIOUS
        <5>1. PICK f \in [Nodes -> Proc] : f = g[s]
          OBVIOUS
        <5>2. learned'[p][s] = [f EXCEPT ![i] = x]
          <6>1. learned'[p] = [g EXCEPT ![s][i] = x]
            BY <4>1, <4>2, <4>4, <5>0
          <6>2. PICK h : h = [f EXCEPT ![i] = x]
            OBVIOUS
          <6>3. learned'[p] = [g EXCEPT ![s] = h]
            BY <5>1, <6>1, <6>2
          <6>. QED  BY <6>2, <6>3
        <5>3. f = [n \in Nodes |-> IF \E y \in got[p] : y.side = s /\ y.node = n THEN Place[n][Local[p]] ELSE 0]
          BY <3>2, <5>0, <5>1 DEF ToldSoFar
        <5>4. \A n \in Nodes : (\E y \in got[p] \cup {m} : y.side = s /\ y.node = n)
                               <=> (\E y \in got[p] : y.side = s /\ y.node = n) \/ n = i
          BY <4>1, <4>2, <4>4
        <5>5. PICK u, h : ToldSoFar(p, s)' = u /\ h = [f EXCEPT ![i] = x]
          OBVIOUS
        <5>6. u = [n \in Nodes |-> IF \E y \in got[p] \cup {m} : y.side = s /\ y.node = n
                                  THEN Place[n][Local[p]] ELSE 0]
          BY <4>3, <5>5
        <5>7. \A n \in Nodes : u[n] = IF (\E y \in got[p] : y.side = s /\ y.node = n) \/ n = i
                                     THEN Place[n][Local[p]] ELSE 0
          BY <5>4, <5>6
        <5>8. \A n \in Nodes : h[n] = IF n = i THEN x ELSE f[n]
          BY <5>5
        <5>9. \A n \in Nodes : f[n] = IF \E y \in got[p] : y.side = s /\ y.node = n
                                     THEN Place[n][Local[p]] ELSE 0
          BY <5>3
        <5>10. \A n \in Nodes : u[n] = h[n]
          <6> DEFINE O(n) == \E y \in got[p] : y.side = s /\ y.node = n
          <6>1. \A n \in Nodes : u[n] = IF O(n) \/ n = i THEN Place[n][Local[p]] ELSE 0
            BY <5>7
          <6>2. \A n \in Nodes : f[n] = IF O(n) THEN Place[n][Local[p]] ELSE 0
            BY <5>9
          <6> HIDE DEF O
          <6>. QED  BY <4>2, <5>8, <6>1, <6>2
        <5>11. h \in [Nodes -> Proc] /\ DOMAIN u = Nodes /\ u = [n \in Nodes |-> u[n]]
          BY <5>5, <5>6
        <5>12. h = u
          BY <5>10, <5>11
        <5>. QED  BY <5>2, <5>5, <5>12
      <4>5. CASE t # s
        <5>1. learned'[p][s] = ToldSoFar(p, s)
          BY <3>2, <4>1, <4>2, <4>5
        <5>2. \A n \in Nodes : (\E y \in got[p] \cup {m} : y.side = s /\ y.node = n)
                               <=> (\E y \in got[p] : y.side = s /\ y.node = n)
          BY <4>1, <4>5
        <5>3. PICK u, h : ToldSoFar(p, s)' = u /\ h = ToldSoFar(p, s)
          OBVIOUS
        <5>4. u = [n \in Nodes |-> IF \E y \in got[p] \cup {m} : y.side = s /\ y.node = n
                                  THEN Place[n][Local[p]] ELSE 0]
          BY <4>3, <5>3
        <5>5. h = [n \in Nodes |-> IF \E y \in got[p] : y.side = s /\ y.node = n
                                  THEN Place[n][Local[p]] ELSE 0]
          BY <5>3 DEF ToldSoFar
        <5>6. u = h
          BY <5>2, <5>4, <5>5
        <5>. QED  BY <5>1, <5>3, <5>6
      <4>. QED  BY <4>4, <4>5
    <3>5. CASE Learned(p)
      <4>1. t = "S" /\ s = "R"
        <5>1. Progress(p) = 12 * b + j /\ Progress(p)' = Progress(p) + 1
          BY <1>5, <1>9, <3>5, LearnedGoes DEF Moves
        <5>2. 12 * b + j + 1 <= 12 * c + k /\ 12 * b + j >= 12 * c + 7
          BY <1>8, <1>13, <3>1, <5>1
        <5>3. b <= c /\ b >= c
          <6>1. b < c + 1
            BY <1>10, <5>2
          <6>2. 12 * b + 3 >= 12 * c
            BY <1>10, <5>2
          <6>. QED  BY <1>10, <6>1, <6>2
        <5>4. j = 8 /\ k = 10
          <6>1. b = c /\ j + 1 <= k
            BY <1>10, <5>2, <5>3
          <6>. QED  BY <6>1
        <5>. QED  BY <1>8, <1>9, <5>4 DEF Sides
      <4>2. \A m \in got[p] : m.side = "S"
        BY <1>4, <4>1 DEF GotIs, GotMsg
      <4>3. ToldSoFar(p, s) = [n \in Nodes |-> 0]
        BY <4>1, <4>2 DEF ToldSoFar
      <4>4. got'[p] = {} /\ learned' = learned
        BY <1>3, <3>5 DEF Learned
      <4>5. ToldSoFar(p, s)' = [n \in Nodes |-> 0]
        BY <4>4 DEF ToldSoFar
      <4>. QED  BY <3>2, <4>3, <4>4, <4>5
    <3>6. CASE ~ LearnProbe(p) /\ ~ Learned(p)
      <4>1. ~ In(p, "learn") /\ ~ FormGlobal(p)
        BY <3>3, <3>6, StepIs DEF FormGlobal
      <4>2. got'[p] = got[p] /\ learned'[p] = learned[p]
        BY <1>3, <3>3, <3>6, <4>1
      <4>3. ToldSoFar(p, s)' = ToldSoFar(p, s)
        BY <4>2 DEF ToldSoFar
      <4>. QED  BY <3>2, <4>2, <4>3
    <3>. QED  BY <3>4, <3>5, <3>6
  <2>. QED  BY <2>1, <2>2
<1>. QED  BY <1>11, <1>12, <1>13
-----------------------------------------------------------------------------
(* What goes through a rank in charge. *)
Exchanged(sends, n, s, m) ==
  UNION { Range(Orig(sends, w[1], s)[w[2]]) : w \in Pairs(sends, n, s, m) }

LEMMA GoesThrough ==
  ASSUME NEW sends, IsRequest(sends), NEW s \in Sides, NEW a \in Proc, NEW d \in Abroad(sends, a, s),
         NEW k \in DOMAIN Orig(sends, a, s)[d],
         NEW p, p = InCharge(sends, Node[a], s, Node[d])
  PROVE  /\ p \in Proc /\ Node[p] = Node[a] /\ p \in DOMAIN SendData(sends, a, s)
         /\ a \in Senders(sends, p, s)
         /\ Entry(sends, a, s, d, k) \in SendData(sends, a, s)[p]
         /\ Entry(sends, a, s, d, k) \in EntriesAt(sends, p, s)
<1>1. PICK e \in Entries(sends, a, s) : e = Entry(sends, a, s, d, k)
  BY EntryIs
<1>2. e[2] = Node[d]
  BY <1>1 DEF Entry
<1>3. p \in DOMAIN SendData(sends, a, s)
  BY <1>2, SendDataIs
<1>4. p \in Proc /\ Node[p] = Node[a]
  BY <1>3, HandedIs
<1>5. e \in SendData(sends, a, s)[p]
  BY <1>2, <1>3, SendDataIs
<1>6. a \in Senders(sends, p, s)
  BY <1>3 DEF Senders
<1>7. e \in EntriesAt(sends, p, s)
  BY <1>5, <1>6 DEF EntriesAt
<1>. QED  BY <1>1, <1>3, <1>4, <1>5, <1>6, <1>7

LEMMA HandedEntry ==
  ASSUME NEW sends, IsRequest(sends), NEW s \in Sides, NEW a \in Proc, NEW p \in DOMAIN SendData(sends, a, s),
         NEW e \in SendData(sends, a, s)[p]
  PROVE  \E d \in Abroad(sends, a, s) : \E k \in DOMAIN Orig(sends, a, s)[d] :
           e = Entry(sends, a, s, d, k) /\ p = InCharge(sends, Node[a], s, Node[d])
<1>1. e \in Entries(sends, a, s) /\ p = InCharge(sends, Node[a], s, e[2])
  BY SendDataIs
<1>2. /\ e[4] \in Abroad(sends, a, s)
      /\ \E k \in DOMAIN Orig(sends, a, s)[e[4]] : e = Entry(sends, a, s, e[4], k)
  BY <1>1 DEF Entries
<1>3. PICK d \in Abroad(sends, a, s) : d = e[4]
  BY <1>2
<1>4. PICK k \in DOMAIN Orig(sends, a, s)[d] : e = Entry(sends, a, s, d, k)
  BY <1>2, <1>3
<1>5. e[2] = Node[d]
  BY <1>4 DEF Entry
<1>. QED  BY <1>1, <1>4, <1>5

LEMMA EntryAt ==
  ASSUME NEW sends, IsRequest(sends), NEW s \in Sides, NEW p \in Proc, NEW e \in EntriesAt(sends, p, s)
  PROVE  \E a \in Proc : /\ Node[a] = Node[p] /\ a \in Senders(sends, p, s)
                         /\ \E d \in Abroad(sends, a, s) : \E k \in DOMAIN Orig(sends, a, s)[d] :
                              /\ e = Entry(sends, a, s, d, k)
                              /\ p = InCharge(sends, Node[p], s, Node[d])
<1>1. PICK a \in Senders(sends, p, s) : e \in SendData(sends, a, s)[p]
  BY EntriesAtAre
<1>2. a \in Proc /\ Node[a] = Node[p] /\ p \in DOMAIN SendData(sends, a, s)
  BY SendersAre, MatesOf
<1>3. PICK d \in Abroad(sends, a, s) : \E k \in DOMAIN Orig(sends, a, s)[d] :
           e = Entry(sends, a, s, d, k) /\ p = InCharge(sends, Node[a], s, Node[d])
  BY <1>1, <1>2, HandedEntry
<1>. QED  BY <1>2, <1>3

LEMMA AbroadPair ==
  ASSUME NEW sends, IsRequest(sends), NEW s \in Sides, NEW a \in Proc, NEW d
  PROVE  /\ d \in Abroad(sends, a, s) =>
              d \in Proc /\ <<a, d>> \in Pairs(sends, Node[a], s, Node[d])
              /\ Node[d] \in Partners(sends, Node[a], s)
         /\ \A n \in Nodes, m \in Nodes : <<a, d>> \in Pairs(sends, n, s, m) /\ n # m =>
              d \in Abroad(sends, a, s) /\ Node[a] = n /\ Node[d] = m
<1>1. ASSUME d \in Abroad(sends, a, s)
      PROVE  d \in Proc /\ <<a, d>> \in Pairs(sends, Node[a], s, Node[d])
             /\ Node[d] \in Partners(sends, Node[a], s)
  <2>1. d \in Proc /\ d \in DOMAIN Orig(sends, a, s) /\ Node[d] # Node[a]
    BY <1>1, OrigIs DEF Abroad
  <2>2. <<a, d>> \in Pairs(sends, Node[a], s, Node[d])
    BY <2>1 DEF Pairs
  <2>3. Node[d] \in Nodes
    BY <2>1, Placed
  <2>. QED  BY <2>1, <2>2, <2>3 DEF Partners
<1>2. ASSUME NEW n \in Nodes, NEW m \in Nodes, <<a, d>> \in Pairs(sends, n, s, m), n # m
      PROVE  d \in Abroad(sends, a, s) /\ Node[a] = n /\ Node[d] = m
  BY <1>2 DEF Pairs, Abroad
<1>. QED  BY <1>1, <1>2

(* A rank has a message for another node exactly if it is in charge of it, ... *)
LEMMA GlobalIs ==
  ASSUME NEW sends, IsRequest(sends), NEW s \in Sides, NEW p \in Proc, NEW n
  PROVE  n \in DOMAIN GlobalOf(sends, p, s) <=>
           n \in Partners(sends, Node[p], s) /\ InCharge(sends, Node[p], s, n) = p
<1>1. ASSUME n \in DOMAIN GlobalOf(sends, p, s)
      PROVE  n \in Partners(sends, Node[p], s) /\ InCharge(sends, Node[p], s, n) = p
  <2>1. PICK e \in EntriesAt(sends, p, s) : n = e[2]
    BY <1>1 DEF GlobalOf
  <2>2. PICK a \in Proc : /\ Node[a] = Node[p]
                          /\ \E d \in Abroad(sends, a, s) : \E k \in DOMAIN Orig(sends, a, s)[d] :
                               /\ e = Entry(sends, a, s, d, k)
                               /\ p = InCharge(sends, Node[p], s, Node[d])
    BY EntryAt
  <2>3. PICK d \in Abroad(sends, a, s) : \E k \in DOMAIN Orig(sends, a, s)[d] :
           /\ e = Entry(sends, a, s, d, k) /\ p = InCharge(sends, Node[p], s, Node[d])
    BY <2>2
  <2>4. n = Node[d]
    BY <2>1, <2>3 DEF Entry
  <2>. QED  BY <2>2, <2>3, <2>4, AbroadPair
<1>2. ASSUME n \in Partners(sends, Node[p], s), InCharge(sends, Node[p], s, n) = p
      PROVE  n \in DOMAIN GlobalOf(sends, p, s)
  <2>1. n \in Nodes /\ n # Node[p] /\ Pairs(sends, Node[p], s, n) # {} /\ Node[p] \in Nodes
    BY <1>2, Placed DEF Partners
  <2>2. PICK a \in Proc, d \in Proc : <<a, d>> \in Pairs(sends, Node[p], s, n)
    BY <2>1 DEF Pairs
  <2>3. d \in Abroad(sends, a, s) /\ Node[a] = Node[p] /\ Node[d] = n
    BY <2>1, <2>2, AbroadPair
  <2>4. 1 \in DOMAIN Orig(sends, a, s)[d]
    <3>1. Orig(sends, a, s)[d] \in Seq(Nat) \ {<< >>}
      BY <2>3, OrigIs DEF Abroad
    <3>. QED  BY <3>1, SeqFacts
  <2>5. Entry(sends, a, s, d, 1) \in EntriesAt(sends, p, s)
    BY <1>2, <2>3, <2>4, GoesThrough
  <2>6. Entry(sends, a, s, d, 1)[2] = n
    BY <2>3 DEF Entry
  <2>. QED  BY <2>5, <2>6 DEF GlobalOf
<1>. QED  BY <1>1, <1>2

(* ... and it holds all that the two nodes exchange. *)
LEMMA GlobalHolds ==
  ASSUME NEW sends, IsRequest(sends), NEW s \in Sides, NEW p \in Proc, NEW n \in DOMAIN GlobalOf(sends, p, s)
  PROVE  { e[1] : e \in GlobalOf(sends, p, s)[n] } = Exchanged(sends, Node[p], s, n)
<1>0. /\ n \in Partners(sends, Node[p], s) /\ InCharge(sends, Node[p], s, n) = p
      /\ n \in Nodes /\ n # Node[p] /\ Node[p] \in Nodes
  BY GlobalIs, Placed DEF Partners
<1>1. GlobalOf(sends, p, s)[n] = { e \in EntriesAt(sends, p, s) : e[2] = n }
  BY DEF GlobalOf
<1>2. ASSUME NEW e \in EntriesAt(sends, p, s), e[2] = n
      PROVE  e[1] \in Exchanged(sends, Node[p], s, n)
  <2>1. PICK a \in Proc : /\ Node[a] = Node[p]
                          /\ \E d \in Abroad(sends, a, s) : \E k \in DOMAIN Orig(sends, a, s)[d] :
                               /\ e = Entry(sends, a, s, d, k)
                               /\ p = InCharge(sends, Node[p], s, Node[d])
    BY EntryAt
  <2>2. PICK d \in Abroad(sends, a, s) : \E k \in DOMAIN Orig(sends, a, s)[d] :
           e = Entry(sends, a, s, d, k)
    BY <2>1
  <2>3. PICK k \in DOMAIN Orig(sends, a, s)[d] : e = Entry(sends, a, s, d, k)
    BY <2>2
  <2>4. e[1] = Orig(sends, a, s)[d][k] /\ e[2] = Node[d]
    BY <2>3 DEF Entry
  <2>5. <<a, d>> \in Pairs(sends, Node[p], s, n)
    BY <1>2, <2>1, <2>4, AbroadPair
  <2>6. e[1] \in Range(Orig(sends, a, s)[d])
    BY <2>4 DEF Range
  <2>. QED  BY <2>5, <2>6 DEF Exchanged
<1>3. ASSUME NEW i \in Exchanged(sends, Node[p], s, n)
      PROVE  \E e \in EntriesAt(sends, p, s) : e[2] = n /\ e[1] = i
  <2>1. PICK w \in Pairs(sends, Node[p], s, n) : i \in Range(Orig(sends, w[1], s)[w[2]])
    BY DEF Exchanged
  <2>2. PICK a \in Proc, d \in Proc : w = <<a, d>>
    BY DEF Pairs
  <2>3. d \in Abroad(sends, a, s) /\ Node[a] = Node[p] /\ Node[d] = n
    BY <1>0, <2>2, AbroadPair
  <2>4. PICK k \in DOMAIN Orig(sends, a, s)[d] : i = Orig(sends, a, s)[d][k]
    BY <2>1, <2>2 DEF Range
  <2>5. Entry(sends, a, s, d, k) \in EntriesAt(sends, p, s)
    BY <1>0, <2>3, GoesThrough
  <2>6. Entry(sends, a, s, d, k)[2] = n /\ Entry(sends, a, s, d, k)[1] = i
    BY <2>3, <2>4 DEF Entry
  <2>. QED  BY <2>5, <2>6
<1>. QED  BY <1>1, <1>2, <1>3

(* The exchange of two nodes, seen from both. *)
LEMMA BothSides ==
  ASSUME NEW sends, IsRequest(sends), NEW s \in Sides, NEW n \in Nodes, NEW m \in Nodes
  PROVE  /\ m \in Partners(sends, n, s) <=> n \in Partners(sends, m, Other(s))
         /\ Exchanged(sends, n, s, m) = Exchanged(sends, m, Other(s), n)
<1>1. Other(s) \in Sides /\ Other(Other(s)) = s
  BY DEF Other, Sides
<1>2. \A t \in Sides : \A a, d \in Proc : \A k, l \in Nodes :
        <<a, d>> \in Pairs(sends, k, t, l) =>
          /\ <<d, a>> \in Pairs(sends, l, Other(t), k)
          /\ Orig(sends, a, t)[d] = Orig(sends, d, Other(t))[a]
  BY OrigIs DEF Pairs
<1>3. \A t \in Sides : \A k, l \in Nodes : \A w \in Pairs(sends, k, t, l) :
        \E a, d \in Proc : w = <<a, d>>
  BY DEF Pairs
<1>4. ASSUME NEW t \in Sides, NEW k \in Nodes, NEW l \in Nodes, l \in Partners(sends, k, t)
      PROVE  k \in Partners(sends, l, Other(t))
  <2>1. Pairs(sends, k, t, l) # {} /\ k # l
    BY <1>4 DEF Partners
  <2>2. PICK a \in Proc, d \in Proc : <<a, d>> \in Pairs(sends, k, t, l)
    BY <1>3, <2>1
  <2>3. <<d, a>> \in Pairs(sends, l, Other(t), k)
    BY <1>2, <2>2
  <2>. QED  BY <2>1, <2>3 DEF Partners
<1>5. ASSUME NEW t \in Sides, NEW k \in Nodes, NEW l \in Nodes, NEW i \in Exchanged(sends, k, t, l)
      PROVE  i \in Exchanged(sends, l, Other(t), k)
  <2>1. PICK w \in Pairs(sends, k, t, l) : i \in Range(Orig(sends, w[1], t)[w[2]])
    BY DEF Exchanged
  <2>2. PICK a \in Proc, d \in Proc : w = <<a, d>>
    BY <1>3
  <2>3. PICK v : v = <<d, a>>
    OBVIOUS
  <2>4. /\ v \in Pairs(sends, l, Other(t), k)
        /\ Orig(sends, w[1], t)[w[2]] = Orig(sends, v[1], Other(t))[v[2]]
    BY <1>2, <2>2, <2>3
  <2>. QED  BY <2>1, <2>4 DEF Exchanged
<1>. QED  BY <1>1, <1>4, <1>5
-----------------------------------------------------------------------------
(* The ranks in charge find each other. *)
LEMMA ToldCharge ==
  ASSUME NEW sends, IsRequest(sends), NEW s \in Sides, NEW q \in Proc, NEW n \in Nodes
  PROVE  Told(sends, q, s)[n] =
           IF /\ Node[q] \in Partners(sends, n, s)
              /\ InCharge(sends, n, s, Node[q]) = Place[n][Local[q]]
           THEN Place[n][Local[q]] ELSE 0
<1>1. Local[q] \in LocalRanks /\ Node[q] \in Nodes /\ Place[Node[q]][Local[q]] = q
  BY Placed
<1>2. PICK r \in Proc : r = Place[n][Local[q]] /\ Node[r] = n /\ Local[r] = Local[q]
  BY <1>1, PlaceOf
<1>3. r \in AnnouncersOf(sends, q, s) <=> Node[q] \in DOMAIN GlobalOf(sends, r, s)
  <2>1. r \in AnnouncersOf(sends, q, s) => Node[q] \in DOMAIN GlobalOf(sends, r, s)
    BY AnnouncersAre
  <2>2. Node[q] \in DOMAIN GlobalOf(sends, r, s) => r \in AnnouncersOf(sends, q, s)
    BY <1>1, <1>2 DEF AnnouncersOf
  <2>. QED  BY <2>1, <2>2
<1>4. Node[q] \in DOMAIN GlobalOf(sends, r, s) <=>
        Node[q] \in Partners(sends, n, s) /\ InCharge(sends, n, s, Node[q]) = r
  BY <1>2, GlobalIs
<1>5. Told(sends, q, s)[n] = IF r \in AnnouncersOf(sends, q, s) THEN r ELSE 0
  BY <1>2 DEF Told
<1>. QED  BY <1>2, <1>3, <1>4, <1>5

LEMMA LargestTold ==
  ASSUME NEW sends, IsRequest(sends), NEW s \in Sides, NEW p \in Proc, NEW n \in Nodes,
         Node[p] \in Partners(sends, n, s)
  PROVE  Max({ Told(sends, q, s)[n] : q \in Mates(p) }) = InCharge(sends, n, s, Node[p])
<1> DEFINE T == { Told(sends, q, s)[n] : q \in Mates(p) }
<1>1. PICK x \in Proc : x = InCharge(sends, n, s, Node[p]) /\ Node[x] = n
  BY InChargeIs
<1>2. Local[x] \in LocalRanks /\ Place[n][Local[x]] = x /\ Node[p] \in Nodes
  BY <1>1, Placed
<1>3. \A q \in Mates(p) : Told(sends, q, s)[n] = IF x = Place[n][Local[q]] THEN x ELSE 0
  <2>1. ASSUME NEW q \in Mates(p)
        PROVE  Told(sends, q, s)[n] = IF x = Place[n][Local[q]] THEN x ELSE 0
    <3>1. q \in Proc /\ Node[q] = Node[p]
      BY MatesOf
    <3>. QED  BY <1>1, <3>1, ToldCharge
  <2>. QED  BY <2>1
<1>4. x \in T
  <2>1. PICK q \in Proc : q = Place[Node[p]][Local[x]] /\ Node[q] = Node[p] /\ Local[q] = Local[x]
    BY <1>2, PlaceOf
  <2>2. q \in Mates(p)
    BY <2>1, MatesOf
  <2>3. Told(sends, q, s)[n] = x
    BY <1>2, <1>3, <2>1, <2>2
  <2>. QED  BY <2>2, <2>3
<1>5. \A y \in T : y = x \/ y = 0
  BY <1>3
<1> HIDE DEF T
<1>6. x \in Nat
  BY Ranks
<1>7. Max(T) = CHOOSE y \in T : \A z \in T : y >= z
  BY DEF Max
<1>8. x \in T /\ \A z \in T : x >= z
  BY <1>4, <1>5, <1>6
<1>9. \A y \in T : (\A z \in T : y >= z) => y = x
  BY <1>4, <1>5, <1>6
<1>10. Max(T) = x
  BY <1>7, <1>8, <1>9
<1>. QED  BY <1>1, <1>10 DEF T

(* When a rank finishes its plan, its node has been told of the same call. *)
LEMMA NodeTold ==
  ASSUME Typed, Skew, LearnedIs, NEW p \in Proc, FinishPlan(p), NEW q \in Mates(p), NEW s \in Sides
  PROVE  learned[q][s] = Told(Asked(call[p]), q, s)
<1>1. /\ call[p] \in Calls /\ Progress(p) = When(call[p], "nodes", "R") /\ q \in Proc /\ p \in Mates(q)
      /\ Progress(q) >= Progress(p) /\ NumCalls \in Nat /\ Calls \subseteq Nat
  BY FinishGoes, CallsAre, MatesOf DEF FinishPlan, AllEntered
<1>2. PICK c \in Nat : c = call[p] /\ c >= 1 /\ c <= NumCalls
  BY <1>1 DEF Calls
<1>3. PICK d \in Nat : d = c + 1
  OBVIOUS
<1>4. /\ When(c, "nodes", "R") = 12 * c + 11 /\ When(d, "form", "S") = 12 * d + 2
      /\ When(d, "sizes", "S") = 12 * d + 1 /\ When(d, "probe", "R") = 12 * d + 6
  BY WhenIs
<1>5. Progress(q) \in Nat
  BY <1>1, ProgressIs
<1>6. Progress(q) < When(d, "form", "S")
  <2>1. CASE d \in Calls
    <3>1. Progress(q) >= When(d, "form", "S") => Progress(p) >= When(d, "sizes", "S")
      BY <1>1, <2>1 DEF Skew, Sides
    <3>. QED  BY <1>1, <1>2, <1>3, <1>4, <1>5, <3>1
  <2>2. CASE d \notin Calls
    <3>1. call[q] \in 0 .. NumCalls /\ Progress(q) = 12 * call[q] + Pos(at[q]) /\ Pos(at[q]) \in 1 .. 12
      BY <1>1, ProgressIs
    <3>2. c = NumCalls
      BY <1>1, <1>2, <1>3, <2>2 DEF Calls
    <3>3. PICK x \in Nat, y \in 1 .. 12 : x <= c /\ Progress(q) = 12 * x + y
      BY <1>1, <3>1, <3>2
    <3>. QED  BY <1>3, <1>4, <3>3
  <2>. QED  BY <2>1, <2>2
<1>7. Progress(q) > When(c, "learn", s) /\ Progress(q) <= When(c + 1, "probe", "R")
  <2>1. When(c, "learn", s) = 12 * c + (IF s = "S" THEN 8 ELSE 10)
    BY TellingTime
  <2>. QED  BY <1>1, <1>2, <1>3, <1>4, <1>5, <1>6, <2>1
<1>. QED  BY <1>1, <1>2, <1>7 DEF LearnedIs

LEMMA CounterpartIs ==
  ASSUME Typed, Skew, LearnedIs, NEW p \in Proc, FinishPlan(p), NEW s \in Sides,
         NEW n \in DOMAIN GlobalOf(Asked(call[p]), p, s)
  PROVE  Counterpart(p, s, n) = InCharge(Asked(call[p]), n, Other(s), Node[p])
<1>1. PICK sends : sends = Asked(call[p]) /\ IsRequest(sends)
  BY FinishGoes, CallsAre
<1>2. n \in Nodes /\ n \in Partners(sends, Node[p], s) /\ Node[p] \in Nodes
  BY <1>1, GlobalNodes, GlobalIs, Placed
<1>3. Other(s) \in Sides /\ Node[p] \in Partners(sends, n, Other(s))
  BY <1>1, <1>2, BothSides DEF Other, Sides
<1>4. \A q \in Mates(p) : learned[q][Other(s)][n] = Told(sends, q, Other(s))[n]
  BY <1>1, <1>3, NodeTold
<1>5. { learned[q][Other(s)][n] : q \in Mates(p) } = { Told(sends, q, Other(s))[n] : q \in Mates(p) }
  BY <1>4
<1>6. Counterpart(p, s, n) = Max({ learned[q][Other(s)][n] : q \in Mates(p) })
  BY DEF Counterpart, Largest, Other
<1>. QED  BY <1>1, <1>2, <1>3, <1>5, <1>6, LargestTold

LEMMA HalvesMade ==
  ASSUME Typed, HalfIs, NEW p \in Proc, FinishPlan(p), NEW s \in Sides
  PROVE  /\ half[p][call[p]][s].send = SendData(Asked(call[p]), p, s)
         /\ half[p][call[p]][s].local = LocalData(Asked(call[p]), p, s)
         /\ half[p][call[p]][s].recv = RecvOf(Asked(call[p]), p, s)
         /\ half[p][call[p]][s].global = GlobalOf(Asked(call[p]), p, s)
<1>1. call[p] \in Calls /\ Progress(p) = When(call[p], "nodes", "R") /\ call[p] \in Nat
  BY FinishGoes, ProgressIs
<1>2. PICK c \in Nat : c = call[p]
  BY <1>1
<1>3. /\ When(c, "nodes", "R") = When(c, "find", "R") + 2 /\ When(c, "form", s) = When(c, "sizes", s) + 1
      /\ When(c, "probe", s) = When(c, "sizes", s) + 2
      /\ When(c, "sizes", s) = 12 * c + (IF s = "S" THEN 1 ELSE 4)
      /\ When(c, "find", "R") = 12 * c + 9
  <2>1. "R" \in Sides
    BY DEF Sides
  <2>. QED  BY <2>1, NextWhen, WhenIs, SideCases
<1>4. Progress(p) >= When(c, "form", s) /\ Progress(p) > When(c, "probe", s)
  BY <1>1, <1>2, <1>3
<1>. QED  BY <1>1, <1>2, <1>4, HalfValue

LEMMA UpdateIndicesIs ==
  ASSUME Typed, HalfIs, Skew, LearnedIs, NEW p \in Proc, FinishPlan(p)
  PROVE  UpdateIndices(p) = PlanOf(Asked(call[p]), p)
<1>1. PICK sends : sends = Asked(call[p])
  OBVIOUS
<1>2. PICK S, R : S = half[p][call[p]]["S"] /\ R = half[p][call[p]]["R"]
  OBVIOUS
<1>3. /\ S.send = SendData(sends, p, "S") /\ S.local = LocalData(sends, p, "S")
      /\ S.recv = RecvOf(sends, p, "S") /\ S.global = GlobalOf(sends, p, "S")
  BY <1>1, <1>2, HalvesMade DEF Sides
<1>4. /\ R.send = SendData(sends, p, "R") /\ R.local = LocalData(sends, p, "R")
      /\ R.recv = RecvOf(sends, p, "R") /\ R.global = GlobalOf(sends, p, "R")
  BY <1>1, <1>2, HalvesMade DEF Sides
<1>5. Procs(p, "S") = [n \in DOMAIN GlobalOf(sends, p, "S") |-> InCharge(sends, n, "R", Node[p])]
  <2>1. \A n \in DOMAIN GlobalOf(sends, p, "S") : Counterpart(p, "S", n) = InCharge(sends, n, "R", Node[p])
    BY <1>1, CounterpartIs DEF Other, Sides
  <2>. QED  BY <1>2, <1>3, <2>1 DEF Procs
<1>6. Procs(p, "R") = [n \in DOMAIN GlobalOf(sends, p, "R") |-> InCharge(sends, n, "S", Node[p])]
  <2>1. \A n \in DOMAIN GlobalOf(sends, p, "R") : Counterpart(p, "R", n) = InCharge(sends, n, "S", Node[p])
    BY <1>1, CounterpartIs DEF Other, Sides
  <2>. QED  BY <1>2, <1>4, <2>1 DEF Procs
<1>7. UpdateIndices(p) =
        [sSend |-> MapIndices(RemoveDuplicates(S.send), Orig(sends, p, "S")),
         sRecv |-> RemoveDuplicates(S.recv),
         gSend |-> MapIndices(RemoveDuplicates(S.global), RemoveDuplicates(S.recv)),
         gRecv |-> RemoveDuplicates(R.global),
         rSend |-> MapIndices(RemoveDuplicates(R.recv), RemoveDuplicates(R.global)),
         rRecv |-> MapIndices(RemoveDuplicates(R.send), Orig(sends, p, "R")),
         lSend |-> MapIndices(S.local, Orig(sends, p, "S")),
         lRecv |-> MapIndices(R.local, Orig(sends, p, "R")),
         to    |-> Procs(p, "S"),
         from  |-> Procs(p, "R")]
  BY <1>1, <1>2 DEF UpdateIndices
<1>8. PlanOf(sends, p) =
        [sSend |-> MapIndices(RemoveDuplicates(S.send), Orig(sends, p, "S")),
         sRecv |-> RemoveDuplicates(S.recv),
         gSend |-> MapIndices(RemoveDuplicates(S.global), RemoveDuplicates(S.recv)),
         gRecv |-> RemoveDuplicates(R.global),
         rSend |-> MapIndices(RemoveDuplicates(R.recv), RemoveDuplicates(R.global)),
         rRecv |-> MapIndices(RemoveDuplicates(R.send), Orig(sends, p, "R")),
         lSend |-> MapIndices(S.local, Orig(sends, p, "S")),
         lRecv |-> MapIndices(R.local, Orig(sends, p, "R")),
         to    |-> Procs(p, "S"),
         from  |-> Procs(p, "R")]
  BY <1>3, <1>4, <1>5, <1>6 DEF PlanOf
<1>. QED  BY <1>1, <1>7, <1>8

LEMMA PlansKept ==
  ASSUME Typed, HalfIs, Skew, Recorded, LearnedIs, PlansAre, NEW p \in Proc, Step(p)
  PROVE  PlansAre'
<1>1. \A c, q : PlanOf(Asked(c), q)' = PlanOf(Asked(c), q)
  <2>1. \A c : Asked(c)' = Asked(c)
    BY StepMoves, AskedKept
  <2>. QED  BY <2>1
<1>2. CASE ~ FinishPlan(p)
  <2>1. plan' = plan
    BY <1>2 DEF Step, InitLocality, MapProcsToNodes, FormAllreduce, FormProbe, FormGlobal, FindAllreduce,
                LearnProbe, Learned
  <2>. QED  BY <1>1, <2>1 DEF PlansAre
<1>3. CASE FinishPlan(p)
  <2>1. PICK u : u = UpdateIndices(p)
    OBVIOUS
  <2>2. plan' = [plan EXCEPT ![p] = Append(plan[p], u)]
    BY <1>3, <2>1 DEF FinishPlan
  <2>3. u = PlanOf(Asked(call[p]), p)
    BY <1>3, <2>1, UpdateIndicesIs
  <2>4. Len(plan[p]) + 1 = call[p] /\ Len(plan[p]) \in Nat
    <3>1. ~ In(p, "idle") /\ call[p] \in Nat
      BY <1>3, ProgressIs DEF FinishPlan, In
    <3>2. Len(plan[p]) = call[p] - 1
      BY <3>1 DEF Recorded
    <3>3. PICK T : plan[p] \in Seq(T)
      BY DEF Recorded
    <3>. QED  BY <3>1, <3>2, <3>3
  <2>5. PICK T : plan[p] \in Seq(T)
    BY DEF Recorded
  <2>6. /\ Len(Append(plan[p], u)) = call[p]
        /\ \A c \in 1 .. Len(plan[p]) : Append(plan[p], u)[c] = plan[p][c]
        /\ Append(plan[p], u)[call[p]] = u
    <3>1. PICK f : f = plan[p] /\ f \in Seq(T)
      BY <2>5
    <3>2. f \in Seq(T \cup {u})
      BY <3>1
    <3>3. /\ Len(Append(f, u)) = Len(f) + 1 /\ Append(f, u)[Len(f) + 1] = u
          /\ \A c \in 1 .. Len(f) : Append(f, u)[c] = f[c]
      BY <3>2
    <3>. QED  BY <2>4, <3>1, <3>3
  <2>7. DOMAIN plan = Proc
    BY DEF Recorded
  <2>8. ASSUME NEW q \in Proc, NEW c \in 1 .. Len(plan'[q]) PROVE plan'[q][c] = PlanOf(Asked(c), q)
    <3>1. CASE q # p
      <4>1. plan'[q] = plan[q]
        BY <2>2, <2>7, <3>1
      <4>. QED  BY <4>1 DEF PlansAre
    <3>2. CASE q = p
      <4>1. plan'[q] = Append(plan[p], u)
        BY <2>2, <2>7, <3>2
      <4>2. CASE c = call[p]
        BY <2>3, <2>6, <3>2, <4>1, <4>2
      <4>3. CASE c # call[p]
        <5>1. c \in 1 .. Len(plan[p])
          BY <2>4, <2>6, <4>1, <4>3
        <5>2. plan'[q][c] = plan[p][c]
          BY <2>6, <4>1, <5>1
        <5>. QED  BY <3>2, <5>1, <5>2 DEF PlansAre
      <4>. QED  BY <4>2, <4>3
    <3>. QED  BY <3>1, <3>2
  <2>. QED  BY <1>1, <2>8 DEF PlansAre
<1>. QED  BY <1>2, <1>3

(* What the ranks are told of a call, and their finished plans, follow from   *)
(* what all ranks are asked to send in it, whatever the order of the steps.   *)
THEOREM PlansFollow ==
  ASSUME EnoughTags
  PROVE  Spec => [](LearnedIs /\ PlansAre)
<1>1. Init => LearnedIs /\ PlansAre
  <2> SUFFICES ASSUME Init PROVE LearnedIs /\ PlansAre
    OBVIOUS
  <2>1. Typed
    BY InitIInv DEF IInv
  <2>2. \A p \in Proc : Progress(p) = 12
    <3>1. ASSUME NEW p \in Proc PROVE Progress(p) = 12
      <4>1. Progress(p) = 12 * call[p] + Pos(at[p]) /\ call[p] = 0 /\ at[p] = <<"idle", "R">>
        BY <2>1, ProgressIs DEF Init
      <4>. QED  BY <4>1, PosIs
    <3>. QED  BY <3>1
  <2>3. ASSUME NEW c \in Calls, NEW s \in Sides
        PROVE  ~ (12 > When(c, "learn", s)) /\ ~ (12 >= When(c, "find", "S"))
    <3>1. c \in Int /\ c >= 1
      BY DEF Calls
    <3>2. When(c, "find", "S") = 12 * c + 7 /\ When(c, "learn", s) = 12 * c + (IF s = "S" THEN 8 ELSE 10)
      BY <3>1, TellingTime
    <3>. QED  BY <3>1, <3>2
  <2>4. LearnedIs
    BY <2>2, <2>3 DEF LearnedIs
  <2>5. \A p \in Proc : Len(plan[p]) = 0
    BY DEF Init
  <2>. QED  BY <2>4, <2>5 DEF PlansAre
<1>2. IInv /\ LearnedIs /\ PlansAre /\ [Next]_vars => LearnedIs' /\ PlansAre'
  <2> SUFFICES ASSUME IInv, LearnedIs, PlansAre, [Next]_vars PROVE LearnedIs' /\ PlansAre'
    OBVIOUS
  <2>1. /\ Typed /\ HalfIs /\ TagsAre /\ Skew /\ InFlight /\ GotIs /\ NoneLost /\ Recorded
    BY DEF IInv
  <2>2. CASE UNCHANGED vars
    <3>1. UNCHANGED <<input, call, at, got, learned, plan>>
      BY <2>2 DEF vars
    <3>2. Calls' = Calls /\ \A c : Asked(c)' = Asked(c)
      BY <3>1, AskedKept
    <3>3. \A p : Progress(p)' = Progress(p)
      BY <3>1 DEF Progress
    <3>4. \A p, s : ToldSoFar(p, s)' = ToldSoFar(p, s)
      BY <3>1 DEF ToldSoFar
    <3>5. \A c, p, s : Told(Asked(c), p, s)' = Told(Asked(c), p, s)
      BY <3>2
    <3>6. \A c, p : PlanOf(Asked(c), p)' = PlanOf(Asked(c), p)
      BY <3>2
    <3>7. LearnedIs'
      BY <3>1, <3>2, <3>3, <3>4, <3>5 DEF LearnedIs
    <3>8. PlansAre'
      BY <3>1, <3>6 DEF PlansAre
    <3>. QED  BY <3>7, <3>8
  <2>3. ASSUME NEW p \in Proc, Step(p) PROVE LearnedIs' /\ PlansAre'
    BY <2>1, <2>3, LearnedKept, PlansKept DEF Recorded
  <2>. QED  BY <2>2, <2>3 DEF Next, AllReturned
<1>. QED  BY <1>1, <1>2, PlanInvariant, PTL DEF Spec
-----------------------------------------------------------------------------
(* The indices of a message, and where they are in a buffer. *)
Indices(X) == { e[1] : e \in X }
Ascending(I) == Sorted(I, [i \in I |-> { j \in I : j < i }])

LEMMA RemoveDuplicatesIs ==
  ASSUME NEW data
  PROVE  /\ DOMAIN RemoveDuplicates(data) = DOMAIN data
         /\ \A q \in DOMAIN data : RemoveDuplicates(data)[q] = Ascending(Indices(data[q]))
<1>1. RemoveDuplicates(data) = [q \in DOMAIN data |-> Ascending(Indices(data[q]))]
  BY DEF RemoveDuplicates, Ascending, Indices
<1>. QED  BY <1>1

LEMMA AscendingIs ==
  ASSUME NEW I, IsFiniteSet(I), I \subseteq Nat
  PROVE  /\ Cardinality(I) \in Nat /\ Ascending(I) \in Seq(Nat) /\ Len(Ascending(I)) = Cardinality(I)
         /\ DOMAIN Ascending(I) = 1 .. Cardinality(I)
         /\ Ascending(I) = [k \in DOMAIN Ascending(I) |-> Ascending(I)[k]]
         /\ \A k \in DOMAIN Ascending(I) : Ascending(I)[k] \in I
         /\ \A i \in I : \E k \in DOMAIN Ascending(I) : Ascending(I)[k] = i
         /\ \A j, k \in DOMAIN Ascending(I) : Ascending(I)[j] = Ascending(I)[k] => j = k
<1> DEFINE before == [i \in I |-> { j \in I : j < i }]
<1>1. IsOrder(I, before)
  <2>1. before \in [I -> SUBSET I]
    OBVIOUS
  <2>2. \A d, e \in I : d \in before[e] <=> d < e
    OBVIOUS
  <2> HIDE DEF before
  <2>3. \A e \in I : e \notin before[e]
    <3>1. ASSUME NEW e \in I PROVE e \notin before[e]
      <4>1. e \in Nat /\ ~ (e < e)
        OBVIOUS
      <4>2. e \in before[e] <=> e < e
        BY <2>2
      <4>. QED  BY <4>1, <4>2
    <3>. QED  BY <3>1
  <2>4. \A d, e \in I : d = e \/ d \in before[e] \/ e \in before[d]
    BY <2>2
  <2>5. ASSUME NEW d \in I, NEW e \in I, d \in before[e], NEW x \in before[d] PROVE x \in before[e]
    <3>1. x \in I
      BY <2>1
    <3>. QED  BY <2>2, <2>5, <3>1
  <2>. QED  BY <2>1, <2>3, <2>4, <2>5 DEF IsOrder
<1>2. Ascending(I) = Sorted(I, before)
  BY DEF Ascending
<1> HIDE DEF before
<1>3. PICK f : f = Sorted(I, before)
  OBVIOUS
<1>4. /\ Cardinality(I) \in Nat /\ DOMAIN f = 1 .. Cardinality(I)
      /\ \A k \in DOMAIN f : f[k] \in I
      /\ \A i \in I : \E k \in DOMAIN f : f[k] = i
      /\ \A j, k \in DOMAIN f : f[j] = f[k] => j = k
  BY <1>1, <1>3, SortedIs
<1>5. f = [k \in 1 .. Cardinality(I) |-> f[k]]
  BY <1>3, <1>4 DEF Sorted
<1>6. f \in Seq(Nat) /\ Len(f) = Cardinality(I)
  <2>1. PICK n \in Nat : n = Cardinality(I)
    BY <1>4
  <2>2. f \in [1 .. n -> Nat]
    BY <1>4, <1>5, <2>1
  <2>3. f \in Seq(Nat) /\ DOMAIN f = 1 .. n
    BY <2>2, SeqDef
  <2>4. Len(f) = n
    BY <2>3
  <2>. QED  BY <2>1, <2>3, <2>4
<1>. QED  BY <1>2, <1>3, <1>4, <1>5, <1>6

LEMMA PositionIs ==
  ASSUME NEW data, NEW q \in DOMAIN data, NEW k \in DOMAIN data[q]
  PROVE  \E d \in DOMAIN data : \E j \in DOMAIN data[d] :
           PositionIn(data, data[q][k]) = <<d, j>> /\ data[d][j] = data[q][k]
<1> DEFINE idx == data[q][k]
           all == UNION { {d} \X (DOMAIN data[d]) : d \in DOMAIN data }
           places == { pos \in all : data[pos[1]][pos[2]] = idx }
<1>1. \A pos : pos \in all <=> \E d \in DOMAIN data : \E j \in DOMAIN data[d] : pos = <<d, j>>
  OBVIOUS
<1>2. <<q, k>> \in places
  BY <1>1
<1>3. PositionIn(data, idx) = CHOOSE pos \in places : TRUE
  <2>1. PositionIn(data, idx) = IF places = {} THEN Nowhere ELSE CHOOSE pos \in places : TRUE
    BY DEF PositionIn
  <2> HIDE DEF places
  <2>. QED  BY <1>2, <2>1
<1>4. PositionIn(data, idx) \in places
  <2> HIDE DEF places, idx
  <2>. QED  BY <1>2, <1>3
<1>5. PICK pos : pos = PositionIn(data, idx)
  OBVIOUS
<1>6. pos \in all /\ data[pos[1]][pos[2]] = idx
  BY <1>4, <1>5
<1> HIDE DEF all
<1>7. PICK d \in DOMAIN data : \E j \in DOMAIN data[d] : pos = <<d, j>>
  BY <1>1, <1>6
<1>8. PICK j \in DOMAIN data[d] : pos = <<d, j>>
  BY <1>7
<1>9. data[d][j] = idx
  BY <1>6, <1>8
<1>. QED  BY <1>5, <1>8, <1>9

(* A buffer holds an index. *)
Holds(buf, i) == \E d \in DOMAIN buf : \E j \in DOMAIN buf[d] : buf[d][j] = i

(* Packed as MapIndices tells, a message holds the indices it was made for. *)
LEMMA Packed ==
  ASSUME NEW data, NEW buf, NEW q \in DOMAIN data, \A k \in DOMAIN data[q] : Holds(buf, data[q][k]),
         data[q] = [k \in DOMAIN data[q] |-> data[q][k]]
  PROVE  /\ q \in DOMAIN MapIndices(data, buf)
         /\ PickFor(buf, MapIndices(data, buf), q) = data[q]
<1> DEFINE M == MapIndices(data, buf)
<1>1. /\ q \in DOMAIN M /\ DOMAIN M[q] = DOMAIN data[q]
      /\ \A k \in DOMAIN data[q] : M[q][k] = PositionIn(buf, data[q][k])
  BY DEF MapIndices
<1> HIDE DEF M
<1>2. ASSUME NEW k \in DOMAIN data[q]
      PROVE  (IF M[q][k][1] \in DOMAIN buf /\ M[q][k][2] \in DOMAIN buf[M[q][k][1]]
              THEN buf[M[q][k][1]][M[q][k][2]] ELSE Lost) = data[q][k]
  <2>1. PICK d \in DOMAIN buf : \E j \in DOMAIN buf[d] : buf[d][j] = data[q][k]
    BY DEF Holds
  <2>2. PICK j \in DOMAIN buf[d] : buf[d][j] = data[q][k]
    BY <2>1
  <2>3. PICK e \in DOMAIN buf : \E i \in DOMAIN buf[e] :
           PositionIn(buf, buf[d][j]) = <<e, i>> /\ buf[e][i] = buf[d][j]
    BY PositionIs
  <2>4. PICK i \in DOMAIN buf[e] : PositionIn(buf, buf[d][j]) = <<e, i>> /\ buf[e][i] = buf[d][j]
    BY <2>3
  <2>5. M[q][k] = <<e, i>>
    BY <1>1, <2>2, <2>4
  <2>. QED  BY <2>2, <2>4, <2>5
<1>3. Pick(buf, M[q]) = [k \in DOMAIN data[q] |-> data[q][k]]
  BY <1>1, <1>2 DEF Pick
<1>. QED  BY <1>1, <1>3 DEF M, PickFor
-----------------------------------------------------------------------------
(* What the buffers of a plan hold. *)
LEMMA IndicesAre ==
  ASSUME NEW X, IsFiniteSet(X), \A e \in X : e[1] \in Nat
  PROVE  IsFiniteSet(Indices(X)) /\ Indices(X) \subseteq Nat
<1> DEFINE h == [e \in X |-> e[1]]
<1>1. h \in Surjection(X, Indices(X))
  BY DEF Surjection, Indices
<1>2. IsFiniteSet(Indices(X))
  <2> HIDE DEF h
  <2>. QED  BY <1>1, FS_Surjection
<1>. QED  BY <1>2 DEF Indices

LEMMA HandedIndices ==
  ASSUME NEW sends, IsRequest(sends), NEW s \in Sides, NEW a \in Proc, NEW p \in DOMAIN SendData(sends, a, s)
  PROVE  /\ IsFiniteSet(Indices(SendData(sends, a, s)[p])) /\ Indices(SendData(sends, a, s)[p]) \subseteq Nat
         /\ \A e \in SendData(sends, a, s)[p] : e[1] \in Nat
<1>1. IsFiniteSet(SendData(sends, a, s)[p]) /\ SendData(sends, a, s)[p] \subseteq Entries(sends, a, s)
  BY HandedIs
<1>2. \A e \in SendData(sends, a, s)[p] : e[1] \in Nat
  BY <1>1 DEF Entries
<1>. QED  BY <1>1, <1>2, IndicesAre

LEMMA EntriesAtFinite ==
  ASSUME NEW sends, IsRequest(sends), NEW s \in Sides, NEW p \in Proc
  PROVE  IsFiniteSet(EntriesAt(sends, p, s)) /\ \A e \in EntriesAt(sends, p, s) : e[1] \in Nat
<1> DEFINE Q == Senders(sends, p, s)
           F == { SendData(sends, q, s)[p] : q \in Q }
           h == [q \in Q |-> SendData(sends, q, s)[p]]
<1>1. IsFiniteSet(Q)
  <2>1. Q \in SUBSET Proc
    BY DEF Senders
  <2>. QED  BY <2>1, Ranks, FS_Subset
<1>2. h \in Surjection(Q, F)
  BY DEF Surjection
<1>3. IsFiniteSet(F)
  <2> HIDE DEF h, Q, F
  <2>. QED  BY <1>1, <1>2, FS_Surjection
<1>4. \A X \in F : IsFiniteSet(X)
  BY SendersAre
<1>5. UNION F = EntriesAt(sends, p, s)
  BY DEF EntriesAt
<1>6. IsFiniteSet(UNION F)
  <2> HIDE DEF F
  <2>. QED  BY <1>3, <1>4, FS_UNION
<1>7. ASSUME NEW e \in EntriesAt(sends, p, s) PROVE e[1] \in Nat
  <2>1. PICK q \in Q : e \in SendData(sends, q, s)[p]
    BY DEF EntriesAt
  <2>2. q \in Proc /\ p \in DOMAIN SendData(sends, q, s)
    BY DEF Senders
  <2>. QED  BY <2>1, <2>2, HandedIndices
<1>. QED  BY <1>5, <1>6, <1>7

LEMMA GlobalIndices ==
  ASSUME NEW sends, IsRequest(sends), NEW s \in Sides, NEW p \in Proc, NEW n \in DOMAIN GlobalOf(sends, p, s)
  PROVE  /\ IsFiniteSet(Indices(GlobalOf(sends, p, s)[n])) /\ Indices(GlobalOf(sends, p, s)[n]) \subseteq Nat
         /\ GlobalOf(sends, p, s)[n] = { e \in EntriesAt(sends, p, s) : e[2] = n }
         /\ Indices(GlobalOf(sends, p, s)[n]) = Exchanged(sends, Node[p], s, n)
<1>1. GlobalOf(sends, p, s)[n] = { e \in EntriesAt(sends, p, s) : e[2] = n }
  BY DEF GlobalOf
<1>2. /\ IsFiniteSet(GlobalOf(sends, p, s)[n])
      /\ \A e \in GlobalOf(sends, p, s)[n] : e[1] \in Nat
  BY <1>1, EntriesAtFinite, FS_Subset
<1>3. Indices(GlobalOf(sends, p, s)[n]) = Exchanged(sends, Node[p], s, n)
  BY GlobalHolds DEF Indices
<1>. QED  BY <1>1, <1>2, <1>3, IndicesAre

LEMMA RecvOfIs ==
  ASSUME NEW sends, IsRequest(sends), NEW s \in Sides, NEW p \in Proc
  PROVE  /\ DOMAIN RecvOf(sends, p, s) = Senders(sends, p, s)
         /\ \A q \in Senders(sends, p, s) :
              /\ q \in Proc /\ p \in DOMAIN SendData(sends, q, s)
              /\ RecvOf(sends, p, s)[q] = SendData(sends, q, s)[p]
              /\ RemoveDuplicates(RecvOf(sends, p, s))[q] = RemoveDuplicates(SendData(sends, q, s))[p]
         /\ \A q \in Proc : p \in DOMAIN SendData(sends, q, s) <=> q \in Senders(sends, p, s)
<1>1. DOMAIN RecvOf(sends, p, s) = Senders(sends, p, s)
  BY DEF RecvOf
<1>2. \A q \in Senders(sends, p, s) : /\ q \in Proc /\ p \in DOMAIN SendData(sends, q, s)
                                      /\ RecvOf(sends, p, s)[q] = SendData(sends, q, s)[p]
  BY DEF RecvOf, Senders
<1>3. ASSUME NEW q \in Senders(sends, p, s)
      PROVE  RemoveDuplicates(RecvOf(sends, p, s))[q] = RemoveDuplicates(SendData(sends, q, s))[p]
  <2>1. RemoveDuplicates(RecvOf(sends, p, s))[q] = Ascending(Indices(SendData(sends, q, s)[p]))
    BY <1>1, <1>2, RemoveDuplicatesIs
  <2>2. RemoveDuplicates(SendData(sends, q, s))[p] = Ascending(Indices(SendData(sends, q, s)[p]))
    BY <1>2, RemoveDuplicatesIs
  <2>. QED  BY <2>1, <2>2
<1>4. \A q \in Proc : p \in DOMAIN SendData(sends, q, s) <=> q \in Senders(sends, p, s)
  BY DEF Senders
<1>. QED  BY <1>1, <1>2, <1>3, <1>4

(* The user's buffer holds what is handed over, ... *)
LEMMA OrigHolds ==
  ASSUME NEW sends, IsRequest(sends), NEW s \in Sides, NEW p \in Proc, NEW q \in DOMAIN SendData(sends, p, s)
  PROVE  LET f == RemoveDuplicates(SendData(sends, p, s))[q]
         IN  f = [k \in DOMAIN f |-> f[k]] /\ \A k \in DOMAIN f : Holds(Orig(sends, p, s), f[k])
<1>1. PICK I, f : /\ I = Indices(SendData(sends, p, s)[q]) /\ f = Ascending(I)
                  /\ f = RemoveDuplicates(SendData(sends, p, s))[q]
  BY RemoveDuplicatesIs
<1>0. IsFiniteSet(I) /\ I \subseteq Nat
  BY <1>1, HandedIndices
<1>2. f = [k \in DOMAIN f |-> f[k]] /\ \A k \in DOMAIN f : f[k] \in I
  <2>1. f = Ascending(I)
    BY <1>1
  <2>. QED  BY <1>0, <2>1, AscendingIs
<1>3. ASSUME NEW i \in I PROVE Holds(Orig(sends, p, s), i)
  <2>1. PICK e \in SendData(sends, p, s)[q] : i = e[1]
    BY <1>1 DEF Indices
  <2>2. PICK d \in Abroad(sends, p, s) : \E k \in DOMAIN Orig(sends, p, s)[d] : e = Entry(sends, p, s, d, k)
    BY HandedEntry
  <2>3. PICK k \in DOMAIN Orig(sends, p, s)[d] : e = Entry(sends, p, s, d, k)
    BY <2>2
  <2>4. i = Orig(sends, p, s)[d][k] /\ d \in DOMAIN Orig(sends, p, s)
    BY <2>1, <2>3 DEF Entry, Abroad
  <2>. QED  BY <2>4 DEF Holds
<1>. QED  BY <1>1, <1>2, <1>3

(* ... what the rank in charge has been handed holds its messages abroad, ... *)
LEMMA RecvHolds ==
  ASSUME NEW sends, IsRequest(sends), NEW s \in Sides, NEW p \in Proc, NEW n \in DOMAIN GlobalOf(sends, p, s)
  PROVE  LET f == RemoveDuplicates(GlobalOf(sends, p, s))[n]
         IN  /\ f = [k \in DOMAIN f |-> f[k]]
             /\ \A k \in DOMAIN f : Holds(RemoveDuplicates(RecvOf(sends, p, s)), f[k])
<1>1. PICK I, f : /\ I = Indices(GlobalOf(sends, p, s)[n]) /\ f = Ascending(I)
                  /\ f = RemoveDuplicates(GlobalOf(sends, p, s))[n]
  BY RemoveDuplicatesIs
<1>0. IsFiniteSet(I) /\ I \subseteq Nat /\ I = { e[1] : e \in GlobalOf(sends, p, s)[n] }
      /\ \A e \in GlobalOf(sends, p, s)[n] : e \in EntriesAt(sends, p, s)
  <2>1. IsFiniteSet(I) /\ I \subseteq Nat
    BY <1>1, GlobalIndices
  <2>2. GlobalOf(sends, p, s)[n] = { e \in EntriesAt(sends, p, s) : e[2] = n }
    BY GlobalIndices
  <2>. QED  BY <1>1, <2>1, <2>2 DEF Indices
<1>2. f = [k \in DOMAIN f |-> f[k]] /\ \A k \in DOMAIN f : f[k] \in I
  <2>1. f = Ascending(I)
    BY <1>1
  <2>2. IsFiniteSet(I) /\ I \subseteq Nat
    BY <1>0
  <2>. QED  BY <2>1, <2>2, AscendingIs
<1>3. ASSUME NEW i \in I PROVE Holds(RemoveDuplicates(RecvOf(sends, p, s)), i)
  <2>1. PICK e \in EntriesAt(sends, p, s) : i = e[1]
    BY <1>0
  <2>2. PICK q \in Senders(sends, p, s) : e \in SendData(sends, q, s)[p]
    BY EntriesAtAre
  <2>3. PICK J, g : /\ J = Indices(SendData(sends, q, s)[p]) /\ g = Ascending(J)
                    /\ g = RemoveDuplicates(RecvOf(sends, p, s))[q]
                    /\ q \in DOMAIN RemoveDuplicates(RecvOf(sends, p, s))
    BY RemoveDuplicatesIs, RecvOfIs
  <2>4. i \in J
    BY <2>1, <2>2, <2>3 DEF Indices
  <2>5. IsFiniteSet(J) /\ J \subseteq Nat
    BY <2>3, HandedIndices, RecvOfIs
  <2>6. \A j \in J : \E k \in DOMAIN Ascending(J) : Ascending(J)[k] = j
    BY <2>5, AscendingIs
  <2>7. \E k \in DOMAIN g : g[k] = i
    BY <2>3, <2>4, <2>6
  <2>. QED  BY <2>3, <2>7 DEF Holds
<1>. QED  BY <1>1, <1>2, <1>3

(* ... and what comes from abroad holds what it passes on. *)
LEMMA GlobalHoldsRecv ==
  ASSUME NEW sends, IsRequest(sends), NEW s \in Sides, NEW p \in Proc, NEW q \in Senders(sends, p, s)
  PROVE  LET f == RemoveDuplicates(RecvOf(sends, p, s))[q]
         IN  /\ f = [k \in DOMAIN f |-> f[k]]
             /\ \A k \in DOMAIN f : Holds(RemoveDuplicates(GlobalOf(sends, p, s)), f[k])
<1>0. q \in Proc /\ p \in DOMAIN SendData(sends, q, s)
  BY RecvOfIs
<1>1. PICK I, f : /\ I = Indices(SendData(sends, q, s)[p]) /\ f = Ascending(I)
                  /\ f = RemoveDuplicates(RecvOf(sends, p, s))[q]
  BY RemoveDuplicatesIs, RecvOfIs
<1>4. IsFiniteSet(I) /\ I \subseteq Nat
  BY <1>0, <1>1, HandedIndices
<1>2. f = [k \in DOMAIN f |-> f[k]] /\ \A k \in DOMAIN f : f[k] \in I
  <2>1. f = Ascending(I)
    BY <1>1
  <2>. QED  BY <1>4, <2>1, AscendingIs
<1>3. ASSUME NEW i \in I PROVE Holds(RemoveDuplicates(GlobalOf(sends, p, s)), i)
  <2>1. PICK e \in SendData(sends, q, s)[p] : i = e[1]
    BY <1>1 DEF Indices
  <2>2. e \in EntriesAt(sends, p, s)
    BY DEF EntriesAt
  <2>3. PICK n : n = e[2]
    OBVIOUS
  <2>4. n \in DOMAIN GlobalOf(sends, p, s)
    BY <2>2, <2>3 DEF GlobalOf
  <2>5. PICK J, g : /\ J = Indices(GlobalOf(sends, p, s)[n]) /\ g = Ascending(J)
                    /\ g = RemoveDuplicates(GlobalOf(sends, p, s))[n]
                    /\ n \in DOMAIN RemoveDuplicates(GlobalOf(sends, p, s))
    BY <2>4, RemoveDuplicatesIs
  <2>6. e \in GlobalOf(sends, p, s)[n]
    BY <2>2, <2>3, <2>4, GlobalIndices
  <2>7. i \in J
    BY <2>1, <2>5, <2>6 DEF Indices
  <2>8. IsFiniteSet(J) /\ J \subseteq Nat
    BY <2>4, <2>5, GlobalIndices
  <2>9. \A j \in J : \E k \in DOMAIN Ascending(J) : Ascending(J)[k] = j
    BY <2>8, AscendingIs
  <2>10. \E k \in DOMAIN g : g[k] = i
    BY <2>5, <2>7, <2>9
  <2>. QED  BY <2>5, <2>10 DEF Holds
<1>. QED  BY <1>1, <1>2, <1>3

LEMMA LocalIs ==
  ASSUME NEW sends, IsRequest(sends), NEW s \in Sides, NEW p \in Proc
  PROVE  /\ \A q : q \in DOMAIN LocalData(sends, p, s) <=> q \in DOMAIN Orig(sends, p, s) /\ q \in Mates(p)
         /\ \A q \in DOMAIN LocalData(sends, p, s) :
              /\ LocalData(sends, p, s)[q] = Orig(sends, p, s)[q]
              /\ Orig(sends, p, s)[q] \in Seq(Nat)
              /\ Orig(sends, p, s)[q] = [k \in DOMAIN Orig(sends, p, s)[q] |-> Orig(sends, p, s)[q][k]]
<1>1. /\ DOMAIN LocalData(sends, p, s) = DOMAIN Orig(sends, p, s) \cap Mates(p)
      /\ \A q \in DOMAIN LocalData(sends, p, s) : LocalData(sends, p, s)[q] = Orig(sends, p, s)[q]
  BY DEF LocalData
<1>2. ASSUME NEW q \in DOMAIN Orig(sends, p, s)
      PROVE  /\ Orig(sends, p, s)[q] \in Seq(Nat)
             /\ Orig(sends, p, s)[q] = [k \in DOMAIN Orig(sends, p, s)[q] |-> Orig(sends, p, s)[q][k]]
  <2>1. PICK f \in Seq(Nat) : f = Orig(sends, p, s)[q]
    BY OrigIs
  <2>2. PICK n \in Nat : f \in [1 .. n -> Nat]
    BY SeqDef
  <2>3. f = [k \in DOMAIN f |-> f[k]]
    BY <2>2
  <2>. QED  BY <2>1, <2>3
<1>. QED  BY <1>1, <1>2
-----------------------------------------------------------------------------
(* The lists of a plan. *)
IsList(f) == \E n \in Nat : f = [k \in 1 .. n |-> f[k]]

LEMMA ListIs ==
  ASSUME NEW f, IsList(f)
  PROVE  Len(f) \in Nat /\ DOMAIN f = 1 .. Len(f) /\ f = [k \in DOMAIN f |-> f[k]]
<1>1. PICK n \in Nat : f = [k \in 1 .. n |-> f[k]]
  BY DEF IsList
<1> DEFINE S == { f[k] : k \in 1 .. n }
<1>2. f \in [1 .. n -> S]
  BY <1>1
<1> HIDE DEF S
<1>3. f \in Seq(S) /\ DOMAIN f = 1 .. n
  BY <1>2, SeqDef
<1>4. Len(f) = n
  BY <1>3
<1>. QED  BY <1>1, <1>3, <1>4

LEMMA AscendingList ==
  ASSUME NEW I, IsFiniteSet(I), I \subseteq Nat
  PROVE  IsList(Ascending(I)) /\ Len(Ascending(I)) = Cardinality(I)
<1>1. PICK f : f = Ascending(I)
  OBVIOUS
<1>2. /\ Cardinality(I) \in Nat /\ DOMAIN f = 1 .. Cardinality(I) /\ f = [k \in DOMAIN f |-> f[k]]
      /\ Len(f) = Cardinality(I)
  BY <1>1, AscendingIs
<1>. QED  BY <1>1, <1>2 DEF IsList

LEMMA MapList ==
  ASSUME NEW data, NEW buf
  PROVE  /\ DOMAIN MapIndices(data, buf) = DOMAIN data
         /\ \A q \in DOMAIN data : IsList(data[q]) =>
              /\ IsList(MapIndices(data, buf)[q]) /\ Len(MapIndices(data, buf)[q]) = Len(data[q])
              /\ \A k \in DOMAIN data[q] : MapIndices(data, buf)[q][k] = PositionIn(buf, data[q][k])
<1>1. DOMAIN MapIndices(data, buf) = DOMAIN data
  BY DEF MapIndices
<1>2. ASSUME NEW q \in DOMAIN data, IsList(data[q])
      PROVE  /\ IsList(MapIndices(data, buf)[q]) /\ Len(MapIndices(data, buf)[q]) = Len(data[q])
             /\ \A k \in DOMAIN data[q] : MapIndices(data, buf)[q][k] = PositionIn(buf, data[q][k])
  <2>1. PICK f : f = MapIndices(data, buf)[q]
    OBVIOUS
  <2>2. f = [k \in DOMAIN data[q] |-> PositionIn(buf, data[q][k])]
    BY <2>1 DEF MapIndices
  <2>3. PICK n \in Nat : n = Len(data[q]) /\ DOMAIN data[q] = 1 .. n
    BY <1>2, ListIs
  <2>4. DOMAIN f = 1 .. n /\ f = [k \in 1 .. n |-> f[k]]
    BY <2>2, <2>3
  <2>5. IsList(f)
    BY <2>4 DEF IsList
  <2>6. Len(f) \in Nat /\ 1 .. Len(f) = 1 .. n
    BY <2>4, <2>5, ListIs
  <2>7. Len(f) = n
    BY <2>6
  <2>. QED  BY <2>1, <2>2, <2>3, <2>5, <2>7
<1>. QED  BY <1>1, <1>2

LEMMA HandedList ==
  ASSUME NEW sends, IsRequest(sends), NEW s \in Sides, NEW p \in Proc, NEW q \in DOMAIN SendData(sends, p, s)
  PROVE  IsList(RemoveDuplicates(SendData(sends, p, s))[q]) /\ q \in DOMAIN RemoveDuplicates(SendData(sends, p, s))
<1>1. IsFiniteSet(Indices(SendData(sends, p, s)[q])) /\ Indices(SendData(sends, p, s)[q]) \subseteq Nat
  BY HandedIndices
<1>. QED  BY <1>1, RemoveDuplicatesIs, AscendingList

LEMMA GlobalList ==
  ASSUME NEW sends, IsRequest(sends), NEW s \in Sides, NEW p \in Proc, NEW n \in DOMAIN GlobalOf(sends, p, s)
  PROVE  /\ IsList(RemoveDuplicates(GlobalOf(sends, p, s))[n]) /\ n \in DOMAIN RemoveDuplicates(GlobalOf(sends, p, s))
         /\ RemoveDuplicates(GlobalOf(sends, p, s))[n] = Ascending(Exchanged(sends, Node[p], s, n))
         /\ Len(RemoveDuplicates(GlobalOf(sends, p, s))[n]) = Cardinality(Exchanged(sends, Node[p], s, n))
<1>1. PICK I : I = Indices(GlobalOf(sends, p, s)[n])
  OBVIOUS
<1>2. IsFiniteSet(I) /\ I \subseteq Nat /\ I = Exchanged(sends, Node[p], s, n)
  BY <1>1, GlobalIndices
<1>3. RemoveDuplicates(GlobalOf(sends, p, s))[n] = Ascending(I) /\ n \in DOMAIN RemoveDuplicates(GlobalOf(sends, p, s))
  BY <1>1, RemoveDuplicatesIs
<1>. QED  BY <1>2, <1>3, AscendingList

LEMMA LocalList ==
  ASSUME NEW sends, IsRequest(sends), NEW s \in Sides, NEW p \in Proc, NEW q \in DOMAIN Orig(sends, p, s)
  PROVE  IsList(Orig(sends, p, s)[q]) /\ q \in Proc
<1>1. PICK f \in Seq(Nat) : f = Orig(sends, p, s)[q]
  BY OrigIs
<1>2. PICK n \in Nat : f \in [1 .. n -> Nat]
  BY SeqDef
<1>3. f = [k \in 1 .. n |-> f[k]]
  BY <1>2
<1>. QED  BY <1>1, <1>3, OrigIs DEF IsList
-----------------------------------------------------------------------------
(* The requests of the two ends of a step match. *)
LEMMA HandedPaired ==
  ASSUME NEW sends, IsRequest(sends), NEW s \in Sides, NEW p \in Proc, NEW q \in Proc
  PROVE  LET given == RemoveDuplicates(SendData(sends, p, s))
             taken == RemoveDuplicates(RecvOf(sends, q, s))
         IN  /\ q \in DOMAIN given <=> p \in DOMAIN taken
             /\ q \in DOMAIN given => given[q] = taken[p] /\ IsList(given[q])
<1>1. DOMAIN RemoveDuplicates(SendData(sends, p, s)) = DOMAIN SendData(sends, p, s)
  BY RemoveDuplicatesIs
<1>2. DOMAIN RemoveDuplicates(RecvOf(sends, q, s)) = Senders(sends, q, s)
  BY RemoveDuplicatesIs, RecvOfIs
<1>3. q \in DOMAIN SendData(sends, p, s) <=> p \in Senders(sends, q, s)
  BY RecvOfIs
<1>4. ASSUME q \in DOMAIN SendData(sends, p, s)
      PROVE  RemoveDuplicates(SendData(sends, p, s))[q] = RemoveDuplicates(RecvOf(sends, q, s))[p]
  BY <1>3, <1>4, RecvOfIs
<1>5. ASSUME q \in DOMAIN SendData(sends, p, s)
      PROVE  IsList(RemoveDuplicates(SendData(sends, p, s))[q])
  BY <1>5, HandedList
<1>. QED  BY <1>1, <1>2, <1>3, <1>4, <1>5

LEMMA LocalPaired ==
  ASSUME NEW sends, IsRequest(sends), NEW p \in Proc, NEW q \in Proc
  PROVE  LET given == LocalData(sends, p, "S")
             taken == LocalData(sends, q, "R")
         IN  /\ q \in DOMAIN given <=> p \in DOMAIN taken
             /\ q \in DOMAIN given => given[q] = taken[p] /\ IsList(given[q])
<1>1. "S" \in Sides /\ "R" \in Sides /\ Other("S") = "R"
  BY DEF Sides, Other
<1>2. q \in DOMAIN LocalData(sends, p, "S") <=> q \in DOMAIN Orig(sends, p, "S") /\ q \in Mates(p)
  BY <1>1, LocalIs
<1>3. p \in DOMAIN LocalData(sends, q, "R") <=> p \in DOMAIN Orig(sends, q, "R") /\ p \in Mates(q)
  BY <1>1, LocalIs
<1>4. q \in DOMAIN Orig(sends, p, "S") <=> p \in DOMAIN Orig(sends, q, "R")
  BY <1>1, OrigIs
<1>5. q \in Mates(p) <=> p \in Mates(q)
  BY MatesOf
<1>6. ASSUME q \in DOMAIN LocalData(sends, p, "S")
      PROVE  LocalData(sends, p, "S")[q] = LocalData(sends, q, "R")[p] /\ IsList(LocalData(sends, p, "S")[q])
  <2>1. LocalData(sends, p, "S")[q] = Orig(sends, p, "S")[q] /\ LocalData(sends, q, "R")[p] = Orig(sends, q, "R")[p]
    <3>1. p \in DOMAIN LocalData(sends, q, "R")
      BY <1>2, <1>3, <1>4, <1>5, <1>6
    <3>. QED  BY <1>6, <3>1 DEF LocalData
  <2>2. Orig(sends, p, "S")[q] = Orig(sends, q, "R")[p]
    BY <1>1, <1>2, <1>6, OrigIs
  <2>3. IsList(Orig(sends, p, "S")[q])
    BY <1>1, <1>2, <1>6, LocalList
  <2>. QED  BY <2>1, <2>2, <2>3
<1>. QED  BY <1>2, <1>3, <1>4, <1>5, <1>6

LEMMA AcrossNodes ==
  ASSUME NEW sends, IsRequest(sends), NEW s \in Sides, NEW p \in Proc, NEW n \in DOMAIN GlobalOf(sends, p, s),
         NEW q, q = InCharge(sends, n, Other(s), Node[p])
  PROVE  /\ n \in Nodes /\ n # Node[p] /\ q \in Proc /\ Node[q] = n /\ InCharge(sends, Node[p], s, n) = p
         /\ Node[p] \in DOMAIN GlobalOf(sends, q, Other(s))
         /\ RemoveDuplicates(GlobalOf(sends, p, s))[n] = RemoveDuplicates(GlobalOf(sends, q, Other(s)))[Node[p]]
<1>0. Other(s) \in Sides /\ Other(Other(s)) = s /\ Node[p] \in Nodes
  BY Placed DEF Sides, Other
<1>1. n \in Partners(sends, Node[p], s) /\ InCharge(sends, Node[p], s, n) = p
  BY GlobalIs
<1>2. n \in Nodes /\ n # Node[p]
  BY <1>1 DEF Partners
<1>3. /\ Node[p] \in Partners(sends, n, Other(s))
      /\ Exchanged(sends, Node[p], s, n) = Exchanged(sends, n, Other(s), Node[p])
  BY <1>0, <1>1, <1>2, BothSides
<1>4. q \in Proc /\ Node[q] = n
  BY <1>0, <1>2, <1>3, InChargeIs
<1>5. Node[p] \in DOMAIN GlobalOf(sends, q, Other(s))
  BY <1>0, <1>3, <1>4, GlobalIs
<1>6. RemoveDuplicates(GlobalOf(sends, p, s))[n] = Ascending(Exchanged(sends, Node[p], s, n))
  BY GlobalList
<1>7. RemoveDuplicates(GlobalOf(sends, q, Other(s)))[Node[p]] = Ascending(Exchanged(sends, n, Other(s), Node[p]))
  BY <1>0, <1>4, <1>5, GlobalList
<1>. QED  BY <1>1, <1>2, <1>3, <1>4, <1>5, <1>6, <1>7
-----------------------------------------------------------------------------
(* The finished plans. *)
LEMMA PlanFields ==
  ASSUME NEW sends, NEW p
  PROVE  /\ PlanOf(sends, p).sSend = MapIndices(RemoveDuplicates(SendData(sends, p, "S")), Orig(sends, p, "S"))
         /\ PlanOf(sends, p).sRecv = RemoveDuplicates(RecvOf(sends, p, "S"))
         /\ PlanOf(sends, p).gSend = MapIndices(RemoveDuplicates(GlobalOf(sends, p, "S")),
                                                RemoveDuplicates(RecvOf(sends, p, "S")))
         /\ PlanOf(sends, p).gRecv = RemoveDuplicates(GlobalOf(sends, p, "R"))
         /\ PlanOf(sends, p).rSend = MapIndices(RemoveDuplicates(RecvOf(sends, p, "R")),
                                                RemoveDuplicates(GlobalOf(sends, p, "R")))
         /\ PlanOf(sends, p).rRecv = MapIndices(RemoveDuplicates(SendData(sends, p, "R")), Orig(sends, p, "R"))
         /\ PlanOf(sends, p).lSend = MapIndices(LocalData(sends, p, "S"), Orig(sends, p, "S"))
         /\ PlanOf(sends, p).lRecv = MapIndices(LocalData(sends, p, "R"), Orig(sends, p, "R"))
         /\ PlanOf(sends, p).to = [n \in DOMAIN GlobalOf(sends, p, "S") |-> InCharge(sends, n, "R", Node[p])]
         /\ PlanOf(sends, p).from = [n \in DOMAIN GlobalOf(sends, p, "R") |-> InCharge(sends, n, "S", Node[p])]
BY DEF PlanOf

LEMMA CompleteIs ==
  ASSUME IInv, PlansAre, NEW c \in Complete
  PROVE  /\ IsRequest(Asked(c))
         /\ \A p \in Proc : plan[p][c] = PlanOf(Asked(c), p)
<1>1. Typed /\ Recorded
  BY DEF IInv
<1>2. c \in Calls /\ NumCalls \in Nat
  BY <1>1, CallsAre DEF Complete, Calls
<1>3. IsRequest(Asked(c))
  BY <1>1, <1>2, CallsAre
<1>4. ASSUME NEW p \in Proc PROVE plan[p][c] = PlanOf(Asked(c), p)
  <2>1. Len(plan[p]) \in Nat /\ Len(plan[p]) >= c
    <3>1. Len(plan[p]) >= c
      BY DEF Complete
    <3>2. Len(plan[p]) \in Nat
      BY <1>1, ProgressIs DEF Recorded
    <3>. QED  BY <3>1, <3>2
  <2>2. c \in 1 .. Len(plan[p])
    BY <1>2, <2>1 DEF Calls
  <2>. QED  BY <2>2 DEF PlansAre
<1>. QED  BY <1>3, <1>4

LEMMA PlansPaired ==
  ASSUME NEW sends, IsRequest(sends), NEW p \in Proc, NEW q \in Proc
  PROVE  /\ q \in DOMAIN PlanOf(sends, p).sSend <=> p \in DOMAIN PlanOf(sends, q).sRecv
         /\ q \in DOMAIN PlanOf(sends, p).sSend =>
              Len(PlanOf(sends, p).sSend[q]) = Len(PlanOf(sends, q).sRecv[p])
         /\ q \in DOMAIN PlanOf(sends, p).rSend <=> p \in DOMAIN PlanOf(sends, q).rRecv
         /\ q \in DOMAIN PlanOf(sends, p).rSend =>
              Len(PlanOf(sends, p).rSend[q]) = Len(PlanOf(sends, q).rRecv[p])
         /\ q \in DOMAIN PlanOf(sends, p).lSend <=> p \in DOMAIN PlanOf(sends, q).lRecv
         /\ q \in DOMAIN PlanOf(sends, p).lSend =>
              Len(PlanOf(sends, p).lSend[q]) = Len(PlanOf(sends, q).lRecv[p])
<1>0. "S" \in Sides /\ "R" \in Sides
  BY DEF Sides
<1>1. /\ q \in DOMAIN PlanOf(sends, p).sSend <=> p \in DOMAIN PlanOf(sends, q).sRecv
      /\ q \in DOMAIN PlanOf(sends, p).sSend =>
           Len(PlanOf(sends, p).sSend[q]) = Len(PlanOf(sends, q).sRecv[p])
  <2>1. PICK given, taken : /\ given = RemoveDuplicates(SendData(sends, p, "S"))
                            /\ taken = RemoveDuplicates(RecvOf(sends, q, "S"))
    OBVIOUS
  <2>2. /\ q \in DOMAIN given <=> p \in DOMAIN taken
        /\ q \in DOMAIN given => given[q] = taken[p] /\ IsList(given[q])
    BY <1>0, <2>1, HandedPaired
  <2>3. PICK buf : PlanOf(sends, p).sSend = MapIndices(given, buf)
    <3>1. PlanOf(sends, p).sSend = MapIndices(RemoveDuplicates(SendData(sends, p, "S")), Orig(sends, p, "S"))
      BY PlanFields
    <3>. QED  BY <2>1, <3>1
  <2>4. PlanOf(sends, q).sRecv = taken
    BY <2>1, PlanFields
  <2>. QED  BY <2>2, <2>3, <2>4, MapList
<1>2. /\ q \in DOMAIN PlanOf(sends, p).rSend <=> p \in DOMAIN PlanOf(sends, q).rRecv
      /\ q \in DOMAIN PlanOf(sends, p).rSend =>
           Len(PlanOf(sends, p).rSend[q]) = Len(PlanOf(sends, q).rRecv[p])
  <2>1. PICK given, taken : /\ given = RemoveDuplicates(SendData(sends, q, "R"))
                            /\ taken = RemoveDuplicates(RecvOf(sends, p, "R"))
    OBVIOUS
  <2>2. /\ p \in DOMAIN given <=> q \in DOMAIN taken
        /\ p \in DOMAIN given => given[p] = taken[q] /\ IsList(given[p])
    BY <1>0, <2>1, HandedPaired
  <2>3. PICK buf : PlanOf(sends, p).rSend = MapIndices(taken, buf)
    <3>1. PlanOf(sends, p).rSend = MapIndices(RemoveDuplicates(RecvOf(sends, p, "R")), RemoveDuplicates(GlobalOf(sends, p, "R")))
      BY PlanFields
    <3>. QED  BY <2>1, <3>1
  <2>4. PICK own : PlanOf(sends, q).rRecv = MapIndices(given, own)
    <3>1. PlanOf(sends, q).rRecv = MapIndices(RemoveDuplicates(SendData(sends, q, "R")), Orig(sends, q, "R"))
      BY PlanFields
    <3>. QED  BY <2>1, <3>1
  <2>. QED  BY <2>2, <2>3, <2>4, MapList
<1>3. /\ q \in DOMAIN PlanOf(sends, p).lSend <=> p \in DOMAIN PlanOf(sends, q).lRecv
      /\ q \in DOMAIN PlanOf(sends, p).lSend =>
           Len(PlanOf(sends, p).lSend[q]) = Len(PlanOf(sends, q).lRecv[p])
  <2>1. PICK given, taken : given = LocalData(sends, p, "S") /\ taken = LocalData(sends, q, "R")
    OBVIOUS
  <2>2. /\ q \in DOMAIN given <=> p \in DOMAIN taken
        /\ q \in DOMAIN given => given[q] = taken[p] /\ IsList(given[q])
    BY <2>1, LocalPaired
  <2>3. PICK buf : PlanOf(sends, p).lSend = MapIndices(given, buf)
    <3>1. PlanOf(sends, p).lSend = MapIndices(LocalData(sends, p, "S"), Orig(sends, p, "S"))
      BY PlanFields
    <3>. QED  BY <2>1, <3>1
  <2>4. PICK own : PlanOf(sends, q).lRecv = MapIndices(taken, own)
    <3>1. PlanOf(sends, q).lRecv = MapIndices(LocalData(sends, q, "R"), Orig(sends, q, "R"))
      BY PlanFields
    <3>. QED  BY <2>1, <3>1
  <2>. QED  BY <2>2, <2>3, <2>4, MapList
<1>. QED  BY <1>1, <1>2, <1>3

LEMMA PlansMeet ==
  ASSUME NEW sends, IsRequest(sends), NEW p \in Proc, NEW n, NEW q
  PROVE  /\ n \in DOMAIN PlanOf(sends, p).to /\ q = PlanOf(sends, p).to[n] =>
              /\ q \in Proc /\ Node[q] = n
              /\ Node[p] \in DOMAIN PlanOf(sends, q).from /\ PlanOf(sends, q).from[Node[p]] = p
              /\ Len(PlanOf(sends, p).gSend[n]) = Len(PlanOf(sends, q).gRecv[Node[p]])
         /\ n \in DOMAIN PlanOf(sends, p).from /\ q = PlanOf(sends, p).from[n] =>
              /\ q \in Proc /\ Node[q] = n
              /\ Node[p] \in DOMAIN PlanOf(sends, q).to /\ PlanOf(sends, q).to[Node[p]] = p
<1>0. "S" \in Sides /\ "R" \in Sides /\ Other("S") = "R" /\ Other("R") = "S"
  BY DEF Sides, Other
<1>1. ASSUME n \in DOMAIN PlanOf(sends, p).to, q = PlanOf(sends, p).to[n]
      PROVE  /\ q \in Proc /\ Node[q] = n
             /\ Node[p] \in DOMAIN PlanOf(sends, q).from /\ PlanOf(sends, q).from[Node[p]] = p
             /\ Len(PlanOf(sends, p).gSend[n]) = Len(PlanOf(sends, q).gRecv[Node[p]])
  <2>1. n \in DOMAIN GlobalOf(sends, p, "S") /\ q = InCharge(sends, n, Other("S"), Node[p])
    <3>1. PlanOf(sends, p).to = [m \in DOMAIN GlobalOf(sends, p, "S") |-> InCharge(sends, m, "R", Node[p])]
      BY DEF PlanOf
    <3>. QED  BY <1>0, <1>1, <3>1
  <2>2. /\ q \in Proc /\ Node[q] = n /\ InCharge(sends, Node[p], "S", n) = p
        /\ Node[p] \in DOMAIN GlobalOf(sends, q, "R")
        /\ RemoveDuplicates(GlobalOf(sends, p, "S"))[n] = RemoveDuplicates(GlobalOf(sends, q, "R"))[Node[p]]
    BY <1>0, <2>1, AcrossNodes
  <2>3. Node[p] \in DOMAIN PlanOf(sends, q).from /\ PlanOf(sends, q).from[Node[p]] = p
    <3>1. PlanOf(sends, q).from = [m \in DOMAIN GlobalOf(sends, q, "R") |-> InCharge(sends, m, "S", Node[q])]
      BY DEF PlanOf
    <3>. QED  BY <2>2, <3>1
  <2>4. IsList(RemoveDuplicates(GlobalOf(sends, p, "S"))[n]) /\ n \in DOMAIN RemoveDuplicates(GlobalOf(sends, p, "S"))
    BY <1>0, <2>1, GlobalList
  <2>5. PICK data, buf : PlanOf(sends, p).gSend = MapIndices(data, buf) /\ data = RemoveDuplicates(GlobalOf(sends, p, "S"))
    <3>1. PlanOf(sends, p).gSend = MapIndices(RemoveDuplicates(GlobalOf(sends, p, "S")), RemoveDuplicates(RecvOf(sends, p, "S")))
      BY PlanFields
    <3>. QED  BY <3>1
  <2>6. Len(PlanOf(sends, p).gSend[n]) = Len(data[n])
    BY <2>4, <2>5, MapList
  <2>7. PlanOf(sends, q).gRecv = RemoveDuplicates(GlobalOf(sends, q, "R"))
    BY PlanFields
  <2>. QED  BY <2>2, <2>3, <2>5, <2>6, <2>7
<1>2. ASSUME n \in DOMAIN PlanOf(sends, p).from, q = PlanOf(sends, p).from[n]
      PROVE  /\ q \in Proc /\ Node[q] = n
             /\ Node[p] \in DOMAIN PlanOf(sends, q).to /\ PlanOf(sends, q).to[Node[p]] = p
  <2>1. n \in DOMAIN GlobalOf(sends, p, "R") /\ q = InCharge(sends, n, Other("R"), Node[p])
    <3>1. PlanOf(sends, p).from = [m \in DOMAIN GlobalOf(sends, p, "R") |-> InCharge(sends, m, "S", Node[p])]
      BY DEF PlanOf
    <3>. QED  BY <1>0, <1>2, <3>1
  <2>2. /\ q \in Proc /\ Node[q] = n /\ InCharge(sends, Node[p], "R", n) = p
        /\ Node[p] \in DOMAIN GlobalOf(sends, q, "S")
    BY <1>0, <2>1, AcrossNodes
  <2>3. PlanOf(sends, q).to = [m \in DOMAIN GlobalOf(sends, q, "S") |-> InCharge(sends, m, "R", Node[q])]
    BY DEF PlanOf
  <2>. QED  BY <2>2, <2>3
<1>. QED  BY <1>1, <1>2

LEMMA FinishedAgree ==
  ASSUME IInv, PlansAre
  PROVE  EndsAgree
<1> SUFFICES ASSUME NEW c \in Complete
             PROVE  /\ Paired(c, "sSend", "sRecv") /\ Paired(c, "rSend", "rRecv") /\ Paired(c, "lSend", "lRecv")
                    /\ \A p \in Proc :
                         LET me == plan[p][c] IN
                         /\ \A n \in DOMAIN me.to :
                              LET you == plan[me.to[n]][c] IN
                              /\ Node[me.to[n]] = n
                              /\ Node[p] \in DOMAIN you.from /\ you.from[Node[p]] = p
                              /\ Len(me.gSend[n]) = Len(you.gRecv[Node[p]])
                         /\ \A n \in DOMAIN me.from :
                              LET you == plan[me.from[n]][c] IN
                              Node[p] \in DOMAIN you.to /\ you.to[Node[p]] = p
  BY DEF EndsAgree
<1>1. PICK sends : sends = Asked(c)
  OBVIOUS
<1>2. IsRequest(sends) /\ \A p \in Proc : plan[p][c] = PlanOf(sends, p)
  BY <1>1, CompleteIs
<1>3. Paired(c, "sSend", "sRecv")
  BY <1>2, PlansPaired DEF Paired
<1>4. Paired(c, "rSend", "rRecv")
  BY <1>2, PlansPaired DEF Paired
<1>5. Paired(c, "lSend", "lRecv")
  BY <1>2, PlansPaired DEF Paired
<1>6. ASSUME NEW p \in Proc, NEW n \in DOMAIN plan[p][c].to
      PROVE  /\ Node[plan[p][c].to[n]] = n
             /\ Node[p] \in DOMAIN plan[plan[p][c].to[n]][c].from
             /\ plan[plan[p][c].to[n]][c].from[Node[p]] = p
             /\ Len(plan[p][c].gSend[n]) = Len(plan[plan[p][c].to[n]][c].gRecv[Node[p]])
  <2>1. PICK q : q = PlanOf(sends, p).to[n]
    OBVIOUS
  <2>2. n \in DOMAIN PlanOf(sends, p).to
    BY <1>2
  <2>3. /\ q \in Proc /\ Node[q] = n
        /\ Node[p] \in DOMAIN PlanOf(sends, q).from /\ PlanOf(sends, q).from[Node[p]] = p
        /\ Len(PlanOf(sends, p).gSend[n]) = Len(PlanOf(sends, q).gRecv[Node[p]])
    BY <1>2, <2>1, <2>2, PlansMeet
  <2>. QED  BY <1>2, <2>1, <2>3
<1>7. ASSUME NEW p \in Proc, NEW n \in DOMAIN plan[p][c].from
      PROVE  /\ Node[p] \in DOMAIN plan[plan[p][c].from[n]][c].to
             /\ plan[plan[p][c].from[n]][c].to[Node[p]] = p
  <2>1. PICK q : q = PlanOf(sends, p).from[n]
    OBVIOUS
  <2>2. n \in DOMAIN PlanOf(sends, p).from
    BY <1>2
  <2>3. /\ q \in Proc /\ Node[q] = n
        /\ Node[p] \in DOMAIN PlanOf(sends, q).to /\ PlanOf(sends, q).to[Node[p]] = p
    BY <1>2, <2>1, <2>2, PlansMeet
  <2>. QED  BY <1>2, <2>1, <2>3
<1>. QED  BY <1>3, <1>4, <1>5, <1>6, <1>7

(* Every send of a finished plan has its receive at the other end, of the same *)
(* length, and the two ranks in charge of a pair of nodes have found each other, *)
(* for every placement of the ranks and every sequence of calls.                *)
THEOREM Agree ==
  ASSUME EnoughTags
  PROVE  Spec => []EndsAgree
<1>1. IInv /\ PlansAre => EndsAgree
  BY FinishedAgree
<1>. QED  BY <1>1, PlanInvariant, PlansFollow, PTL
-----------------------------------------------------------------------------
(* What crosses from a node to another. *)
LEMMA BetweenIs ==
  ASSUME NEW c, IsRequest(Asked(c)), NEW n \in Nodes, NEW m \in Nodes
  PROVE  /\ Between(c, n, m) = Exchanged(Asked(c), n, "S", m)
         /\ Between(c, n, m) = {} <=> Pairs(Asked(c), n, "S", m) = {}
<1>1. PICK sends : sends = Asked(c)
  OBVIOUS
<1>2. IsRequest(sends) /\ "S" \in Sides
  BY <1>1 DEF Sides
<1>3. \A p : Orig(sends, p, "S") = sends[p]
  BY DEF Orig
<1>4. Pairs(sends, n, "S", m) = { r \in Proc \X Proc : /\ Node[r[1]] = n /\ Node[r[2]] = m
                                                      /\ r[2] \in DOMAIN sends[r[1]] }
  BY <1>3 DEF Pairs
<1>5. Between(c, n, m) = UNION { Range(sends[w[1]][w[2]]) : w \in Pairs(sends, n, "S", m) }
  BY <1>1, <1>4 DEF Between
<1>6. Exchanged(sends, n, "S", m) = UNION { Range(sends[w[1]][w[2]]) : w \in Pairs(sends, n, "S", m) }
  BY <1>3 DEF Exchanged
<1>7. ASSUME NEW w \in Pairs(sends, n, "S", m)
      PROVE  Range(sends[w[1]][w[2]]) # {}
  <2>1. w[1] \in Proc /\ w[2] \in DOMAIN Orig(sends, w[1], "S")
    BY <1>3, <1>4
  <2>2. PICK f \in Seq(Nat) \ {<< >>} : f = sends[w[1]][w[2]]
    BY <1>2, <1>3, <2>1, OrigIs
  <2>3. 1 \in DOMAIN f
    BY <2>2, SeqFacts
  <2>. QED  BY <2>2, <2>3 DEF Range
<1>8. Between(c, n, m) = {} <=> Pairs(sends, n, "S", m) = {}
  BY <1>5, <1>7
<1>. QED  BY <1>1, <1>5, <1>6, <1>8

LEMMA SentAcross ==
  ASSUME NEW sends, IsRequest(sends), NEW p \in Proc, NEW m \in Nodes, m # Node[p]
  PROVE  /\ m \in DOMAIN PlanOf(sends, p).gSend <=>
              Pairs(sends, Node[p], "S", m) # {} /\ InCharge(sends, Node[p], "S", m) = p
         /\ m \in DOMAIN PlanOf(sends, p).gSend =>
              Len(PlanOf(sends, p).gSend[m]) = Cardinality(Exchanged(sends, Node[p], "S", m))
<1>0. "S" \in Sides
  BY DEF Sides
<1>1. PICK data, buf : PlanOf(sends, p).gSend = MapIndices(data, buf) /\ data = RemoveDuplicates(GlobalOf(sends, p, "S"))
  BY DEF PlanOf
<1>2. DOMAIN PlanOf(sends, p).gSend = DOMAIN GlobalOf(sends, p, "S")
  BY <1>1, MapList, RemoveDuplicatesIs
<1>3. m \in DOMAIN GlobalOf(sends, p, "S") <=>
        m \in Partners(sends, Node[p], "S") /\ InCharge(sends, Node[p], "S", m) = p
  BY <1>0, GlobalIs
<1>4. m \in Partners(sends, Node[p], "S") <=> Pairs(sends, Node[p], "S", m) # {}
  BY DEF Partners
<1>5. ASSUME m \in DOMAIN GlobalOf(sends, p, "S")
      PROVE  Len(PlanOf(sends, p).gSend[m]) = Cardinality(Exchanged(sends, Node[p], "S", m))
  <2>1. /\ IsList(data[m]) /\ m \in DOMAIN data
        /\ Len(data[m]) = Cardinality(Exchanged(sends, Node[p], "S", m))
    BY <1>0, <1>1, <1>5, GlobalList
  <2>2. Len(PlanOf(sends, p).gSend[m]) = Len(data[m])
    BY <1>1, <2>1, MapList
  <2>. QED  BY <2>1, <2>2
<1>. QED  BY <1>2, <1>3, <1>4, <1>5

LEMMA FinishedCrossOnce ==
  ASSUME IInv, PlansAre
  PROVE  CrossesOnce
<1> SUFFICES ASSUME NEW c \in Complete, NEW n \in Nodes, NEW m \in Nodes, n # m
             PROVE  LET senders == { p \in Proc : Node[p] = n /\ m \in DOMAIN plan[p][c].gSend }
                    IN  IF Between(c, n, m) = {} THEN senders = {}
                        ELSE \E p \in Proc : /\ senders = {p}
                                             /\ Len(plan[p][c].gSend[m]) = Cardinality(Between(c, n, m))
  BY DEF CrossesOnce
<1> DEFINE senders == { p \in Proc : Node[p] = n /\ m \in DOMAIN plan[p][c].gSend }
<1>1. PICK sends : sends = Asked(c)
  OBVIOUS
<1>2. IsRequest(sends) /\ \A p \in Proc : plan[p][c] = PlanOf(sends, p)
  BY <1>1, CompleteIs
<1>3. /\ Between(c, n, m) = Exchanged(sends, n, "S", m)
      /\ Between(c, n, m) = {} <=> Pairs(sends, n, "S", m) = {}
  BY <1>1, <1>2, BetweenIs
<1>4. \A p \in Proc : p \in senders <=>
        Node[p] = n /\ Pairs(sends, n, "S", m) # {} /\ InCharge(sends, n, "S", m) = p
  <2>1. ASSUME NEW p \in Proc, Node[p] = n
        PROVE  m \in DOMAIN plan[p][c].gSend <=>
                 Pairs(sends, n, "S", m) # {} /\ InCharge(sends, n, "S", m) = p
    BY <1>2, <2>1, SentAcross
  <2>. QED  BY <2>1
<1>5. senders \subseteq Proc
  OBVIOUS
<1>6. CASE Pairs(sends, n, "S", m) = {}
  <2>1. senders = {}
    <3> HIDE DEF senders
    <3>. QED  BY <1>4, <1>5, <1>6
  <2>. QED  BY <1>3, <1>6, <2>1
<1>7. CASE Pairs(sends, n, "S", m) # {}
  <2>1. PICK p : p = InCharge(sends, n, "S", m)
    OBVIOUS
  <2>2. m \in Partners(sends, n, "S") /\ "S" \in Sides
    BY <1>7 DEF Partners, Sides
  <2>3. p \in Proc /\ Node[p] = n
    BY <1>2, <2>1, <2>2, InChargeIs
  <2>4. senders = {p}
    <3> HIDE DEF senders
    <3>1. p \in senders
      BY <1>4, <1>7, <2>1, <2>3
    <3>2. \A q \in senders : q = p
      BY <1>4, <1>5, <2>1
    <3>. QED  BY <3>1, <3>2
  <2>5. m \in DOMAIN PlanOf(sends, p).gSend
    BY <1>2, <2>3, <2>4
  <2>6. Len(PlanOf(sends, p).gSend[m]) = Cardinality(Exchanged(sends, n, "S", m))
    BY <1>2, <2>3, <2>5, SentAcross
  <2>7. Len(plan[p][c].gSend[m]) = Cardinality(Between(c, n, m))
    BY <1>2, <1>3, <2>3, <2>6
  <2> HIDE DEF senders
  <2>8. IF Between(c, n, m) = {} THEN senders = {}
        ELSE \E q \in Proc : /\ senders = {q}
                             /\ Len(plan[q][c].gSend[m]) = Cardinality(Between(c, n, m))
    BY <1>3, <1>7, <2>3, <2>4, <2>7
  <2>. QED  BY <2>8 DEF senders
<1>. QED  BY <1>6, <1>7

(* Between two nodes a finished plan sends one message, and in it each element *)
(* once, however many ranks send it and want it.                               *)
THEOREM CrossOnce ==
  ASSUME EnoughTags
  PROVE  Spec => []CrossesOnce
<1>1. IInv /\ PlansAre => CrossesOnce
  BY FinishedCrossOnce
<1>. QED  BY <1>1, PlanInvariant, PlansFollow, PTL
-----------------------------------------------------------------------------
(* Executing a finished plan: what each step leaves in the receive buffer. *)
Finished(c, sends) ==
  /\ sends = Asked(c) /\ IsRequest(sends)
  /\ \A p \in Proc : plan[p][c] = PlanOf(sends, p)

LEMMA PickedIs ==
  ASSUME NEW data, NEW buf, NEW q \in DOMAIN data, IsList(data[q]), \A k \in DOMAIN data[q] : Holds(buf, data[q][k])
  PROVE  PickFor(buf, MapIndices(data, buf), q) = data[q]
<1>1. data[q] = [k \in DOMAIN data[q] |-> data[q][k]]
  BY ListIs
<1>. QED  BY <1>1, Packed

LEMMA BroughtLIs ==
  ASSUME NEW c, NEW sends, Finished(c, sends), NEW p \in Proc, NEW q \in DOMAIN LocalData(sends, p, "R")
  PROVE  q \in DOMAIN plan[p][c].lRecv /\ BroughtL(p, c)[q] = Orig(sends, p, "R")[q]
<1>0. "S" \in Sides /\ "R" \in Sides /\ IsRequest(sends)
  BY DEF Finished, Sides
<1>1. q \in Proc /\ q \in DOMAIN Orig(sends, p, "R") /\ LocalData(sends, p, "R")[q] = Orig(sends, p, "R")[q]
  <2>1. q \in DOMAIN Orig(sends, p, "R") /\ LocalData(sends, p, "R")[q] = Orig(sends, p, "R")[q]
    BY DEF LocalData
  <2>. QED  BY <1>0, <2>1, LocalList
<1>2. PICK data, buf : data = LocalData(sends, q, "S") /\ buf = Orig(sends, q, "S")
  OBVIOUS
<1>3. p \in DOMAIN data /\ data[p] = LocalData(sends, p, "R")[q] /\ IsList(data[p])
  BY <1>0, <1>1, <1>2, LocalPaired
<1>4. p \in DOMAIN buf /\ data[p] = buf[p]
  BY <1>2, <1>3 DEF LocalData
<1>5. \A k \in DOMAIN data[p] : Holds(buf, data[p][k])
  BY <1>4 DEF Holds
<1>6. PickFor(buf, MapIndices(data, buf), p) = data[p]
  BY <1>3, <1>5, PickedIs
<1>7. plan[q][c].lSend = MapIndices(data, buf)
  <2>1. plan[q][c] = PlanOf(sends, q)
    BY <1>1 DEF Finished
  <2>. QED  BY <1>2, <2>1 DEF PlanOf
<1>8. Asked(c)[q] = buf
  BY <1>2 DEF Orig, Finished
<1>9. DOMAIN plan[p][c].lRecv = DOMAIN LocalData(sends, p, "R")
  <2>1. PICK own : plan[p][c].lRecv = MapIndices(LocalData(sends, p, "R"), own)
    <3>1. plan[p][c] = PlanOf(sends, p)
      BY DEF Finished
    <3>. QED  BY <3>1 DEF PlanOf
  <2>. QED  BY <2>1, MapList
<1>. QED  BY <1>1, <1>3, <1>6, <1>7, <1>8, <1>9 DEF BroughtL

LEMMA BroughtSIs ==
  ASSUME NEW c, NEW sends, Finished(c, sends), NEW p \in Proc
  PROVE  BroughtS(p, c) = RemoveDuplicates(RecvOf(sends, p, "S"))
<1>0. "S" \in Sides /\ "R" \in Sides /\ IsRequest(sends)
  BY DEF Finished, Sides
<1> DEFINE taken == RemoveDuplicates(RecvOf(sends, p, "S"))
<1>1. plan[p][c].sRecv = taken
  <2>1. plan[p][c] = PlanOf(sends, p)
    BY DEF Finished
  <2>. QED  BY <2>1 DEF PlanOf
<1>2. ASSUME NEW q \in DOMAIN taken
      PROVE  PickFor(Asked(c)[q], plan[q][c].sSend, p) = taken[q]
  <2>0. q \in Senders(sends, p, "S")
    BY <1>0, RemoveDuplicatesIs, RecvOfIs
  <2>1. q \in Proc /\ p \in DOMAIN SendData(sends, q, "S")
    BY <1>0, <2>0, RecvOfIs
  <2>2. PICK data, buf : data = RemoveDuplicates(SendData(sends, q, "S")) /\ buf = Orig(sends, q, "S")
    OBVIOUS
  <2>3. p \in DOMAIN data /\ IsList(data[p])
    BY <1>0, <2>1, <2>2, HandedList
  <2>4. \A k \in DOMAIN data[p] : Holds(buf, data[p][k])
    BY <1>0, <2>1, <2>2, OrigHolds
  <2>5. PickFor(buf, MapIndices(data, buf), p) = data[p]
    BY <2>3, <2>4, PickedIs
  <2>6. plan[q][c].sSend = MapIndices(data, buf)
    <3>1. plan[q][c] = PlanOf(sends, q)
      BY <2>1 DEF Finished
    <3>. QED  BY <2>2, <3>1 DEF PlanOf
  <2>7. Asked(c)[q] = buf
    BY <2>2 DEF Orig, Finished
  <2>8. data[p] = taken[q]
    BY <1>0, <2>0, <2>2, RecvOfIs
  <2>. QED  BY <2>5, <2>6, <2>7, <2>8
<1>3. taken = [q \in DOMAIN taken |-> taken[q]]
  BY DEF RemoveDuplicates
<1> HIDE DEF taken
<1>4. BroughtS(p, c) = [q \in DOMAIN taken |-> taken[q]]
  BY <1>1, <1>2 DEF BroughtS
<1>. QED  BY <1>3, <1>4 DEF taken

LEMMA BroughtGIs ==
  ASSUME NEW c, NEW sends, Finished(c, sends), NEW p \in Proc
  PROVE  BroughtG(p, c) = RemoveDuplicates(GlobalOf(sends, p, "R"))
<1>0. "S" \in Sides /\ "R" \in Sides /\ IsRequest(sends) /\ Other("R") = "S"
  BY DEF Finished, Sides, Other
<1> DEFINE taken == RemoveDuplicates(GlobalOf(sends, p, "R"))
<1>1. plan[p][c].gRecv = taken /\ plan[p][c].from = [n \in DOMAIN GlobalOf(sends, p, "R") |-> InCharge(sends, n, "S", Node[p])]
  <2>1. plan[p][c] = PlanOf(sends, p)
    BY DEF Finished
  <2>. QED  BY <2>1 DEF PlanOf
<1>2. ASSUME NEW n \in DOMAIN taken, NEW q, q = plan[p][c].from[n]
      PROVE  PickFor(BroughtS(q, c), plan[q][c].gSend, Node[p]) = taken[n]
  <2>0. n \in DOMAIN GlobalOf(sends, p, "R")
    BY RemoveDuplicatesIs
  <2>1. q = InCharge(sends, n, Other("R"), Node[p])
    BY <1>0, <1>1, <1>2, <2>0
  <2>2. /\ q \in Proc /\ Node[p] \in DOMAIN GlobalOf(sends, q, "S")
        /\ taken[n] = RemoveDuplicates(GlobalOf(sends, q, "S"))[Node[p]]
    BY <1>0, <2>0, <2>1, AcrossNodes
  <2>3. PICK data, buf : /\ data = RemoveDuplicates(GlobalOf(sends, q, "S"))
                         /\ buf = RemoveDuplicates(RecvOf(sends, q, "S"))
    OBVIOUS
  <2>4. Node[p] \in DOMAIN data /\ IsList(data[Node[p]])
    BY <1>0, <2>2, <2>3, GlobalList
  <2>5. \A k \in DOMAIN data[Node[p]] : Holds(buf, data[Node[p]][k])
    BY <1>0, <2>2, <2>3, RecvHolds
  <2>6. PickFor(buf, MapIndices(data, buf), Node[p]) = data[Node[p]]
    BY <2>4, <2>5, PickedIs
  <2>7. plan[q][c].gSend = MapIndices(data, buf)
    <3>1. plan[q][c] = PlanOf(sends, q)
      BY <2>2 DEF Finished
    <3>. QED  BY <2>3, <3>1 DEF PlanOf
  <2>8. BroughtS(q, c) = buf
    BY <2>2, <2>3, BroughtSIs
  <2>. QED  BY <2>2, <2>3, <2>6, <2>7, <2>8
<1>3. taken = [n \in DOMAIN taken |-> taken[n]]
  BY DEF RemoveDuplicates
<1> HIDE DEF taken
<1>4. BroughtG(p, c) = [n \in DOMAIN taken |-> taken[n]]
  BY <1>1, <1>2 DEF BroughtG
<1>. QED  BY <1>3, <1>4 DEF taken

LEMMA BroughtRIs ==
  ASSUME NEW c, NEW sends, Finished(c, sends), NEW p \in Proc, NEW q \in DOMAIN SendData(sends, p, "R")
  PROVE  q \in DOMAIN plan[p][c].rRecv /\ BroughtR(p, c)[q] = RemoveDuplicates(SendData(sends, p, "R"))[q]
<1>0. "S" \in Sides /\ "R" \in Sides /\ IsRequest(sends)
  BY DEF Finished, Sides
<1>1. q \in Proc
  BY <1>0, HandedIs
<1>2. PICK data, buf : /\ data = RemoveDuplicates(RecvOf(sends, q, "R"))
                       /\ buf = RemoveDuplicates(GlobalOf(sends, q, "R"))
  OBVIOUS
<1>3. p \in DOMAIN data /\ data[p] = RemoveDuplicates(SendData(sends, p, "R"))[q] /\ IsList(data[p])
  <2>1. q \in DOMAIN RemoveDuplicates(SendData(sends, p, "R"))
    BY RemoveDuplicatesIs
  <2>. QED  BY <1>0, <1>1, <1>2, <2>1, HandedPaired
<1>4. p \in Senders(sends, q, "R")
  BY <1>0, <1>1 DEF Senders
<1>5. \A k \in DOMAIN data[p] : Holds(buf, data[p][k])
  BY <1>0, <1>1, <1>2, <1>4, GlobalHoldsRecv
<1>6. PickFor(buf, MapIndices(data, buf), p) = data[p]
  BY <1>3, <1>5, PickedIs
<1>7. plan[q][c].rSend = MapIndices(data, buf)
  <2>1. plan[q][c] = PlanOf(sends, q)
    BY <1>1 DEF Finished
  <2>. QED  BY <1>2, <2>1 DEF PlanOf
<1>8. BroughtG(q, c) = buf
  BY <1>1, <1>2, BroughtGIs
<1>9. q \in DOMAIN plan[p][c].rRecv
  <2>1. PICK mine, own : plan[p][c].rRecv = MapIndices(mine, own) /\ mine = RemoveDuplicates(SendData(sends, p, "R"))
    <3>1. plan[p][c] = PlanOf(sends, p)
      BY DEF Finished
    <3>. QED  BY <3>1 DEF PlanOf
  <2>. QED  BY <2>1, MapList, RemoveDuplicatesIs
<1>. QED  BY <1>3, <1>6, <1>7, <1>8, <1>9 DEF BroughtR
-----------------------------------------------------------------------------
(* What is written into the user's receive buffer. *)
LEMMA WritesAre ==
  ASSUME NEW brought, NEW recv, NEW step, NEW w
  PROVE  w \in Writes(brought, recv, step) <=>
           \E q \in DOMAIN recv : \E k \in DOMAIN recv[q] :
             w = [step |-> step, from |-> <<q, k>>, at |-> recv[q][k],
                  value |-> IF k \in DOMAIN brought[q] THEN brought[q][k] ELSE Lost]
<1> DEFINE U == UNION { {q} \X (DOMAIN recv[q]) : q \in DOMAIN recv }
           W(u) == [step |-> step, from |-> u, at |-> recv[u[1]][u[2]],
                    value |-> IF u[2] \in DOMAIN brought[u[1]] THEN brought[u[1]][u[2]] ELSE Lost]
<1>1. Writes(brought, recv, step) = { W(u) : u \in U }
  BY DEF Writes
<1>2. \A u : u \in U <=> \E q \in DOMAIN recv : \E k \in DOMAIN recv[q] : u = <<q, k>>
  OBVIOUS
<1>3. \A q, k : W(<<q, k>>) = [step |-> step, from |-> <<q, k>>, at |-> recv[q][k],
                               value |-> IF k \in DOMAIN brought[q] THEN brought[q][k] ELSE Lost]
  OBVIOUS
<1> HIDE DEF U, W
<1>4. w \in Writes(brought, recv, step) <=> \E q \in DOMAIN recv : \E k \in DOMAIN recv[q] : w = W(<<q, k>>)
  BY <1>1, <1>2
<1>. QED  BY <1>3, <1>4

(* An element is wanted at one place. *)
LEMMA WantedOnce ==
  ASSUME NEW sends, IsRequest(sends), NEW p \in Proc, NEW wanted, wanted = Orig(sends, p, "R"),
         NEW q \in DOMAIN wanted, NEW k \in DOMAIN wanted[q],
         NEW d \in DOMAIN wanted, NEW j \in DOMAIN wanted[d], wanted[d][j] = wanted[q][k]
  PROVE  d = q /\ j = k
<1>1. \A r \in DOMAIN wanted : r \in Proc /\ p \in DOMAIN sends[r] /\ wanted[r] = sends[r][p]
  BY DEF Orig
<1>2. IsInjective(sends[q][p])
  BY <1>1 DEF IsRequest
<1>3. d # q => Range(sends[q][p]) \cap Range(sends[d][p]) = {}
  BY <1>1 DEF IsRequest
<1>4. wanted[q][k] \in Range(sends[q][p]) /\ wanted[d][j] \in Range(sends[d][p])
  BY <1>1 DEF Range
<1>5. d = q
  BY <1>3, <1>4
<1>6. j = k
  BY <1>1, <1>2, <1>5 DEF IsInjective
<1>. QED  BY <1>5, <1>6

LEMMA WantedAt ==
  ASSUME NEW sends, IsRequest(sends), NEW p \in Proc, NEW wanted, wanted = Orig(sends, p, "R"),
         NEW d \in DOMAIN wanted, NEW j \in DOMAIN wanted[d]
  PROVE  PositionIn(wanted, wanted[d][j]) = <<d, j>>
<1>1. PICK e \in DOMAIN wanted : \E i \in DOMAIN wanted[e] :
         PositionIn(wanted, wanted[d][j]) = <<e, i>> /\ wanted[e][i] = wanted[d][j]
  BY PositionIs
<1>2. PICK i \in DOMAIN wanted[e] : PositionIn(wanted, wanted[d][j]) = <<e, i>> /\ wanted[e][i] = wanted[d][j]
  BY <1>1
<1>3. e = d /\ i = j
  BY <1>2, WantedOnce
<1>. QED  BY <1>2, <1>3

(* What L writes: the elements of the ranks of the node. *)
LEMMA LWrites ==
  ASSUME NEW c, NEW sends, Finished(c, sends), NEW p \in Proc, NEW wanted, wanted = Orig(sends, p, "R"), NEW w
  PROVE  w \in Writes(BroughtL(p, c), plan[p][c].lRecv, "L") <=>
           \E q \in DOMAIN wanted : \E k \in DOMAIN wanted[q] :
             /\ Node[q] = Node[p]
             /\ w = [step |-> "L", from |-> <<q, k>>, at |-> <<q, k>>, value |-> wanted[q][k]]
<1>0. "R" \in Sides /\ IsRequest(sends)
  BY DEF Finished, Sides
<1>1. PICK data, recv : /\ recv = plan[p][c].lRecv /\ recv = MapIndices(data, wanted)
                        /\ data = LocalData(sends, p, "R")
  <2>1. plan[p][c] = PlanOf(sends, p)
    BY DEF Finished
  <2>. QED  BY <2>1 DEF PlanOf
<1>2. \A q : q \in DOMAIN data <=> q \in DOMAIN wanted /\ Node[q] = Node[p]
  <2>1. \A q \in DOMAIN wanted : q \in Proc
    BY <1>0, OrigIs
  <2>. QED  BY <1>1, <2>1 DEF LocalData, Mates
<1>3. PICK brought : brought = BroughtL(p, c)
  OBVIOUS
<1>4. ASSUME NEW q \in DOMAIN data
      PROVE  /\ q \in DOMAIN recv /\ DOMAIN recv[q] = DOMAIN wanted[q]
             /\ \A k \in DOMAIN wanted[q] :
                  /\ recv[q][k] = <<q, k>>
                  /\ k \in DOMAIN brought[q] /\ brought[q][k] = wanted[q][k]
  <2>1. q \in DOMAIN wanted /\ data[q] = wanted[q]
    BY <1>1, <1>2 DEF LocalData
  <2>2. IsList(data[q])
    BY <1>0, <2>1, LocalList
  <2>3. brought[q] = wanted[q]
    BY <1>1, <1>3, BroughtLIs
  <2>4. /\ q \in DOMAIN recv /\ IsList(recv[q]) /\ Len(recv[q]) = Len(data[q])
        /\ \A k \in DOMAIN data[q] : recv[q][k] = PositionIn(wanted, data[q][k])
    BY <1>1, <2>2, MapList
  <2>5. DOMAIN recv[q] = DOMAIN data[q]
    BY <2>2, <2>4, ListIs
  <2>6. \A k \in DOMAIN wanted[q] : PositionIn(wanted, wanted[q][k]) = <<q, k>>
    BY <1>0, <2>1, WantedAt
  <2>. QED  BY <2>1, <2>3, <2>4, <2>5, <2>6
<1>5. DOMAIN recv = DOMAIN data
  BY <1>1, MapList
<1>6. w \in Writes(brought, recv, "L") <=>
        \E q \in DOMAIN recv : \E k \in DOMAIN recv[q] :
          w = [step |-> "L", from |-> <<q, k>>, at |-> recv[q][k],
               value |-> IF k \in DOMAIN brought[q] THEN brought[q][k] ELSE Lost]
  BY WritesAre
<1>7. ASSUME NEW q \in DOMAIN recv, NEW k \in DOMAIN recv[q]
      PROVE  [step |-> "L", from |-> <<q, k>>, at |-> recv[q][k],
              value |-> IF k \in DOMAIN brought[q] THEN brought[q][k] ELSE Lost] =
             [step |-> "L", from |-> <<q, k>>, at |-> <<q, k>>, value |-> wanted[q][k]]
  BY <1>4, <1>5
<1>8. \A q, k : q \in DOMAIN recv /\ k \in DOMAIN recv[q] <=>
                  q \in DOMAIN wanted /\ Node[q] = Node[p] /\ k \in DOMAIN wanted[q]
  BY <1>2, <1>4, <1>5
<1>9. w \in Writes(brought, recv, "L") <=>
        \E q \in DOMAIN wanted : \E k \in DOMAIN wanted[q] :
             /\ Node[q] = Node[p]
             /\ w = [step |-> "L", from |-> <<q, k>>, at |-> <<q, k>>, value |-> wanted[q][k]]
  <2>1. ASSUME NEW q \in DOMAIN recv, NEW k \in DOMAIN recv[q],
               w = [step |-> "L", from |-> <<q, k>>, at |-> recv[q][k],
                    value |-> IF k \in DOMAIN brought[q] THEN brought[q][k] ELSE Lost]
        PROVE  /\ q \in DOMAIN wanted /\ k \in DOMAIN wanted[q] /\ Node[q] = Node[p]
               /\ w = [step |-> "L", from |-> <<q, k>>, at |-> <<q, k>>, value |-> wanted[q][k]]
    BY <1>7, <1>8, <2>1
  <2>2. ASSUME NEW q \in DOMAIN wanted, NEW k \in DOMAIN wanted[q], Node[q] = Node[p],
               w = [step |-> "L", from |-> <<q, k>>, at |-> <<q, k>>, value |-> wanted[q][k]]
        PROVE  /\ q \in DOMAIN recv /\ k \in DOMAIN recv[q]
               /\ w = [step |-> "L", from |-> <<q, k>>, at |-> recv[q][k],
                       value |-> IF k \in DOMAIN brought[q] THEN brought[q][k] ELSE Lost]
    <3>1. q \in DOMAIN recv /\ k \in DOMAIN recv[q]
      BY <1>8, <2>2
    <3>. QED  BY <1>7, <2>2, <3>1
  <2>3. w \in Writes(brought, recv, "L") =>
          \E q \in DOMAIN wanted : \E k \in DOMAIN wanted[q] :
             /\ Node[q] = Node[p]
             /\ w = [step |-> "L", from |-> <<q, k>>, at |-> <<q, k>>, value |-> wanted[q][k]]
    BY <1>6, <2>1
  <2>4. (\E q \in DOMAIN wanted : \E k \in DOMAIN wanted[q] :
             /\ Node[q] = Node[p]
             /\ w = [step |-> "L", from |-> <<q, k>>, at |-> <<q, k>>, value |-> wanted[q][k]])
        => w \in Writes(brought, recv, "L")
    BY <1>6, <2>2
  <2>. QED  BY <2>3, <2>4
<1>. QED  BY <1>1, <1>3, <1>9

(* What R writes: the elements of the other nodes, each where it is wanted, from *)
(* the rank in charge of the node.                                             *)
LEMMA RWrites ==
  ASSUME NEW c, NEW sends, Finished(c, sends), NEW p \in Proc, NEW wanted, wanted = Orig(sends, p, "R"),
         NEW given, given = RemoveDuplicates(SendData(sends, p, "R"))
  PROVE  /\ \A w \in Writes(BroughtR(p, c), plan[p][c].rRecv, "R") :
              \E d \in DOMAIN wanted : \E j \in DOMAIN wanted[d] : \E q, k :
                /\ Node[d] # Node[p] /\ q = InCharge(sends, Node[p], "R", Node[d])
                /\ k \in DOMAIN given[q] /\ given[q][k] = wanted[d][j]
                /\ \A i \in DOMAIN given[q] : given[q][i] = given[q][k] => i = k
                /\ w = [step |-> "R", from |-> <<q, k>>, at |-> <<d, j>>, value |-> wanted[d][j]]
         /\ \A d \in DOMAIN wanted : \A j \in DOMAIN wanted[d] :
              Node[d] # Node[p] =>
                \E q, k : [step |-> "R", from |-> <<q, k>>, at |-> <<d, j>>, value |-> wanted[d][j]]
                            \in Writes(BroughtR(p, c), plan[p][c].rRecv, "R")
<1>0. "R" \in Sides /\ IsRequest(sends)
  BY DEF Finished, Sides
<1>1. PICK recv : /\ recv = plan[p][c].rRecv /\ recv = MapIndices(given, wanted)
                  /\ given = RemoveDuplicates(SendData(sends, p, "R"))
  <2>1. plan[p][c] = PlanOf(sends, p)
    BY DEF Finished
  <2>. QED  BY <2>1 DEF PlanOf
<1>2. DOMAIN given = DOMAIN SendData(sends, p, "R") /\ DOMAIN recv = DOMAIN given
  BY <1>1, MapList, RemoveDuplicatesIs
<1>3. PICK brought : brought = BroughtR(p, c)
  OBVIOUS
<1>4. ASSUME NEW q \in DOMAIN given
      PROVE  /\ DOMAIN recv[q] = DOMAIN given[q]
             /\ \A k \in DOMAIN given[q] :
                  /\ recv[q][k] = PositionIn(wanted, given[q][k])
                  /\ k \in DOMAIN brought[q] /\ brought[q][k] = given[q][k]
  <2>1. IsList(given[q])
    BY <1>0, <1>1, <1>2, HandedList
  <2>2. brought[q] = given[q]
    BY <1>1, <1>2, <1>3, BroughtRIs
  <2>3. /\ IsList(recv[q]) /\ Len(recv[q]) = Len(given[q])
        /\ \A k \in DOMAIN given[q] : recv[q][k] = PositionIn(wanted, given[q][k])
    BY <1>1, <2>1, MapList
  <2>4. DOMAIN recv[q] = DOMAIN given[q]
    BY <2>1, <2>3, ListIs
  <2>. QED  BY <2>2, <2>3, <2>4
<1>5. ASSUME NEW q \in DOMAIN given
      PROVE  /\ \A k \in DOMAIN given[q] : \E d \in DOMAIN wanted : \E j \in DOMAIN wanted[d] :
                  /\ Node[d] # Node[p] /\ q = InCharge(sends, Node[p], "R", Node[d])
                  /\ given[q][k] = wanted[d][j]
             /\ \A i, k \in DOMAIN given[q] : given[q][i] = given[q][k] => i = k
             /\ \A e \in SendData(sends, p, "R")[q] : \E k \in DOMAIN given[q] : given[q][k] = e[1]
  <2>1. PICK I, f : I = Indices(SendData(sends, p, "R")[q]) /\ f = given[q]
    OBVIOUS
  <2>2. IsFiniteSet(I) /\ I \subseteq Nat
    BY <1>0, <1>2, <2>1, HandedIndices
  <2>3. f = Ascending(I)
    BY <1>1, <1>2, <2>1, RemoveDuplicatesIs
  <2>4. /\ \A k \in DOMAIN f : f[k] \in I
        /\ \A i \in I : \E k \in DOMAIN f : f[k] = i
        /\ \A j, k \in DOMAIN f : f[j] = f[k] => j = k
    BY <2>2, <2>3, AscendingIs
  <2>5. ASSUME NEW k \in DOMAIN f
        PROVE  \E d \in DOMAIN wanted : \E j \in DOMAIN wanted[d] :
                  /\ Node[d] # Node[p] /\ q = InCharge(sends, Node[p], "R", Node[d])
                  /\ f[k] = wanted[d][j]
    <3>1. PICK e \in SendData(sends, p, "R")[q] : f[k] = e[1]
      BY <2>1, <2>4 DEF Indices
    <3>2. PICK d \in Abroad(sends, p, "R") : \E j \in DOMAIN Orig(sends, p, "R")[d] :
             e = Entry(sends, p, "R", d, j) /\ q = InCharge(sends, Node[p], "R", Node[d])
      BY <1>0, <1>2, HandedEntry
    <3>3. PICK j \in DOMAIN wanted[d] : e = Entry(sends, p, "R", d, j) /\ q = InCharge(sends, Node[p], "R", Node[d])
      BY <3>2
    <3>4. d \in DOMAIN wanted /\ Node[d] # Node[p]
      BY DEF Abroad
    <3>5. e[1] = wanted[d][j]
      BY <3>3 DEF Entry
    <3>. QED  BY <3>1, <3>3, <3>4, <3>5
  <2>6. \A e \in SendData(sends, p, "R")[q] : \E k \in DOMAIN f : f[k] = e[1]
    BY <2>1, <2>4 DEF Indices
  <2>. QED  BY <2>1, <2>4, <2>5, <2>6
<1>6. \A w : w \in Writes(brought, recv, "R") <=>
        \E q \in DOMAIN recv : \E k \in DOMAIN recv[q] :
          w = [step |-> "R", from |-> <<q, k>>, at |-> recv[q][k],
               value |-> IF k \in DOMAIN brought[q] THEN brought[q][k] ELSE Lost]
  BY WritesAre
<1>7. ASSUME NEW w \in Writes(brought, recv, "R")
      PROVE  \E d \in DOMAIN wanted : \E j \in DOMAIN wanted[d] : \E q, k :
               /\ Node[d] # Node[p] /\ q = InCharge(sends, Node[p], "R", Node[d])
               /\ k \in DOMAIN given[q] /\ given[q][k] = wanted[d][j]
               /\ \A i \in DOMAIN given[q] : given[q][i] = given[q][k] => i = k
               /\ w = [step |-> "R", from |-> <<q, k>>, at |-> <<d, j>>, value |-> wanted[d][j]]
  <2>0. PICK q \in DOMAIN recv : \E k \in DOMAIN recv[q] :
          w = [step |-> "R", from |-> <<q, k>>, at |-> recv[q][k],
               value |-> IF k \in DOMAIN brought[q] THEN brought[q][k] ELSE Lost]
    BY <1>6
  <2>1. PICK k \in DOMAIN recv[q] :
          w = [step |-> "R", from |-> <<q, k>>, at |-> recv[q][k],
               value |-> IF k \in DOMAIN brought[q] THEN brought[q][k] ELSE Lost]
    BY <2>0
  <2>2. q \in DOMAIN given /\ k \in DOMAIN given[q] /\ recv[q][k] = PositionIn(wanted, given[q][k])
        /\ k \in DOMAIN brought[q] /\ brought[q][k] = given[q][k]
    BY <1>2, <1>4, <2>1
  <2>3. PICK d \in DOMAIN wanted : \E j \in DOMAIN wanted[d] :
          /\ Node[d] # Node[p] /\ q = InCharge(sends, Node[p], "R", Node[d])
          /\ given[q][k] = wanted[d][j]
    BY <1>5, <2>2
  <2>4. PICK j \in DOMAIN wanted[d] :
          /\ Node[d] # Node[p] /\ q = InCharge(sends, Node[p], "R", Node[d])
          /\ given[q][k] = wanted[d][j]
    BY <2>3
  <2>5. PositionIn(wanted, wanted[d][j]) = <<d, j>>
    BY <1>0, WantedAt
  <2>6. w = [step |-> "R", from |-> <<q, k>>, at |-> <<d, j>>, value |-> wanted[d][j]]
    BY <2>1, <2>2, <2>4, <2>5
  <2>7. \A i \in DOMAIN given[q] : given[q][i] = given[q][k] => i = k
    BY <1>5, <2>2
  <2>. QED  BY <2>2, <2>4, <2>6, <2>7
<1>8. ASSUME NEW d \in DOMAIN wanted, NEW j \in DOMAIN wanted[d], Node[d] # Node[p]
      PROVE  \E q, k : [step |-> "R", from |-> <<q, k>>, at |-> <<d, j>>, value |-> wanted[d][j]]
                         \in Writes(brought, recv, "R")
  <2>1. PICK q : q = InCharge(sends, Node[p], "R", Node[d])
    OBVIOUS
  <2>2. d \in Abroad(sends, p, "R") /\ j \in DOMAIN Orig(sends, p, "R")[d]
    BY <1>8 DEF Abroad
  <2>3. q \in DOMAIN SendData(sends, p, "R") /\ Entry(sends, p, "R", d, j) \in SendData(sends, p, "R")[q]
    BY <1>0, <2>1, <2>2, GoesThrough
  <2>4. Entry(sends, p, "R", d, j)[1] = wanted[d][j]
    BY DEF Entry
  <2>5. PICK k \in DOMAIN given[q] : given[q][k] = wanted[d][j]
    BY <1>2, <1>5, <2>3, <2>4
  <2>6. PositionIn(wanted, wanted[d][j]) = <<d, j>>
    BY <1>0, WantedAt
  <2>7. /\ q \in DOMAIN recv /\ k \in DOMAIN recv[q] /\ recv[q][k] = <<d, j>>
        /\ k \in DOMAIN brought[q] /\ brought[q][k] = wanted[d][j]
    BY <1>2, <1>4, <2>3, <2>5, <2>6
  <2>8. [step |-> "R", from |-> <<q, k>>, at |-> recv[q][k],
         value |-> IF k \in DOMAIN brought[q] THEN brought[q][k] ELSE Lost] \in Writes(brought, recv, "R")
    BY <1>6, <2>7
  <2>. QED  BY <2>7, <2>8
<1>9. \A w \in Writes(BroughtR(p, c), plan[p][c].rRecv, "R") :
        \E d \in DOMAIN wanted : \E j \in DOMAIN wanted[d] : \E q, k :
          /\ Node[d] # Node[p] /\ q = InCharge(sends, Node[p], "R", Node[d])
          /\ k \in DOMAIN given[q] /\ given[q][k] = wanted[d][j]
          /\ \A i \in DOMAIN given[q] : given[q][i] = given[q][k] => i = k
          /\ w = [step |-> "R", from |-> <<q, k>>, at |-> <<d, j>>, value |-> wanted[d][j]]
  BY <1>1, <1>3, <1>7
<1>10. \A d \in DOMAIN wanted : \A j \in DOMAIN wanted[d] :
         Node[d] # Node[p] =>
           \E q, k : [step |-> "R", from |-> <<q, k>>, at |-> <<d, j>>, value |-> wanted[d][j]]
                       \in Writes(BroughtR(p, c), plan[p][c].rRecv, "R")
  BY <1>1, <1>3, <1>8
<1>. QED  BY <1>9, <1>10

LEMMA PlacesFinite ==
  ASSUME NEW sends, IsRequest(sends), NEW p \in Proc, NEW wanted, wanted = Orig(sends, p, "R")
  PROVE  IsFiniteSet(UNION { {q} \X (DOMAIN wanted[q]) : q \in DOMAIN wanted })
<1> DEFINE U(q) == {q} \X (DOMAIN wanted[q])
           D == DOMAIN wanted
           F == { U(q) : q \in D }
           h == [q \in D |-> U(q)]
<1>0. "R" \in Sides
  BY DEF Sides
<1>1. IsFiniteSet(D)
  <2>1. D \in SUBSET Proc
    BY <1>0, OrigIs
  <2>. QED  BY <2>1, Ranks, FS_Subset
<1>2. ASSUME NEW q \in D PROVE IsFiniteSet(U(q))
  <2>1. PICK f \in Seq(Nat) \ {<< >>} : f = wanted[q]
    BY <1>0, OrigIs
  <2>2. IsFiniteSet(DOMAIN f)
    BY SeqFacts
  <2>3. IsFiniteSet({q} \X DOMAIN f)
    BY <2>2, FS_Singleton, FS_Product
  <2>. QED  BY <2>1, <2>3
<1> HIDE DEF U
<1>3. h \in Surjection(D, F)
  BY DEF Surjection
<1>4. IsFiniteSet(F)
  <2> HIDE DEF h, D, F
  <2>. QED  BY <1>1, <1>3, FS_Surjection
<1>5. \A T \in F : IsFiniteSet(T)
  BY <1>2
<1>6. IsFiniteSet(UNION F)
  <2> HIDE DEF F
  <2>. QED  BY <1>4, <1>5, FS_UNION
<1>. QED  BY <1>6 DEF U

LEMMA Delivered ==
  ASSUME NEW c, NEW sends, Finished(c, sends), NEW p \in Proc, NEW wanted, wanted = Orig(sends, p, "R"),
         NEW writes, writes = Writes(BroughtL(p, c), plan[p][c].lRecv, "L")
                                \cup Writes(BroughtR(p, c), plan[p][c].rRecv, "R"),
         NEW places, places = UNION { {q} \X (DOMAIN wanted[q]) : q \in DOMAIN wanted }
  PROVE  /\ { w.at : w \in writes } = places /\ Cardinality(writes) = Cardinality(places)
         /\ \A w \in writes : w.value = wanted[w.at[1]][w.at[2]]
<1>0. IsRequest(sends)
  BY DEF Finished
<1>1. PICK given : given = RemoveDuplicates(SendData(sends, p, "R"))
  OBVIOUS
<1>2. \A u : u \in places <=> \E d \in DOMAIN wanted : \E j \in DOMAIN wanted[d] : u = <<d, j>>
  OBVIOUS
<1> DEFINE L == Writes(BroughtL(p, c), plan[p][c].lRecv, "L")
           R == Writes(BroughtR(p, c), plan[p][c].rRecv, "R")
           IsL(w, d, j) == Node[d] = Node[p] /\ w = [step |-> "L", from |-> <<d, j>>, at |-> <<d, j>>, value |-> wanted[d][j]]
           IsR(w, d, j) == \E q, k :
                /\ Node[d] # Node[p] /\ q = InCharge(sends, Node[p], "R", Node[d])
                /\ k \in DOMAIN given[q] /\ given[q][k] = wanted[d][j]
                /\ \A i \in DOMAIN given[q] : given[q][i] = given[q][k] => i = k
                /\ w = [step |-> "R", from |-> <<q, k>>, at |-> <<d, j>>, value |-> wanted[d][j]]
<1>3. \A w : w \in L <=> \E d \in DOMAIN wanted : \E j \in DOMAIN wanted[d] : IsL(w, d, j)
  BY LWrites
<1>4. \A w \in R : \E d \in DOMAIN wanted : \E j \in DOMAIN wanted[d] : IsR(w, d, j)
  <2>1. \A w \in R : \E d \in DOMAIN wanted : \E j \in DOMAIN wanted[d] : \E q, k :
                /\ Node[d] # Node[p] /\ q = InCharge(sends, Node[p], "R", Node[d])
                /\ k \in DOMAIN given[q] /\ given[q][k] = wanted[d][j]
                /\ \A i \in DOMAIN given[q] : given[q][i] = given[q][k] => i = k
                /\ w = [step |-> "R", from |-> <<q, k>>, at |-> <<d, j>>, value |-> wanted[d][j]]
    BY <1>1, RWrites
  <2> HIDE DEF R
  <2>. QED  BY <2>1
<1>5. \A d \in DOMAIN wanted : \A j \in DOMAIN wanted[d] : Node[d] # Node[p] =>
        \E q, k : [step |-> "R", from |-> <<q, k>>, at |-> <<d, j>>, value |-> wanted[d][j]] \in R
  <2> SUFFICES ASSUME NEW d \in DOMAIN wanted, NEW j \in DOMAIN wanted[d], Node[d] # Node[p]
               PROVE  \E q, k : [step |-> "R", from |-> <<q, k>>, at |-> <<d, j>>, value |-> wanted[d][j]]
                                  \in Writes(BroughtR(p, c), plan[p][c].rRecv, "R")
    OBVIOUS
  <2>. QED  BY <1>1, RWrites, Zenon
<1>6. writes = L \cup R
  OBVIOUS
<1>7. \A w, d, j : IsL(w, d, j) \/ IsR(w, d, j) => w.at = <<d, j>> /\ w.value = wanted[d][j]
  OBVIOUS
<1>8. \A w, v, d, j : (IsL(w, d, j) \/ IsR(w, d, j)) /\ (IsL(v, d, j) \/ IsR(v, d, j)) => w = v
  <2>1. ASSUME NEW w, NEW v, NEW d, NEW j, IsR(w, d, j), IsR(v, d, j) PROVE w = v
    <3>1. PICK q : q = InCharge(sends, Node[p], "R", Node[d])
      OBVIOUS
    <3>2. PICK k : /\ k \in DOMAIN given[q] /\ given[q][k] = wanted[d][j]
                   /\ \A i \in DOMAIN given[q] : given[q][i] = given[q][k] => i = k
                   /\ w = [step |-> "R", from |-> <<q, k>>, at |-> <<d, j>>, value |-> wanted[d][j]]
      BY <2>1, <3>1
    <3>3. PICK i : /\ i \in DOMAIN given[q] /\ given[q][i] = wanted[d][j]
                   /\ v = [step |-> "R", from |-> <<q, i>>, at |-> <<d, j>>, value |-> wanted[d][j]]
      BY <2>1, <3>1
    <3>4. i = k
      BY <3>2, <3>3
    <3>. QED  BY <3>2, <3>3, <3>4
  <2>2. \A w, v, d, j : IsL(w, d, j) /\ IsL(v, d, j) => w = v
    OBVIOUS
  <2>3. \A w, v, d, j : ~ (IsL(w, d, j) /\ IsR(v, d, j))
    OBVIOUS
  <2> HIDE DEF IsL, IsR
  <2>. QED  BY <2>1, <2>2, <2>3
<1>9. \A w, d, j : IsL(w, d, j) => Node[d] = Node[p]
  OBVIOUS
<1>10. \A d, j : Node[d] = Node[p] => IsL([step |-> "L", from |-> <<d, j>>, at |-> <<d, j>>, value |-> wanted[d][j]], d, j)
  OBVIOUS
<1> HIDE DEF L, R, IsL, IsR
<1>11. ASSUME NEW w \in writes
       PROVE  \E d \in DOMAIN wanted : \E j \in DOMAIN wanted[d] :
                (IsL(w, d, j) \/ IsR(w, d, j)) /\ w.at = <<d, j>> /\ w.value = wanted[d][j]
  BY <1>3, <1>4, <1>6, <1>7
<1>12. ASSUME NEW d \in DOMAIN wanted, NEW j \in DOMAIN wanted[d]
       PROVE  \E w \in writes : w.at = <<d, j>>
  <2>1. CASE Node[d] = Node[p]
    <3>1. PICK w : w = [step |-> "L", from |-> <<d, j>>, at |-> <<d, j>>, value |-> wanted[d][j]]
      OBVIOUS
    <3>2. IsL(w, d, j)
      BY <1>10, <2>1, <3>1
    <3>3. w \in L
      BY <1>3, <3>2
    <3>. QED  BY <1>6, <3>1, <3>3
  <2>2. CASE Node[d] # Node[p]
    <3>1. PICK q, k : [step |-> "R", from |-> <<q, k>>, at |-> <<d, j>>, value |-> wanted[d][j]] \in R
      BY <1>5, <2>2
    <3>. QED  BY <1>6, <3>1
  <2>. QED  BY <2>1, <2>2
<1>13. { w.at : w \in writes } = places
  <2>1. ASSUME NEW w \in writes PROVE w.at \in places
    <3>1. PICK d \in DOMAIN wanted : \E j \in DOMAIN wanted[d] :
            (IsL(w, d, j) \/ IsR(w, d, j)) /\ w.at = <<d, j>> /\ w.value = wanted[d][j]
      BY <1>11
    <3>2. PICK j \in DOMAIN wanted[d] : w.at = <<d, j>>
      BY <3>1
    <3>3. <<d, j>> \in places
      BY <1>2
    <3>. QED  BY <3>2, <3>3
  <2>2. \A u \in places : \E w \in writes : w.at = u
    BY <1>2, <1>12
  <2>. QED  BY <2>1, <2>2
<1>14. \A w \in writes : w.value = wanted[w.at[1]][w.at[2]]
  BY <1>11
<1>15. ASSUME NEW w \in writes, NEW v \in writes, w.at = v.at
       PROVE  w = v
  <2>1. PICK d, j : (IsL(w, d, j) \/ IsR(w, d, j)) /\ w.at = <<d, j>>
    BY <1>11
  <2>2. PICK e, i : (IsL(v, e, i) \/ IsR(v, e, i)) /\ v.at = <<e, i>>
    BY <1>11
  <2>3. e = d /\ i = j
    <3>1. <<e, i>> = <<d, j>>
      BY <1>15, <2>1, <2>2
    <3>. QED  BY <3>1
  <2>. QED  BY <1>8, <2>1, <2>2, <2>3
<1>16. Cardinality(writes) = Cardinality(places)
  <2> DEFINE h == [w \in writes |-> w.at]
  <2>1. h \in [writes -> places]
    BY <1>13
  <2>2. \A w, v \in writes : h[w] = h[v] => w = v
    BY <1>15
  <2>3. h \in Injection(writes, places)
    BY <2>1, <2>2 DEF Injection, IsInjective
  <2>4. h \in Surjection(writes, places)
    BY <1>13, <2>1 DEF Surjection
  <2>5. IsFiniteSet(places)
    BY <1>0, PlacesFinite
  <2> HIDE DEF h
  <2>. QED  BY <2>3, <2>4, <2>5, FS_Injection
<1>. QED  BY <1>13, <1>14, <1>16

LEMMA FinishedDeliver ==
  ASSUME IInv, PlansAre
  PROVE  PlanDelivers
<1> SUFFICES ASSUME NEW c \in Complete, NEW p \in Proc
             PROVE  LET writes == Writes(BroughtL(p, c), plan[p][c].lRecv, "L")
                                    \cup Writes(BroughtR(p, c), plan[p][c].rRecv, "R")
                        wanted == Orig(Asked(c), p, "R")
                        places == UNION { {q} \X (DOMAIN wanted[q]) : q \in DOMAIN wanted }
                    IN  /\ { w.at : w \in writes } = places /\ Cardinality(writes) = Cardinality(places)
                        /\ \A w \in writes : w.value = wanted[w.at[1]][w.at[2]]
  BY DEF PlanDelivers
<1>1. Finished(c, Asked(c))
  BY CompleteIs DEF Finished
<1>2. PICK sends, wanted, writes, places :
        /\ sends = Asked(c) /\ wanted = Orig(Asked(c), p, "R")
        /\ writes = Writes(BroughtL(p, c), plan[p][c].lRecv, "L")
                       \cup Writes(BroughtR(p, c), plan[p][c].rRecv, "R")
        /\ places = UNION { {q} \X (DOMAIN wanted[q]) : q \in DOMAIN wanted }
  OBVIOUS
<1>3. /\ { w.at : w \in writes } = places /\ Cardinality(writes) = Cardinality(places)
      /\ \A w \in writes : w.value = wanted[w.at[1]][w.at[2]]
  <2>1. Finished(c, sends) /\ wanted = Orig(sends, p, "R")
    BY <1>1, <1>2
  <2>2. /\ writes = Writes(BroughtL(p, c), plan[p][c].lRecv, "L")
                       \cup Writes(BroughtR(p, c), plan[p][c].rRecv, "R")
        /\ places = UNION { {q} \X (DOMAIN wanted[q]) : q \in DOMAIN wanted }
    BY <1>2
  <2>. QED  BY <2>1, <2>2, Delivered
<1>. QED  BY <1>2, <1>3

(* Executed, a finished plan writes each position of the user's receive buffer *)
(* exactly once, with the element its neighbor sends for it.                   *)
THEOREM Deliver ==
  ASSUME EnoughTags
  PROVE  Spec => []PlanDelivers
<1>1. IInv /\ PlansAre => PlanDelivers
  BY FinishedDeliver
<1>. QED  BY <1>1, PlanInvariant, PlansFollow, PTL
=============================================================================
