------------------------ MODULE SparseMethods_proofs ------------------------
(***************************************************************************)
(* Proofs about SparseMethods, for every number of nodes, ranks per node,   *)
(* calls and sizes, every load and every sequence of methods.               *)
(***************************************************************************)
EXTENDS SparseMethods, FiniteSetTheorems, WellFoundedInduction, TLAPS

(* The one fact about its environment the code relies on: max_tag is more   *)
(* than the two tags a call takes (MPI guarantees MPI_TAG_UB >= 32767).     *)
EnoughTags == MaxTag > 2
-----------------------------------------------------------------------------
(* The inductive invariant.  First, the places of a call. *)
GroupPlaces == {"groupAllreduce", "groupProbe", "groupLoop"}
LocalPlaces == {"localAllreduce", "localProbe"}
RmaPlaces == {"rmaClear", "rmaPut"}

TwoPhase(c) == method[c] # "rma"
Past(p, c) == c \in Calls /\ c <= Returned(p)
At(p, c, places) == c \in Calls /\ c = call[p] /\ pc[p] \in places

(* Rank p has sent its messages over group_comm, has left the first phase,   *)
(* has sent its messages over local_comm, and has put, in its call c.       *)
SentToNodes(p, c) ==
  TwoPhase(c) /\ (Past(p, c) \/ At(p, c, {"groupProbe", "groupLoop"} \cup LocalPlaces))
HasNodeBuf(p, c) == TwoPhase(c) /\ (Past(p, c) \/ At(p, c, LocalPlaces))
SentLocally(p, c) == TwoPhase(c) /\ (Past(p, c) \/ At(p, c, {"localProbe"}))
HasPut(p, c) == ~ TwoPhase(c) /\ (Past(p, c) \/ At(p, c, {"rmaPut"}))

(* A rank outside "idle" is in a call, and a message is a record. *)
InCall == \A p \in Proc : pc[p] # "idle" => call[p] \in Calls
Typed ==
  /\ TypeOK /\ InCall
  /\ load \in Loads
  /\ flight \subseteq MessageSet
  /\ nodeBuf \in [Proc -> [Calls -> SUBSET HeldSet]]
  /\ win \in [Proc -> SUBSET ReportSet]
  /\ got \in [Proc -> [Calls -> SUBSET ReportSet]]

(* The location of a rank fits the method of its call. *)
PlaceFitsMethod ==
  \A p \in Proc :
    /\ pc[p] \in {"groupAllreduce", "groupProbe"} => method[call[p]] \in Personalized
    /\ pc[p] = "groupLoop" => method[call[p]] \in Nonblocking
    /\ pc[p] \in LocalPlaces => TwoPhase(call[p])
    /\ pc[p] \in RmaPlaces => ~ TwoPhase(call[p])

(* The collectives a rank has entered in its current call ... *)
EnteredNow ==
  \A p \in Proc :
    /\ \A s \in Collectives : entered[p][s] <= call[p]
    /\ pc[p] \in {"groupAllreduce", "groupProbe"} \cup LocalPlaces =>
         entered[p]["group"] = call[p]
    /\ entered[p]["group"] = call[p] => pc[p] \notin RmaPlaces
    /\ pc[p] \in LocalPlaces => entered[p]["local"] = call[p]
    /\ entered[p]["local"] = call[p] => pc[p] \in {"idle"} \cup LocalPlaces
    /\ pc[p] \in RmaPlaces => entered[p]["clear"] = call[p]
    /\ entered[p]["clear"] = call[p] => pc[p] \in {"idle"} \cup RmaPlaces
    /\ pc[p] = "rmaPut" => entered[p]["put"] = call[p]
    /\ entered[p]["put"] = call[p] => pc[p] \in {"idle", "rmaPut"}

(* ... and in the calls it has returned from. *)
EnteredBefore ==
  \A p \in Proc, c \in Calls : Past(p, c) =>
    IF TwoPhase(c) THEN entered[p]["group"] >= c /\ entered[p]["local"] >= c
                   ELSE entered[p]["clear"] >= c /\ entered[p]["put"] >= c

Control == PlaceFitsMethod /\ EnteredNow /\ EnteredBefore

(* No rank is past a collective that a rank of its communicator has not     *)
(* entered in that call.                                                    *)
Skew ==
  \A p \in Proc, c \in Calls :
    /\ HasNodeBuf(p, c) \/ At(p, c, {"groupProbe"}) =>
         \A q \in Group(p) : entered[q]["group"] >= c
    /\ SentLocally(p, c) => \A q \in Local(p) : entered[q]["local"] >= c
    /\ HasPut(p, c) => \A q \in Proc : entered[q]["clear"] >= c
    /\ ~ TwoPhase(c) /\ Past(p, c) => \A q \in Proc : entered[q]["put"] >= c

(* The tag with which each call begins: a call takes two, or none. *)
IsCallTag(st, m) ==
  /\ st \in [1 .. MaxCalls + 1 -> 0 .. MaxTag - 1]
  /\ st[1] = 126 % MaxTag
  /\ \A c \in Calls : st[c + 1] = IF m[c] = "rma" THEN st[c] ELSE NextTag(NextTag(st[c]))
CallTagOf(m) == CHOOSE st \in [1 .. MaxCalls + 1 -> 0 .. MaxTag - 1] : IsCallTag(st, m)
CallTag == CallTagOf(method)

TagSync ==
  \A p \in Proc :
    /\ pc[p] \in {"idle"} \cup RmaPlaces => commTag[p] = CallTag[Returned(p) + 1]
    /\ pc[p] \in GroupPlaces =>
         tag[p] = CallTag[call[p]] /\ commTag[p] = NextTag(CallTag[call[p]])
    /\ pc[p] = "localAllreduce" /\ method[call[p]] \notin Fixed =>
         commTag[p] = NextTag(CallTag[call[p]])
    /\ (pc[p] = "localAllreduce" /\ method[call[p]] \in Fixed) \/ pc[p] = "localProbe" =>
         commTag[p] = NextTag(NextTag(CallTag[call[p]]))
    /\ pc[p] = "localAllreduce" /\ method[call[p]] \in Fixed =>
         tag[p] = NextTag(CallTag[call[p]])

Ranks == Typed /\ Control /\ Skew /\ TagSync

(* A message of communicator s from q to p in call c is on its way. *)
OnItsWay(s, q, p, c) ==
  \E m \in flight : m.comm = s /\ m.src = q /\ m.dst = p /\ m.call = c

(* A message over group_comm is the one its source sent for the node of its *)
(* destination; an Issend that Testall has completed was received.          *)
IsNodeMessage(m) ==
  /\ SentToNodes(m.src, m.call)
  /\ m.dst \in Group(m.src)
  /\ m.tag = CallTag[m.call]
  /\ m.items = PackedFor(m.src, m.call, NodeOf(m.dst)) /\ m.items # {}
  /\ method[m.call] \in Nonblocking =>
       At(m.src, m.call, {"groupLoop"}) /\ entered[m.src]["group"] < m.call
NodeMessage == \A m \in flight : m.comm = "group" => IsNodeMessage(m)

(* What a rank holds for its node was sent to it and is no longer on its    *)
(* way, and what was sent is held or on its way.                            *)
WasSentTo(p, c, i) ==
  /\ i.origin \in Group(p)
  /\ SentToNodes(i.origin, c)
  /\ [dst |-> i.dst, data |-> i.data] \in PackedFor(i.origin, c, NodeOf(p))
  /\ ~ OnItsWay("group", i.origin, p, c)
HeldWasSent ==
  \A p \in Proc, c \in Calls : \A i \in nodeBuf[p][c] : WasSentTo(p, c, i)
Holds(p, c, q) ==
  \A e \in PackedFor(q, c, NodeOf(p)) :
    [origin |-> q, dst |-> e.dst, data |-> e.data] \in nodeBuf[p][c]
SentIsHeld ==
  \A p \in Proc, c \in Calls : \A q \in Group(p) :
    SentToNodes(q, c) => Holds(p, c, q) \/ OnItsWay("group", q, p, c)

(* After the first phase a rank holds everything there is for its node. *)
HoldsAll ==
  \A p \in Proc, c \in Calls : HasNodeBuf(p, c) => \A q \in Group(p) : Holds(p, c, q)

(* The same of the second phase. *)
IsLocalMessage(m) ==
  /\ SentLocally(m.src, m.call)
  /\ m.dst \in Local(m.src)
  /\ m.tag = NextTag(CallTag[m.call])
  /\ m.items = PackedLocally(m.src, m.call, LocalRank(m.dst)) /\ m.items # {}
LocalMessage == \A m \in flight : m.comm = "local" => IsLocalMessage(m)
HandedBy(q, p, c, i) ==
  /\ SentLocally(q, c)
  /\ i \in PackedLocally(q, c, LocalRank(p))
  /\ ~ OnItsWay("local", q, p, c)
GotWasSent ==
  \A p \in Proc, c \in Calls : TwoPhase(c) =>
    \A i \in got[p][c] : \E q \in Local(p) : HandedBy(q, p, c, i)
SentIsGot ==
  \A p \in Proc, c \in Calls : \A q \in Local(p) :
    SentLocally(q, c) =>
      PackedLocally(q, c, LocalRank(p)) \subseteq got[p][c] \/ OnItsWay("local", q, p, c)
GotAll ==
  \A p \in Proc, c \in Calls :
    TwoPhase(c) /\ Past(p, c) => LocalShare(p, c) \subseteq got[p][c]

(* Messages that were waited for and not received are buffered. *)
MayOutlive(m) == <<method[m.call], m.comm>> \in Eager \/ NeverAwaited(m)
LateMayOutlive ==
  \A m \in flight :
    (HasNodeBuf(m.src, m.call) /\ m.comm = "group") \/ Past(m.src, m.call) => MayOutlive(m)

(* A put is under way only between the barriers of its call, at both ends,  *)
(* and the window holds the puts of this call that have landed.             *)
Puts(c, p) == { q \in Proc : p \in DOMAIN load[q][c] /\ load[q][c][p] > 0 }
Slot(q, c, p) == [origin |-> q, data |-> Data(q, c, p)]
IsPut(m) ==
  /\ At(m.src, m.call, {"rmaPut"})
  /\ At(m.dst, m.call, RmaPlaces)
  /\ m.dst \in DOMAIN load[m.src][m.call]
  /\ m.tag = 0 /\ m.items = {Slot(m.src, m.call, m.dst)}
PutMessage == \A m \in flight : m.comm = "win" => IsPut(m)
Landed(p, c, i) ==
  /\ i.origin \in Puts(c, p) /\ HasPut(i.origin, c)
  /\ i = Slot(i.origin, c, p)
  /\ ~ OnItsWay("win", i.origin, p, c)
WinWasPut ==
  \A p \in Proc : pc[p] \in RmaPlaces => \A i \in win[p] : Landed(p, call[p], i)
PutIsInWin ==
  \A p \in Proc : pc[p] \in RmaPlaces => \A q \in Puts(call[p], p) :
    HasPut(q, call[p]) =>
      Slot(q, call[p], p) \in win[p] \/ OnItsWay("win", q, p, call[p])
GotPuts ==
  \A p \in Proc, c \in Calls :
    ~ TwoPhase(c) /\ Past(p, c) => got[p][c] = { Slot(q, c, p) : q \in Puts(c, p) }

PhaseOne == NodeMessage /\ HeldWasSent /\ SentIsHeld /\ HoldsAll
PhaseTwo == LocalMessage /\ GotWasSent /\ SentIsGot /\ GotAll
OneSided == PutMessage /\ WinWasPut /\ PutIsInWin /\ GotPuts
IInv == Ranks /\ PhaseOne /\ PhaseTwo /\ OneSided
-----------------------------------------------------------------------------
(* Arithmetic of the numbering of the ranks, node by node. *)
LEMMA RankNumber ==
  ASSUME NEW p \in Proc
  PROVE  /\ p \in Nat /\ NodeOf(p) \in 0 .. NumNodes - 1 /\ LocalRank(p) \in 0 .. PPN - 1
         /\ p = NodeOf(p) * PPN + LocalRank(p)
<1>1. p \in Nat /\ p < NumNodes * PPN /\ NumNodes \in Nat /\ PPN \in Nat /\ PPN > 0
  BY ConstAssumption DEF Proc
<1>2. /\ NodeOf(p) \in Nat /\ LocalRank(p) \in 0 .. PPN - 1
      /\ p = NodeOf(p) * PPN + LocalRank(p)
  BY <1>1, SMT DEF NodeOf, LocalRank
<1>3. NodeOf(p) < NumNodes
  <2>1. SUFFICES ASSUME NodeOf(p) >= NumNodes PROVE FALSE
    BY <1>1, <1>2
  <2>2. NodeOf(p) * PPN >= NumNodes * PPN
    BY <2>1, <1>1, <1>2, SMT
  <2>. QED  BY <2>2, <1>1, <1>2
<1>. QED  BY <1>1, <1>2, <1>3

LEMMA NumberOfRank ==
  ASSUME NEW n \in 0 .. NumNodes - 1, NEW l \in 0 .. PPN - 1
  PROVE  /\ n * PPN + l \in Proc
         /\ NodeOf(n * PPN + l) = n /\ LocalRank(n * PPN + l) = l
<1>1. n \in Nat /\ n + 1 <= NumNodes /\ l \in Nat /\ l < PPN /\ NumNodes \in Nat
        /\ PPN \in Nat /\ PPN > 0
  BY ConstAssumption
<1>2. (n + 1) * PPN <= NumNodes * PPN /\ (n + 1) * PPN = n * PPN + PPN /\ n * PPN \in Nat
  BY <1>1, SMT
<1>3. (n * PPN + l) \div PPN = n /\ (n * PPN + l) % PPN = l
  BY <1>1, SMT
<1>. QED  BY <1>1, <1>2, <1>3 DEF Proc, NodeOf, LocalRank

(* On every node there is one rank of each group. *)
LEMMA Companion ==
  ASSUME NEW p \in Proc, NEW q \in Proc
  PROVE  \E r \in Proc : r \in Local(p) /\ r \in Group(q) /\ q \in Group(r) /\ p \in Local(r)
<1>1. PICK r \in Proc : NodeOf(r) = NodeOf(p) /\ LocalRank(r) = LocalRank(q)
  BY RankNumber, NumberOfRank
<1>. QED  BY <1>1 DEF Local, Group

LEMMA SameRank ==
  ASSUME NEW p \in Proc, NEW q \in Local(p), q \in Group(p)
  PROVE  q = p
BY RankNumber DEF Local, Group

(* The source of a message over group_comm is computed correctly. *)
LEMMA OriginIsSource ==
  ASSUME NEW m, NEW p \in Proc, m.src \in Group(p)
  PROVE  Origin(p, m) = m.src
BY RankNumber DEF Origin, Group

LEMMA CommRanks ==
  ASSUME NEW p \in Proc
  PROVE  /\ p \in Group(p) /\ p \in Local(p) /\ Group(p) \subseteq Proc /\ Local(p) \subseteq Proc
         /\ \A q \in Group(p) : p \in Group(q) /\ Group(q) = Group(p)
         /\ \A q \in Local(p) : p \in Local(q) /\ Local(q) = Local(p)
BY DEF Group, Local
-----------------------------------------------------------------------------
(* Induction over the natural numbers, stated for the set of the numbers    *)
(* that have the property.                                                  *)
LEMMA LeastNumber ==
  ASSUME NEW T \in SUBSET Nat, T # {}
  PROVE  \E x \in T : \A y \in T : x <= y
<1> DEFINE R == OpToRel(<, Nat)
<1>1. IsWellFoundedOn(R, Nat)
  BY NatLessThanWellFounded
<1>2. PICK x \in T : \A y \in T : ~ (<<y, x>> \in R)
  <2> HIDE DEF R
  <2>. QED  BY <1>1, WFMin
<1>3. \A y \in T : ~ (y < x)
  BY <1>2 DEF OpToRel
<1>4. x \in Nat /\ \A y \in T : y \in Nat
  OBVIOUS
<1> HIDE DEF R
<1>. QED  BY <1>3, <1>4

LEMMA Induction ==
  ASSUME NEW G, 0 \in G, \A n \in Nat : n \in G => n + 1 \in G
  PROVE  Nat \subseteq G
<1> DEFINE T == Nat \ G
<1>1. SUFFICES ASSUME T # {} PROVE FALSE
  OBVIOUS
<1>2. PICK x \in T : \A y \in T : x <= y
  BY <1>1, LeastNumber
<1>3. x # 0 /\ x - 1 \in Nat
  OBVIOUS
<1>4. x - 1 \in G
  BY <1>2, <1>3
<1>. QED  BY <1>3, <1>4

LEMMA NextTagRange ==
  ASSUME NEW t \in 0 .. MaxTag - 1
  PROVE  NextTag(t) \in 0 .. MaxTag - 1
BY ConstAssumption, SMT DEF NextTag

(* Every call has its tag: the sequence exists, by induction on the calls. *)
LEMMA CallTagExists ==
  ASSUME NEW m \in [Calls -> Methods]
  PROVE  IsCallTag(CallTagOf(m), m)
<1> DEFINE Tags == 0 .. MaxTag - 1
           Next2(c, t) == IF m[c] = "rma" THEN t ELSE NextTag(NextTag(t))
           Upto(n, st) == /\ st \in [1 .. n + 1 -> Tags] /\ st[1] = 126 % MaxTag
                          /\ \A c \in 1 .. n : st[c + 1] = Next2(c, st[c])
           G == { n \in Nat : \E st \in [1 .. n + 1 -> Tags] : Upto(n, st) }
<1>0. MaxCalls \in Nat /\ 126 % MaxTag \in Tags /\ \A c, t : t \in Tags => Next2(c, t) \in Tags
  BY ConstAssumption, NextTagRange, SMT
<1>1. 0 \in G
  <2> DEFINE st == [x \in 1 .. 1 |-> 126 % MaxTag]
  <2>1. Upto(0, st)
    BY <1>0
  <2>. QED  BY <2>1
<1> HIDE DEF Next2
<1>2. ASSUME NEW n \in Nat, n \in G
      PROVE  n + 1 \in G
  <2>1. PICK st \in [1 .. n + 1 -> Tags] : Upto(n, st)
    BY <1>2
  <2> DEFINE su == [x \in 1 .. (n + 1) + 1 |-> IF x = n + 2 THEN Next2(n + 1, st[n + 1]) ELSE st[x]]
  <2>2. su \in [1 .. (n + 1) + 1 -> Tags] /\ su[1] = 126 % MaxTag
    <3>1. st[n + 1] \in Tags
      BY <2>1
    <3>2. Next2(n + 1, st[n + 1]) \in Tags
      BY <1>0, <3>1
    <3>. QED  BY <2>1, <3>2
  <2>3. ASSUME NEW c \in 1 .. n + 1
        PROVE  su[c + 1] = Next2(c, su[c])
    BY <2>1
  <2>4. \E sv \in [1 .. (n + 1) + 1 -> Tags] : Upto(n + 1, sv)
    <3> HIDE DEF su
    <3>. QED  BY <2>2, <2>3
  <2>5. n + 1 \in Nat
    OBVIOUS
  <2> HIDE DEF Upto, Tags
  <2>. QED  BY <2>4, <2>5
<1>3. MaxCalls \in G
  <2> HIDE DEF G
  <2>1. \A n \in Nat : n \in G => n + 1 \in G
    BY <1>2
  <2>. QED  BY <1>0, <1>1, <2>1, Induction
<1>4. PICK st \in [1 .. MaxCalls + 1 -> Tags] : Upto(MaxCalls, st)
  BY <1>3
<1>5. IsCallTag(st, m)
  BY <1>4 DEF IsCallTag, Calls, Next2
<1>. QED  BY <1>4, <1>5 DEF CallTagOf
-----------------------------------------------------------------------------
(* Type correctness. *)
LEMMA LoadType ==
  ASSUME load \in Loads, NEW p \in Proc, NEW c \in Calls
  PROVE  /\ load[p][c] \in Patterns /\ DOMAIN load[p][c] \subseteq Proc
         /\ \A d \in DOMAIN load[p][c] : load[p][c][d] \in 0 .. MaxCount /\ Data(p, c, d) \in DataSet
<1>1. load[p][c] \in Patterns
  BY ConstAssumption
<1>2. PICK D \in SUBSET Proc : load[p][c] \in [D -> 0 .. MaxCount]
  BY <1>1 DEF Patterns
<1>. QED  BY <1>1, <1>2 DEF Data, DataSet

LEMMA PackedType ==
  ASSUME load \in Loads, NEW p \in Proc, NEW c \in Calls, NEW n
  PROVE  PackedFor(p, c, n) \subseteq PackedSet
BY LoadType DEF PackedFor, PackedSet

LEMMA NodeMessagesType ==
  ASSUME load \in Loads, NEW p \in Proc, NEW c \in Calls, NEW t \in 0 .. MaxTag - 1,
         NEW m \in NodeMessages(p, c, t)
  PROVE  /\ m \in MessageSet /\ m.comm = "group" /\ m.src = p /\ m.call = c /\ m.tag = t
         /\ m.dst \in Group(p) /\ m.items = PackedFor(p, c, NodeOf(m.dst)) /\ m.items # {}
         /\ m.items \subseteq PackedSet
<1>1. PICK q \in Group(p) :
        /\ PackedFor(p, c, NodeOf(q)) # {}
        /\ m = [comm |-> "group", src |-> p, dst |-> q, tag |-> t, call |-> c,
                items |-> PackedFor(p, c, NodeOf(q))]
  BY DEF NodeMessages
<1>2. q \in Proc /\ PackedFor(p, c, NodeOf(q)) \subseteq PackedSet
  BY CommRanks, PackedType
<1> HIDE DEF PackedFor
<1>. QED  BY <1>1, <1>2 DEF MessageSet

LEMMA PackedLocallyType ==
  ASSUME NEW p \in Proc, NEW c \in Calls, nodeBuf[p][c] \subseteq HeldSet, NEW l
  PROVE  PackedLocally(p, c, l) \subseteq ReportSet
BY DEF PackedLocally, HeldSet, ReportSet

LEMMA LocalMessagesType ==
  ASSUME NEW p \in Proc, NEW c \in Calls, NEW t \in 0 .. MaxTag - 1, nodeBuf[p][c] \subseteq HeldSet,
         NEW m \in LocalMessages(p, c, t)
  PROVE  /\ m \in MessageSet /\ m.comm = "local" /\ m.src = p /\ m.call = c /\ m.tag = t
         /\ m.dst \in Local(p) /\ m.items = PackedLocally(p, c, LocalRank(m.dst)) /\ m.items # {}
         /\ m.items \subseteq ReportSet
<1>1. PICK q \in Local(p) :
        /\ PackedLocally(p, c, LocalRank(q)) # {}
        /\ m = [comm |-> "local", src |-> p, dst |-> q, tag |-> t, call |-> c,
                items |-> PackedLocally(p, c, LocalRank(q))]
  BY DEF LocalMessages
<1>2. q \in Proc /\ PackedLocally(p, c, LocalRank(q)) \subseteq ReportSet
  BY CommRanks, PackedLocallyType
<1>. QED  BY <1>1, <1>2 DEF MessageSet

PutMessages(p) ==
  { [comm |-> "win", src |-> p, dst |-> d, tag |-> 0, call |-> call[p],
     items |-> {[origin |-> p, data |-> Data(p, call[p], d)]}] :
       d \in DOMAIN load[p][call[p]] }

LEMMA PutMessagesType ==
  ASSUME load \in Loads, NEW p \in Proc, call[p] \in Calls, NEW m \in PutMessages(p)
  PROVE  /\ m \in MessageSet /\ m.comm = "win" /\ m.src = p /\ m.call = call[p]
         /\ m.dst \in Proc /\ m.dst \in DOMAIN load[p][call[p]]
         /\ m.items = {Slot(p, call[p], m.dst)}
         /\ m.items \subseteq ReportSet
<1>1. PICK d \in DOMAIN load[p][call[p]] :
        m = [comm |-> "win", src |-> p, dst |-> d, tag |-> 0, call |-> call[p],
             items |-> {[origin |-> p, data |-> Data(p, call[p], d)]}]
  BY DEF PutMessages
<1>2. d \in Proc /\ Data(p, call[p], d) \in DataSet /\ 0 \in 0 .. MaxTag - 1
  BY LoadType, ConstAssumption
<1>3. [origin |-> p, data |-> Data(p, call[p], d)] \in ReportSet
  BY <1>2 DEF ReportSet
<1> HIDE DEF Data
<1>. QED  BY <1>1, <1>2, <1>3 DEF MessageSet, Slot

LEMMA UnpackedType ==
  ASSUME NEW m \in MessageSet, m.items \subseteq PackedSet, NEW p \in Proc
  PROVE  Unpacked(p, m) \subseteq HeldSet
<1>1. Origin(p, m) \in Proc
  BY RankNumber, NumberOfRank DEF Origin, MessageSet
<1>. QED  BY <1>1 DEF Unpacked, HeldSet, PackedSet

LEMMA MessageType ==
  ASSUME NEW m \in MessageSet
  PROVE  /\ [m EXCEPT !.items = {}] \in MessageSet
         /\ m.src \in Proc /\ m.dst \in Proc /\ m.call \in Calls
         /\ m.comm \in {"group", "local", "win"}
BY DEF MessageSet

(* What is in flight has the type of its communicator. *)
FlightTyped(F) ==
  /\ F \subseteq MessageSet
  /\ \A m \in F : m.items \subseteq (IF m.comm = "group" THEN PackedSet ELSE ReportSet)

LEMMA FlightType ==
  ASSUME NEW F, FlightTyped(F)
  PROVE  \A m \in F : /\ [m EXCEPT !.items = {}] \in MessageSet
                      /\ m.items \subseteq (IF m.comm = "group" THEN PackedSet ELSE ReportSet)
BY MessageType DEF FlightTyped
LEMMA TypedInit == Init => Typed
<1> SUFFICES ASSUME Init PROVE Typed
  OBVIOUS
<1>1. 126 % MaxTag \in 0 .. MaxTag - 1 /\ 0 \in 0 .. MaxTag - 1
  BY ConstAssumption, SMT
<1>2. method \in [Calls -> Methods] /\ load \in [Proc -> [Calls -> Patterns]] /\ load \in Loads
  BY ConstAssumption DEF Init
<1>3. /\ pc \in [Proc -> Locations] /\ call \in [Proc -> 0 .. MaxCalls]
      /\ commTag \in [Proc -> 0 .. MaxTag - 1] /\ tag \in [Proc -> 0 .. MaxTag - 1]
      /\ entered \in [Proc -> [Collectives -> 0 .. MaxCalls]]
  BY <1>1, ConstAssumption DEF Init, Locations
<1>4. /\ nodeBuf \in [Proc -> [Calls -> SUBSET HeldSet]]
      /\ win \in [Proc -> SUBSET ReportSet] /\ got \in [Proc -> [Calls -> SUBSET ReportSet]]
  BY DEF Init
<1>5. flight = {} /\ \A p \in Proc : pc[p] = "idle"
  BY DEF Init
<1>. QED
  BY <1>2, <1>3, <1>4, <1>5 DEF Typed, TypeOK, InCall

(* The types of the variables of one rank. *)
Scalars ==
  /\ method \in [Calls -> Methods] /\ load \in Loads
  /\ pc \in [Proc -> Locations] /\ call \in [Proc -> 0 .. MaxCalls]
  /\ commTag \in [Proc -> 0 .. MaxTag - 1] /\ tag \in [Proc -> 0 .. MaxTag - 1]
  /\ entered \in [Proc -> [Collectives -> 0 .. MaxCalls]]
  /\ InCall
Buffers ==
  /\ nodeBuf \in [Proc -> [Calls -> SUBSET HeldSet]]
  /\ win \in [Proc -> SUBSET ReportSet] /\ got \in [Proc -> [Calls -> SUBSET ReportSet]]

LEMMA TypedParts == Typed <=> Scalars /\ Buffers /\ FlightTyped(flight)
<1>1. Typed => Scalars /\ Buffers /\ FlightTyped(flight)
  BY DEF Typed, TypeOK, Scalars, Buffers, FlightTyped
<1>2. Scalars /\ Buffers /\ FlightTyped(flight) => Typed
  <2> SUFFICES ASSUME Scalars, Buffers, FlightTyped(flight) PROVE Typed
    OBVIOUS
  <2>1. load \in [Proc -> [Calls -> Patterns]]
    BY ConstAssumption DEF Scalars
  <2>2. \A p \in Proc, c \in Calls : nodeBuf[p][c] \subseteq HeldSet /\ got[p][c] \subseteq ReportSet
    BY DEF Buffers
  <2>3. \A p \in Proc : win[p] \subseteq ReportSet
    BY DEF Buffers
  <2>4. flight \subseteq MessageSet
    BY DEF FlightTyped
  <2>. QED
    BY <2>1, <2>2, <2>3, <2>4, FlightType DEF Typed, TypeOK, Scalars, Buffers
<1>. QED  BY <1>1, <1>2

LEMMA EnterType ==
  ASSUME Scalars, NEW p \in Proc, NEW methods, NEW where, Enter(p, methods, where)
  PROVE  /\ call[p] + 1 \in Calls /\ call'[p] = call[p] + 1
         /\ call' \in [Proc -> 0 .. MaxCalls] /\ \A q \in Proc : q # p => call'[q] = call[q]
         /\ pc[p] = "idle" /\ pc'[p] = where /\ \A q \in Proc : q # p => pc'[q] = pc[q]
         /\ method[call[p] + 1] \in methods
         /\ where \in Locations => pc' \in [Proc -> Locations]
         /\ \A q \in Proc : pc'[q] # "idle" => call'[q] \in Calls
<1>1. call[p] + 1 \in Calls
  BY ConstAssumption DEF Scalars, Enter, Calls
<1>. QED  BY <1>1, ConstAssumption DEF Scalars, Enter, Calls, InCall

LEMMA EnteredType ==
  ASSUME Scalars, NEW p \in Proc, NEW s \in Collectives, NEW n \in 0 .. MaxCalls,
         entered' = [entered EXCEPT ![p][s] = n]
  PROVE  /\ entered' \in [Proc -> [Collectives -> 0 .. MaxCalls]]
         /\ entered'[p][s] = n
         /\ \A t \in Collectives : t # s => entered'[p][t] = entered[p][t]
         /\ \A q \in Proc : q # p => entered'[q] = entered[q]
BY DEF Scalars

LEMMA TakeTagType ==
  ASSUME Scalars, NEW p \in Proc, TakeTag(p)
  PROVE  /\ commTag' \in [Proc -> 0 .. MaxTag - 1] /\ tag' \in [Proc -> 0 .. MaxTag - 1]
         /\ tag'[p] = commTag[p] /\ commTag'[p] = NextTag(commTag[p])
         /\ \A q \in Proc : q # p => tag'[q] = tag[q] /\ commTag'[q] = commTag[q]
<1>1. NextTag(commTag[p]) \in 0 .. MaxTag - 1
  BY NextTagRange DEF Scalars
<1>. QED  BY <1>1 DEF Scalars, TakeTag

LEMMA ScalarsStep == Scalars /\ [Next]_vars => Scalars'
<1> SUFFICES ASSUME Scalars, [Next]_vars PROVE Scalars'
  OBVIOUS
<1> USE DEF InCall, Locations
<1>1. ASSUME NEW p \in Proc,
             \/ AlltoallPersonalizedLoc(p) \/ AlltoallvPersonalizedLoc(p)
      PROVE  Scalars'
  <2>1. PICK methods : Enter(p, methods, "groupAllreduce")
    BY <1>1 DEF AlltoallPersonalizedLoc, AlltoallvPersonalizedLoc
  <2>2. TakeTag(p) /\ entered' = [entered EXCEPT ![p]["group"] = call[p] + 1]
        /\ method' = method /\ load' = load
    BY <1>1 DEF AlltoallPersonalizedLoc, AlltoallvPersonalizedLoc
  <2>3. call[p] + 1 \in 0 .. MaxCalls
    BY <2>1, EnterType DEF Calls
  <2>4. entered' \in [Proc -> [Collectives -> 0 .. MaxCalls]]
    BY <2>2, <2>3, EnteredType DEF Collectives
  <2>. QED  BY <2>1, <2>2, <2>4, EnterType, TakeTagType DEF Scalars
<1>2. ASSUME NEW p \in Proc,
             \/ AlltoallNonblockingLoc(p) \/ AlltoallvNonblockingLoc(p)
      PROVE  Scalars'
  <2>1. PICK methods : Enter(p, methods, "groupLoop")
    BY <1>2 DEF AlltoallNonblockingLoc, AlltoallvNonblockingLoc
  <2>2. TakeTag(p) /\ entered' = entered /\ method' = method /\ load' = load
    BY <1>2 DEF AlltoallNonblockingLoc, AlltoallvNonblockingLoc
  <2>. QED  BY <2>1, <2>2, EnterType, TakeTagType DEF Scalars
<1>3. ASSUME NEW p \in Proc, RmaClear(p)
      PROVE  Scalars'
  <2>1. Enter(p, {"rma"}, "rmaClear")
    BY <1>3 DEF RmaClear
  <2>2. /\ entered' = [entered EXCEPT ![p]["clear"] = call[p] + 1]
        /\ method' = method /\ load' = load /\ tag' = tag /\ commTag' = commTag
    BY <1>3 DEF RmaClear
  <2>3. call[p] + 1 \in 0 .. MaxCalls
    BY <2>1, EnterType DEF Calls
  <2>4. entered' \in [Proc -> [Collectives -> 0 .. MaxCalls]]
    BY <2>2, <2>3, EnteredType DEF Collectives
  <2>. QED  BY <2>1, <2>2, <2>4, EnterType DEF Scalars
<1>4. ASSUME NEW p \in Proc, LocalRedistribute(p)
      PROVE  Scalars'
  BY <1>4, TakeTagType DEF Scalars, LocalRedistribute, PhaseOneOver, Collectives
<1>5. ASSUME NEW p \in Proc, LocalRedistributev(p)
      PROVE  Scalars'
  BY <1>5 DEF Scalars, LocalRedistributev, PhaseOneOver, Collectives
<1>6. ASSUME NEW p \in Proc, LocalAllreduce(p)
      PROVE  Scalars'
  BY <1>6 DEF Scalars, LocalAllreduce
<1>7. ASSUME NEW p \in Proc, LocalAllreducev(p)
      PROVE  Scalars'
  BY <1>7, TakeTagType DEF Scalars, LocalAllreducev
<1>8. ASSUME NEW p \in Proc, GroupAllreduce(p)
      PROVE  Scalars'
  BY <1>8 DEF Scalars, GroupAllreduce
<1>9. ASSUME NEW p \in Proc, GroupProbe(p) \/ GroupIprobe(p) \/ LocalProbe(p) \/ PutLands(p)
      PROVE  Scalars'
  BY <1>9 DEF Scalars, GroupProbe, GroupIprobe, LocalProbe, PutLands, ReceiveForNode
<1>10. ASSUME NEW p \in Proc, Testall(p)
       PROVE  Scalars'
  BY <1>10 DEF Scalars, Testall, Collectives
<1>11. ASSUME NEW p \in Proc, Return(p) \/ RmaScan(p)
       PROVE  Scalars'
  BY <1>11 DEF Scalars, Return, RmaScan
<1>12. ASSUME NEW p \in Proc, RmaPut(p)
       PROVE  Scalars'
  BY <1>12 DEF Scalars, RmaPut, Collectives
<1>13. CASE UNCHANGED vars
  BY <1>13 DEF Scalars, vars
<1>. QED
  BY <1>1, <1>2, <1>3, <1>4, <1>5, <1>6, <1>7, <1>8, <1>9, <1>10, <1>11, <1>12, <1>13
  DEF Next, Step, Finished

LEMMA BuffersStep ==
  Scalars /\ Buffers /\ FlightTyped(flight) /\ [Next]_vars => Buffers' /\ FlightTyped(flight)'
<1> SUFFICES ASSUME Scalars, Buffers, FlightTyped(flight), [Next]_vars
             PROVE  Buffers' /\ FlightTyped(flight')
  BY DEF FlightTyped
<1> USE DEF InCall
<1>1. ASSUME NEW p \in Proc,
             \/ AlltoallNonblockingLoc(p) \/ AlltoallvNonblockingLoc(p)
      PROVE  Buffers' /\ FlightTyped(flight')
  <2>1. PICK methods, where : Enter(p, methods, where)
    BY <1>1 DEF AlltoallNonblockingLoc, AlltoallvNonblockingLoc
  <2>2. flight' = flight \cup NodeMessages(p, call[p] + 1, commTag[p]) /\ UNCHANGED <<nodeBuf, win, got>>
    BY <1>1 DEF AlltoallNonblockingLoc, AlltoallvNonblockingLoc
  <2>3. call[p] + 1 \in Calls /\ commTag[p] \in 0 .. MaxTag - 1 /\ load \in Loads
    BY <2>1, EnterType DEF Scalars
  <2>. QED  BY <2>2, <2>3, NodeMessagesType DEF Buffers, FlightTyped
<1>2. ASSUME NEW p \in Proc, GroupAllreduce(p)
      PROVE  Buffers' /\ FlightTyped(flight')
  <2>1. call[p] \in Calls /\ tag[p] \in 0 .. MaxTag - 1 /\ load \in Loads
    BY <1>2 DEF Scalars, GroupAllreduce
  <2>. QED  BY <1>2, <2>1, NodeMessagesType DEF Buffers, FlightTyped, GroupAllreduce
<1>3. ASSUME NEW p \in Proc, LocalAllreduce(p) \/ LocalAllreducev(p)
      PROVE  Buffers' /\ FlightTyped(flight')
  <2>1. call[p] \in Calls /\ nodeBuf[p][call[p]] \subseteq HeldSet
    BY <1>3 DEF Scalars, Buffers, LocalAllreduce, LocalAllreducev
  <2>2. PICK t \in 0 .. MaxTag - 1 : flight' = flight \cup LocalMessages(p, call[p], t)
    BY <1>3 DEF Scalars, LocalAllreduce, LocalAllreducev
  <2>3. UNCHANGED <<nodeBuf, win, got>>
    BY <1>3 DEF LocalAllreduce, LocalAllreducev
  <2>4. \A m \in LocalMessages(p, call[p], t) :
          m \in MessageSet /\ m.comm = "local" /\ m.items \subseteq ReportSet
    BY <2>1, LocalMessagesType
  <2>. QED  BY <2>2, <2>3, <2>4 DEF Buffers, FlightTyped
<1>4. ASSUME NEW p \in Proc, GroupProbe(p) \/ GroupIprobe(p)
      PROVE  Buffers' /\ FlightTyped(flight')
  <2>1. call[p] \in Calls
    BY <1>4 DEF Scalars, GroupProbe, GroupIprobe
  <2>2. PICK m \in Matching(p, "group") :
          /\ flight' = flight \ {m}
          /\ nodeBuf' = [nodeBuf EXCEPT ![p][call[p]] = @ \cup Unpacked(p, m)]
    BY <1>4 DEF GroupProbe, GroupIprobe, ReceiveForNode
  <2>3. m \in flight /\ m \in MessageSet /\ m.items \subseteq PackedSet
    BY <2>2 DEF Matching, FlightTyped
  <2>4. Unpacked(p, m) \subseteq HeldSet
    BY <2>3, UnpackedType
  <2>5. nodeBuf' \in [Proc -> [Calls -> SUBSET HeldSet]]
    BY <2>1, <2>2, <2>4 DEF Buffers
  <2>6. UNCHANGED <<win, got>>
    BY <1>4 DEF GroupProbe, GroupIprobe, ReceiveForNode
  <2>. QED  BY <2>2, <2>5, <2>6 DEF Buffers, FlightTyped
<1>5. ASSUME NEW p \in Proc, LocalProbe(p)
      PROVE  Buffers' /\ FlightTyped(flight')
  <2>1. call[p] \in Calls
    BY <1>5 DEF Scalars, LocalProbe
  <2>2. PICK m \in Matching(p, "local") :
          flight' = flight \ {m} /\ got' = [got EXCEPT ![p][call[p]] = @ \cup m.items]
    BY <1>5 DEF LocalProbe
  <2>3. m \in flight /\ m.items \subseteq ReportSet
    BY <2>2 DEF Matching, FlightTyped
  <2>4. got' \in [Proc -> [Calls -> SUBSET ReportSet]]
    BY <2>1, <2>2, <2>3 DEF Buffers
  <2>5. UNCHANGED <<win, nodeBuf>>
    BY <1>5 DEF LocalProbe
  <2>. QED  BY <2>2, <2>4, <2>5 DEF Buffers, FlightTyped
<1>6. ASSUME NEW p \in Proc, RmaClear(p)
      PROVE  Buffers' /\ FlightTyped(flight')
  BY <1>6 DEF RmaClear, Buffers, FlightTyped
<1>7. ASSUME NEW p \in Proc, RmaPut(p)
      PROVE  Buffers' /\ FlightTyped(flight')
  <2>1. call[p] \in Calls /\ load \in Loads
    BY <1>7 DEF Scalars, RmaPut
  <2>2. flight' = flight \cup PutMessages(p) /\ UNCHANGED <<nodeBuf, win, got>>
    BY <1>7 DEF RmaPut, PutMessages
  <2>. QED  BY <2>1, <2>2, PutMessagesType DEF Buffers, FlightTyped
<1>8. ASSUME NEW p \in Proc, PutLands(p)
      PROVE  Buffers' /\ FlightTyped(flight')
  <2>1. PICK m \in { n \in flight : n.comm = "win" /\ n.dst = p } :
          /\ flight' = flight \ {m}
          /\ win' = [win EXCEPT ![p] = { i \in @ : i.origin # m.src }
                                         \cup { i \in m.items : i.data.count > 0 }]
    BY <1>8 DEF PutLands
  <2>2. m.items \subseteq ReportSet
    BY DEF FlightTyped
  <2>3. win' \in [Proc -> SUBSET ReportSet]
    BY <2>1, <2>2 DEF Buffers
  <2>4. UNCHANGED <<got, nodeBuf>>
    BY <1>8 DEF PutLands
  <2>. QED  BY <2>1, <2>3, <2>4 DEF Buffers, FlightTyped
<1>9. ASSUME NEW p \in Proc, RmaScan(p)
      PROVE  Buffers' /\ FlightTyped(flight')
  BY <1>9 DEF RmaScan, Buffers, FlightTyped, Scalars
<1>10. ASSUME UNCHANGED <<flight, nodeBuf, win, got>>
       PROVE  Buffers' /\ FlightTyped(flight')
  BY <1>10 DEF Buffers, FlightTyped
<1>11. ASSUME NEW p \in Proc,
              \/ AlltoallPersonalizedLoc(p) \/ AlltoallvPersonalizedLoc(p) \/ Testall(p)
              \/ LocalRedistribute(p) \/ LocalRedistributev(p) \/ Return(p)
       PROVE  UNCHANGED <<flight, nodeBuf, win, got>>
  BY <1>11 DEF AlltoallPersonalizedLoc, AlltoallvPersonalizedLoc, Testall, LocalRedistribute,
               LocalRedistributev, Return
<1>. QED
  BY <1>1, <1>2, <1>3, <1>4, <1>5, <1>6, <1>7, <1>8, <1>9, <1>10, <1>11 DEF Next, Step, Finished, vars

LEMMA TypedStep == Typed /\ [Next]_vars => Typed'
<1>1. Typed' <=> Scalars' /\ Buffers' /\ FlightTyped(flight)'
  BY TypedParts, PTL
<1>. QED  BY <1>1, TypedParts, ScalarsStep, BuffersStep

(* The variables keep their types. *)
THEOREM TypeCorrect == Spec => []TypeOK
<1>1. Typed => TypeOK
  BY DEF Typed
<1>. QED  BY <1>1, TypedInit, TypedStep, PTL DEF Spec
-----------------------------------------------------------------------------
(* How a step moves a rank: from a place to another, into its next call if  *)
(* n = 1, entering collective s.                                            *)
Move(p, from, to, n, s) ==
  /\ pc[p] \in from /\ pc'[p] = to
  /\ call'[p] = call[p] + n
  /\ \A t \in Collectives : entered'[p][t] = IF t = s THEN call'[p] ELSE entered[p][t]
  /\ \A q \in Proc : q # p => pc'[q] = pc[q] /\ call'[q] = call[q] /\ entered'[q] = entered[q]
  /\ method' = method /\ load' = load
  /\ pc' \in [Proc -> Locations] /\ call' \in [Proc -> 0 .. MaxCalls]
  /\ entered' \in [Proc -> [Collectives -> 0 .. MaxCalls]]

Stays(p, places) ==
  /\ pc[p] \in places /\ UNCHANGED <<pc, call, entered, method, load, commTag, tag>>

Moves(p) ==
  \/ /\ Move(p, {"idle"}, "groupAllreduce", 1, "group") /\ TakeTag(p)
     /\ call'[p] \in Calls /\ method[call'[p]] \in Personalized
     /\ AlltoallPersonalizedLoc(p) \/ AlltoallvPersonalizedLoc(p)
  \/ /\ Move(p, {"idle"}, "groupLoop", 1, "none") /\ TakeTag(p)
     /\ call'[p] \in Calls /\ method[call'[p]] \in Nonblocking
     /\ AlltoallNonblockingLoc(p) \/ AlltoallvNonblockingLoc(p)
  \/ /\ Move(p, {"groupAllreduce"}, "groupProbe", 0, "none") /\ UNCHANGED <<commTag, tag>>
     /\ AllEntered(p, Group(p), "group")
     /\ GroupAllreduce(p)
  \/ /\ Move(p, {"groupLoop"}, "groupLoop", 0, "group") /\ UNCHANGED <<commTag, tag>>
     /\ Testall(p)
  \/ /\ Move(p, {"groupProbe", "groupLoop"}, "localAllreduce", 0, "local")
     /\ pc[p] = "groupLoop" => AllEntered(p, Group(p), "group")
     /\ IF method[call[p]] \in Fixed THEN TakeTag(p) ELSE UNCHANGED <<commTag, tag>>
     /\ LocalRedistribute(p) \/ LocalRedistributev(p)
  \/ /\ Move(p, {"localAllreduce"}, "localProbe", 0, "none")
     /\ AllEntered(p, Local(p), "local")
     /\ IF method[call[p]] \in Fixed THEN UNCHANGED <<commTag, tag>> ELSE TakeTag(p)
     /\ LocalAllreduce(p) \/ LocalAllreducev(p)
  \/ /\ Move(p, {"localProbe"}, "idle", 0, "none") /\ UNCHANGED <<commTag, tag>>
     /\ Return(p)
  \/ /\ Move(p, {"idle"}, "rmaClear", 1, "clear") /\ UNCHANGED <<commTag, tag>>
     /\ call'[p] \in Calls /\ method[call'[p]] = "rma"
     /\ RmaClear(p)
  \/ /\ Move(p, {"rmaClear"}, "rmaPut", 0, "put") /\ UNCHANGED <<commTag, tag>>
     /\ AllEntered(p, Proc, "clear")
     /\ RmaPut(p)
  \/ /\ Move(p, {"rmaPut"}, "idle", 0, "none") /\ UNCHANGED <<commTag, tag>>
     /\ AllEntered(p, Proc, "put")
     /\ RmaScan(p)
  \/ Stays(p, {"groupProbe", "groupLoop"}) /\ (GroupProbe(p) \/ GroupIprobe(p))
  \/ Stays(p, {"localProbe"}) /\ LocalProbe(p)
  \/ Stays(p, Locations) /\ PutLands(p)

LEMMA BeginMove ==
  ASSUME Scalars, NEW p \in Proc, NEW methods, NEW where \in Locations, Enter(p, methods, where),
         NEW s, s \in Collectives => entered' = [entered EXCEPT ![p][s] = call[p] + 1],
         s = "none" => entered' = entered, s \in Collectives \cup {"none"},
         method' = method, load' = load
  PROVE  /\ Move(p, {"idle"}, where, 1, s)
         /\ call'[p] \in Calls /\ method[call'[p]] \in methods
<1>1. call[p] + 1 \in Calls /\ call[p] + 1 \in 0 .. MaxCalls /\ call'[p] = call[p] + 1
  BY EnterType DEF Calls
<1>2. CASE s = "none"
  BY <1>1, <1>2, EnterType DEF Move, Scalars, Collectives
<1>3. CASE s \in Collectives
  BY <1>1, <1>3, EnterType, EnteredType DEF Move
<1>. QED  BY <1>2, <1>3

LEMMA WithinMove ==
  ASSUME Scalars, NEW p \in Proc, NEW from, pc[p] \in from, NEW to \in Locations,
         pc' = [pc EXCEPT ![p] = to], call' = call,
         NEW s, s \in Collectives => entered' = [entered EXCEPT ![p][s] = call[p]],
         s = "none" => entered' = entered, s \in Collectives \cup {"none"},
         method' = method, load' = load
  PROVE  Move(p, from, to, 0, s)
<1>1. call[p] \in 0 .. MaxCalls /\ call' \in [Proc -> 0 .. MaxCalls] /\ call'[p] = call[p] + 0
  BY DEF Scalars
<1>2. pc' \in [Proc -> Locations] /\ pc'[p] = to /\ \A q \in Proc : q # p => pc'[q] = pc[q]
  BY DEF Scalars
<1>3. CASE s = "none"
  BY <1>1, <1>2, <1>3 DEF Move, Scalars, Collectives
<1>4. CASE s \in Collectives
  BY <1>1, <1>2, <1>4, EnteredType DEF Move
<1>. QED  BY <1>3, <1>4

LEMMA StepMoves ==
  ASSUME Scalars, NEW p \in Proc, Step(p) \/ PutLands(p)
  PROVE  Moves(p)
<1>0. /\ "group" \in Collectives /\ "local" \in Collectives /\ "clear" \in Collectives
      /\ "put" \in Collectives /\ "none" \notin Collectives
      /\ \A l \in {"groupAllreduce", "groupProbe", "groupLoop", "localAllreduce", "localProbe",
                   "idle", "rmaClear", "rmaPut"} : l \in Locations
  BY DEF Collectives, Locations
<1>1. CASE AlltoallPersonalizedLoc(p) \/ AlltoallvPersonalizedLoc(p)
  <2>1. PICK methods : Enter(p, methods, "groupAllreduce") /\ methods \subseteq Personalized
    BY <1>1 DEF AlltoallPersonalizedLoc, AlltoallvPersonalizedLoc, Personalized
  <2>2. /\ TakeTag(p) /\ entered' = [entered EXCEPT ![p]["group"] = call[p] + 1]
        /\ method' = method /\ load' = load
    BY <1>1 DEF AlltoallPersonalizedLoc, AlltoallvPersonalizedLoc
  <2>3. /\ Move(p, {"idle"}, "groupAllreduce", 1, "group") /\ call'[p] \in Calls
        /\ method[call'[p]] \in Personalized
    BY <2>1, <2>2, <1>0, BeginMove
  <2>. QED  BY <1>1, <2>2, <2>3 DEF Moves
<1>2. CASE AlltoallNonblockingLoc(p) \/ AlltoallvNonblockingLoc(p)
  <2>1. PICK methods : Enter(p, methods, "groupLoop") /\ methods \subseteq Nonblocking
    BY <1>2 DEF AlltoallNonblockingLoc, AlltoallvNonblockingLoc, Nonblocking
  <2>2. TakeTag(p) /\ entered' = entered /\ method' = method /\ load' = load
    BY <1>2 DEF AlltoallNonblockingLoc, AlltoallvNonblockingLoc
  <2>3. /\ Move(p, {"idle"}, "groupLoop", 1, "none") /\ call'[p] \in Calls
        /\ method[call'[p]] \in Nonblocking
    BY <2>1, <2>2, <1>0, BeginMove
  <2>. QED  BY <1>2, <2>2, <2>3 DEF Moves
<1>3. CASE GroupAllreduce(p)
  <2>1. Move(p, {"groupAllreduce"}, "groupProbe", 0, "none")
    BY <1>3, <1>0, WithinMove DEF GroupAllreduce
  <2>. QED  BY <1>3, <2>1 DEF Moves, GroupAllreduce
<1>4. CASE Testall(p)
  <2>1. pc[p] = "groupLoop" /\ pc' = [pc EXCEPT ![p] = "groupLoop"]
    BY <1>4 DEF Testall, Scalars
  <2>2. Move(p, {"groupLoop"}, "groupLoop", 0, "group")
    BY <1>4, <2>1, <1>0, WithinMove DEF Testall
  <2>. QED  BY <1>4, <2>2 DEF Moves, Testall
<1>5. CASE LocalRedistribute(p) \/ LocalRedistributev(p)
  <2>1. /\ pc[p] \in {"groupProbe", "groupLoop"} /\ pc' = [pc EXCEPT ![p] = "localAllreduce"]
        /\ entered' = [entered EXCEPT ![p]["local"] = call[p]]
        /\ call' = call /\ method' = method /\ load' = load
        /\ pc[p] = "groupLoop" => AllEntered(p, Group(p), "group")
    BY <1>5 DEF LocalRedistribute, LocalRedistributev, PhaseOneOver
  <2>2. Move(p, {"groupProbe", "groupLoop"}, "localAllreduce", 0, "local")
    BY <2>1, <1>0, WithinMove
  <2>3. IF method[call[p]] \in Fixed THEN TakeTag(p) ELSE UNCHANGED <<commTag, tag>>
    BY <1>5 DEF LocalRedistribute, LocalRedistributev
  <2>. QED  BY <1>5, <2>1, <2>2, <2>3 DEF Moves
<1>6. CASE LocalAllreduce(p) \/ LocalAllreducev(p)
  <2>1. /\ pc[p] \in {"localAllreduce"} /\ pc' = [pc EXCEPT ![p] = "localProbe"]
        /\ entered' = entered /\ call' = call /\ method' = method /\ load' = load
        /\ AllEntered(p, Local(p), "local")
    BY <1>6 DEF LocalAllreduce, LocalAllreducev
  <2>2. Move(p, {"localAllreduce"}, "localProbe", 0, "none")
    BY <2>1, <1>0, WithinMove
  <2>3. IF method[call[p]] \in Fixed THEN UNCHANGED <<commTag, tag>> ELSE TakeTag(p)
    BY <1>6 DEF LocalAllreduce, LocalAllreducev
  <2>. QED  BY <1>6, <2>1, <2>2, <2>3 DEF Moves
<1>7. CASE Return(p)
  <2>1. Move(p, {"localProbe"}, "idle", 0, "none")
    BY <1>7, <1>0, WithinMove DEF Return
  <2>. QED  BY <1>7, <2>1 DEF Moves, Return
<1>8. CASE RmaClear(p)
  <2>1. Move(p, {"idle"}, "rmaClear", 1, "clear") /\ call'[p] \in Calls /\ method[call'[p]] \in {"rma"}
    BY <1>8, <1>0, BeginMove DEF RmaClear
  <2>. QED  BY <1>8, <2>1 DEF Moves, RmaClear
<1>9. CASE RmaPut(p)
  <2>1. Move(p, {"rmaClear"}, "rmaPut", 0, "put")
    BY <1>9, <1>0, WithinMove DEF RmaPut
  <2>. QED  BY <1>9, <2>1 DEF Moves, RmaPut
<1>10. CASE RmaScan(p)
  <2>1. Move(p, {"rmaPut"}, "idle", 0, "none")
    BY <1>10, <1>0, WithinMove DEF RmaScan
  <2>. QED  BY <1>10, <2>1 DEF Moves, RmaScan, Fence
<1>11. CASE GroupProbe(p) \/ GroupIprobe(p)
  BY <1>11 DEF Moves, Stays, GroupProbe, GroupIprobe, ReceiveForNode
<1>12. CASE LocalProbe(p)
  BY <1>12 DEF Moves, Stays, LocalProbe
<1>13. CASE PutLands(p)
  BY <1>13 DEF Moves, Stays, PutLands, Scalars
<1>. QED
  BY <1>1, <1>2, <1>3, <1>4, <1>5, <1>6, <1>7, <1>8, <1>9, <1>10, <1>11, <1>12, <1>13 DEF Step
-----------------------------------------------------------------------------
(* The ranks. *)
LEMMA NextMoves ==
  ASSUME Scalars, [Next]_vars
  PROVE  UNCHANGED vars \/ \E p \in Proc : Moves(p)
BY StepMoves DEF Next, Finished, vars

LEMMA MethodKinds ==
  /\ \A c : method[c] \in Personalized \cup Nonblocking => TwoPhase(c)
  /\ \A c : method[c] \in Personalized => method[c] \notin Nonblocking
  /\ \A c : method[c] = "rma" <=> ~ TwoPhase(c)
BY DEF Personalized, Nonblocking, TwoPhase

LEMMA ControlInit == Init => Control
BY DEF Init, Control, PlaceFitsMethod, EnteredNow, EnteredBefore, Past, Returned, Collectives,
       LocalPlaces, RmaPlaces, Calls

LEMMA PlaceFitsStep ==
  ASSUME Scalars, PlaceFitsMethod, NEW p \in Proc, Moves(p)
  PROVE  PlaceFitsMethod'
<1>1. method' = method /\ \A c : TwoPhase(c)' <=> TwoPhase(c)
  BY DEF Moves, Move, Stays, TwoPhase
<1>2. ASSUME NEW q \in Proc, q # p
      PROVE  pc'[q] = pc[q] /\ call'[q] = call[q]
  BY <1>2 DEF Moves, Move, Stays
<1>3. /\ pc'[p] \in {"groupAllreduce", "groupProbe"} => method[call'[p]] \in Personalized
      /\ pc'[p] = "groupLoop" => method[call'[p]] \in Nonblocking
      /\ pc'[p] \in LocalPlaces => TwoPhase(call'[p])
      /\ pc'[p] \in RmaPlaces => ~ TwoPhase(call'[p])
  BY MethodKinds DEF Moves, Move, Stays, PlaceFitsMethod, LocalPlaces, RmaPlaces, Scalars
<1>. QED  BY <1>1, <1>2, <1>3 DEF PlaceFitsMethod

LEMMA EnteredNowStep ==
  ASSUME Scalars, PlaceFitsMethod, EnteredNow, NEW p \in Proc, Moves(p)
  PROVE  EnteredNow'
<1>0. /\ call[p] \in 0 .. MaxCalls /\ MaxCalls \in Nat
      /\ \A s \in Collectives : entered[p][s] \in 0 .. MaxCalls
  BY ConstAssumption DEF Scalars
<1>1. ASSUME NEW q \in Proc, q # p
      PROVE  pc'[q] = pc[q] /\ call'[q] = call[q] /\ entered'[q] = entered[q]
  BY <1>1 DEF Moves, Move, Stays
<1>2. /\ \A s \in Collectives : entered'[p][s] <= call'[p]
      /\ pc'[p] \in {"groupAllreduce", "groupProbe"} \cup LocalPlaces =>
           entered'[p]["group"] = call'[p]
      /\ entered'[p]["group"] = call'[p] => pc'[p] \notin RmaPlaces
      /\ pc'[p] \in LocalPlaces => entered'[p]["local"] = call'[p]
      /\ entered'[p]["local"] = call'[p] => pc'[p] \in {"idle"} \cup LocalPlaces
      /\ pc'[p] \in RmaPlaces => entered'[p]["clear"] = call'[p]
      /\ entered'[p]["clear"] = call'[p] => pc'[p] \in {"idle"} \cup RmaPlaces
      /\ pc'[p] = "rmaPut" => entered'[p]["put"] = call'[p]
      /\ entered'[p]["put"] = call'[p] => pc'[p] \in {"idle", "rmaPut"}
  <2> USE <1>0 DEF Move, LocalPlaces, RmaPlaces, Collectives, EnteredNow
  <2>1. CASE Stays(p, Locations) \/ Stays(p, {"groupProbe", "groupLoop"}) \/ Stays(p, {"localProbe"})
    BY <2>1 DEF Stays
  <2>2. CASE Move(p, {"idle"}, "groupAllreduce", 1, "group")
    BY <2>2
  <2>3. CASE Move(p, {"idle"}, "groupLoop", 1, "none")
    BY <2>3
  <2>4. CASE Move(p, {"groupAllreduce"}, "groupProbe", 0, "none")
    BY <2>4
  <2>5. CASE Move(p, {"groupLoop"}, "groupLoop", 0, "group")
    BY <2>5
  <2>6. CASE Move(p, {"groupProbe", "groupLoop"}, "localAllreduce", 0, "local")
             /\ (pc[p] = "groupLoop" => AllEntered(p, Group(p), "group"))
    <3>1. entered[p]["group"] >= call[p]
      BY <2>6, CommRanks DEF AllEntered
    <3>. QED  BY <2>6, <3>1
  <2>7. CASE Move(p, {"localAllreduce"}, "localProbe", 0, "none")
    BY <2>7
  <2>8. CASE Move(p, {"localProbe"}, "idle", 0, "none")
    BY <2>8
  <2>9. CASE Move(p, {"idle"}, "rmaClear", 1, "clear")
    BY <2>9
  <2>10. CASE Move(p, {"rmaClear"}, "rmaPut", 0, "put")
    BY <2>10
  <2>11. CASE Move(p, {"rmaPut"}, "idle", 0, "none")
    BY <2>11
  <2>. QED
    BY <2>1, <2>2, <2>3, <2>4, <2>5, <2>6, <2>7, <2>8, <2>9, <2>10, <2>11 DEF Moves
<1>. QED  BY <1>1, <1>2 DEF EnteredNow

(* The collectives entered only grow. *)
LEMMA EnteredGrows ==
  ASSUME Scalars, EnteredNow, NEW p \in Proc, Moves(p), NEW q \in Proc, NEW s \in Collectives
  PROVE  /\ entered[q][s] \in Nat /\ entered'[q][s] \in Nat /\ entered'[q][s] >= entered[q][s]
         /\ call[q] \in Nat /\ call'[q] \in Nat /\ call'[q] >= call[q]
<1>1. call[p] \in Nat /\ call[q] \in Nat /\ entered[q][s] \in Nat /\ entered[q][s] <= call[q]
  BY ConstAssumption DEF Scalars, EnteredNow
<1>. QED  BY <1>1 DEF Moves, Move, Stays

(* What is past stays past; a step passes at most the rank's own call. *)
LEMMA PastGrows ==
  ASSUME Scalars, NEW p \in Proc, Moves(p), NEW q \in Proc, NEW c \in Calls
  PROVE  /\ Past(q, c) => Past(q, c)'
         /\ Past(q, c)' => \/ Past(q, c)
                           \/ /\ q = p /\ c = call[p] /\ pc'[p] = "idle" /\ call'[p] = call[p]
                              /\ pc[p] \in {"localProbe", "rmaPut"}
<1>1. call[q] \in Nat /\ call[p] \in Nat /\ c \in Nat
  BY ConstAssumption DEF Scalars, Calls
<1>2. CASE q # p
  BY <1>1, <1>2 DEF Moves, Move, Stays, Past, Returned
<1>3. CASE q = p
  <2>1. \/ pc[p] = "idle" /\ pc'[p] # "idle" /\ call'[p] = call[p] + 1
        \/ pc[p] # "idle" /\ pc'[p] # "idle" /\ call'[p] = call[p]
        \/ pc[p] \in {"localProbe", "rmaPut"} /\ pc'[p] = "idle" /\ call'[p] = call[p]
        \/ pc'[p] = pc[p] /\ call'[p] = call[p]
    BY <1>1 DEF Moves, Move, Stays
  <2>. QED  BY <1>1, <1>3, <2>1 DEF Past, Returned
<1>. QED  BY <1>2, <1>3

LEMMA EnteredBeforeStep ==
  ASSUME Scalars, Control, NEW p \in Proc, Moves(p)
  PROVE  EnteredBefore'
<1>1. \A c : TwoPhase(c)' <=> TwoPhase(c)
  BY DEF Moves, Move, Stays, TwoPhase
<1>2. SUFFICES ASSUME NEW q \in Proc, NEW c \in Calls, Past(q, c)'
               PROVE  IF TwoPhase(c) THEN entered'[q]["group"] >= c /\ entered'[q]["local"] >= c
                                     ELSE entered'[q]["clear"] >= c /\ entered'[q]["put"] >= c
  BY <1>1 DEF EnteredBefore
<1>3. \A s \in Collectives : entered[q][s] \in Nat /\ entered'[q][s] \in Nat /\ entered'[q][s] >= entered[q][s]
  BY EnteredGrows DEF Control
<1>4. c \in Nat
  BY DEF Calls
<1>5. CASE Past(q, c)
  BY <1>3, <1>4, <1>5 DEF Control, EnteredBefore, Collectives
<1>6. CASE q = p /\ c = call[p] /\ pc[p] \in {"localProbe", "rmaPut"}
  BY <1>3, <1>4, <1>6 DEF Control, PlaceFitsMethod, EnteredNow, LocalPlaces, RmaPlaces, Collectives
<1>. QED  BY <1>2, <1>5, <1>6, PastGrows

LEMMA ControlStep == Scalars /\ Control /\ [Next]_vars => Control'
<1> SUFFICES ASSUME Scalars, Control, [Next]_vars PROVE Control'
  OBVIOUS
<1>1. CASE UNCHANGED vars
  BY <1>1 DEF vars, Control, PlaceFitsMethod, EnteredNow, EnteredBefore, Past, TwoPhase, Returned
<1>2. ASSUME NEW p \in Proc, Moves(p) PROVE Control'
  BY <1>2, PlaceFitsStep, EnteredNowStep, EnteredBeforeStep DEF Control
<1>. QED  BY <1>1, <1>2, NextMoves
LEMMA MethodKept ==
  ASSUME Scalars, NEW p \in Proc, Moves(p)
  PROVE  /\ method' = method /\ load' = load /\ \A c : TwoPhase(c)' <=> TwoPhase(c)
         /\ \A q \in Proc : call[q] \in Nat
         /\ \A c \in Calls : c \in Nat /\ c > 0
BY ConstAssumption DEF Moves, Move, Stays, TwoPhase, Scalars, Calls

(* What a rank has done in a call stays done, and which steps do it. *)
LEMMA DoneStays ==
  ASSUME Scalars, Control, NEW p \in Proc, Moves(p), NEW q \in Proc, NEW c \in Calls
  PROVE  /\ SentToNodes(q, c) => SentToNodes(q, c)'
         /\ HasNodeBuf(q, c) => HasNodeBuf(q, c)'
         /\ SentLocally(q, c) => SentLocally(q, c)'
         /\ HasPut(q, c) => HasPut(q, c)'
         /\ HasNodeBuf(q, c) => SentToNodes(q, c)
         /\ SentLocally(q, c) => HasNodeBuf(q, c)
<1>1. call[q] \in Nat /\ c \in Nat /\ (TwoPhase(c)' <=> TwoPhase(c)) /\ (Past(q, c) => Past(q, c)')
  BY PastGrows, MethodKept
<1>2. CASE q # p
  <2>1. \A S : At(q, c, S)' <=> At(q, c, S)
    BY <1>2 DEF Moves, Move, Stays, At
  <2>. QED  BY <1>1, <2>1 DEF SentToNodes, HasNodeBuf, SentLocally, HasPut, At, LocalPlaces
<1>3. CASE q = p
  <2>1. /\ At(p, c, {"groupProbe", "groupLoop"} \cup LocalPlaces) =>
             At(p, c, {"groupProbe", "groupLoop"} \cup LocalPlaces)' \/ Past(p, c)'
        /\ At(p, c, LocalPlaces) => At(p, c, LocalPlaces)' \/ Past(p, c)'
        /\ At(p, c, {"localProbe"}) => At(p, c, {"localProbe"})' \/ Past(p, c)'
        /\ At(p, c, {"rmaPut"}) => At(p, c, {"rmaPut"})' \/ Past(p, c)'
    BY <1>1, <1>3 DEF Moves, Move, Stays, At, Past, Returned, LocalPlaces
  <2>. QED  BY <1>1, <1>3, <2>1 DEF SentToNodes, HasNodeBuf, SentLocally, HasPut, At, LocalPlaces
<1>. QED  BY <1>2, <1>3

LEMMA DoneBy ==
  ASSUME Scalars, Control, NEW p \in Proc, Moves(p), NEW q \in Proc, NEW c \in Calls
  PROVE  /\ SentToNodes(q, c)' =>
              \/ SentToNodes(q, c)
              \/ /\ q = p /\ c = call'[p] /\ pc'[p] = "groupLoop" /\ pc[p] = "idle"
              \/ /\ q = p /\ c = call[p] /\ c = call'[p] /\ pc[p] = "groupAllreduce" /\ pc'[p] = "groupProbe"
         /\ HasNodeBuf(q, c)' =>
              \/ HasNodeBuf(q, c)
              \/ /\ q = p /\ c = call[p] /\ c = call'[p]
                 /\ pc[p] \in {"groupProbe", "groupLoop"} /\ pc'[p] = "localAllreduce"
         /\ SentLocally(q, c)' =>
              \/ SentLocally(q, c)
              \/ /\ q = p /\ c = call[p] /\ c = call'[p]
                 /\ pc[p] = "localAllreduce" /\ pc'[p] = "localProbe"
         /\ HasPut(q, c)' =>
              \/ HasPut(q, c)
              \/ /\ q = p /\ c = call[p] /\ c = call'[p] /\ pc[p] = "rmaClear" /\ pc'[p] = "rmaPut"
<1>1. /\ call[q] \in Nat /\ c \in Nat /\ (TwoPhase(c)' <=> TwoPhase(c))
      /\ \/ Past(q, c)' <=> Past(q, c)
         \/ q = p /\ c = call[p] /\ pc[p] \in {"localProbe", "rmaPut"}
  BY PastGrows, MethodKept
<1>2. CASE q # p
  <2>1. (Past(q, c)' <=> Past(q, c)) /\ \A S : At(q, c, S)' <=> At(q, c, S)
    BY <1>1, <1>2 DEF Moves, Move, Stays, At
  <2>. QED  BY <1>1, <2>1 DEF SentToNodes, HasNodeBuf, SentLocally, HasPut
<1>3. CASE q = p /\ ~ (c = call[p] /\ pc[p] \in {"localProbe", "rmaPut"})
  <2>1. Past(p, c)' <=> Past(p, c)
    BY <1>1, <1>3
  <2>2. /\ At(p, c, {"groupProbe", "groupLoop"} \cup LocalPlaces)' =>
             \/ At(p, c, {"groupProbe", "groupLoop"} \cup LocalPlaces)
             \/ c = call'[p] /\ pc'[p] = "groupLoop" /\ pc[p] = "idle"
             \/ c = call[p] /\ c = call'[p] /\ pc[p] = "groupAllreduce" /\ pc'[p] = "groupProbe"
        /\ At(p, c, LocalPlaces)' =>
             \/ At(p, c, LocalPlaces)
             \/ c = call[p] /\ c = call'[p] /\ pc[p] \in {"groupProbe", "groupLoop"} /\ pc'[p] = "localAllreduce"
        /\ At(p, c, {"localProbe"})' =>
             \/ At(p, c, {"localProbe"})
             \/ c = call[p] /\ c = call'[p] /\ pc[p] = "localAllreduce" /\ pc'[p] = "localProbe"
        /\ At(p, c, {"rmaPut"})' =>
             \/ At(p, c, {"rmaPut"})
             \/ c = call[p] /\ c = call'[p] /\ pc[p] = "rmaClear" /\ pc'[p] = "rmaPut"
    BY <1>1, <1>3 DEF Moves, Move, Stays, At, LocalPlaces
  <2>. QED  BY <1>1, <1>3, <2>1, <2>2 DEF SentToNodes, HasNodeBuf, SentLocally, HasPut
<1>4. CASE q = p /\ c = call[p] /\ pc[p] \in {"localProbe", "rmaPut"}
  <2>1. /\ pc[p] = "localProbe" => TwoPhase(c) /\ SentLocally(p, c) /\ HasNodeBuf(p, c) /\ SentToNodes(p, c)
        /\ pc[p] = "rmaPut" => ~ TwoPhase(c) /\ HasPut(p, c)
    BY <1>4 DEF Control, PlaceFitsMethod, LocalPlaces, RmaPlaces, SentLocally, HasNodeBuf, SentToNodes, HasPut, At
  <2>2. /\ SentToNodes(p, c)' => TwoPhase(c)
        /\ HasNodeBuf(p, c)' => TwoPhase(c)
        /\ SentLocally(p, c)' => TwoPhase(c)
        /\ HasPut(p, c)' => ~ TwoPhase(c)
    BY <1>1 DEF SentLocally, HasNodeBuf, SentToNodes, HasPut
  <2>. QED  BY <1>4, <2>1, <2>2
<1>. QED  BY <1>2, <1>3, <1>4

LEMMA SkewStep == Scalars /\ Control /\ Skew /\ [Next]_vars => Skew'
<1> SUFFICES ASSUME Scalars, Control, Skew, [Next]_vars PROVE Skew'
  OBVIOUS
<1>1. CASE UNCHANGED vars
  BY <1>1 DEF vars, Skew, HasNodeBuf, SentLocally, HasPut, Past, At, TwoPhase, Returned
<1>2. ASSUME NEW p \in Proc, Moves(p) PROVE Skew'
  <2> SUFFICES ASSUME NEW q \in Proc, NEW c \in Calls
               PROVE  /\ HasNodeBuf(q, c)' \/ At(q, c, {"groupProbe"})' =>
                           \A r \in Group(q) : entered'[r]["group"] >= c
                      /\ SentLocally(q, c)' => \A r \in Local(q) : entered'[r]["local"] >= c
                      /\ HasPut(q, c)' => \A r \in Proc : entered'[r]["clear"] >= c
                      /\ ~ TwoPhase(c) /\ Past(q, c)' => \A r \in Proc : entered'[r]["put"] >= c
    BY <1>2 DEF Skew, Moves, Move, Stays, TwoPhase
  <2>1. \A r \in Proc, s \in Collectives : entered[r][s] >= c => entered'[r][s] >= c
    BY <1>2, EnteredGrows, ConstAssumption DEF Control, Calls
  <2>2. c \in Nat /\ Group(q) \subseteq Proc /\ Local(q) \subseteq Proc
          /\ \A s \in {"group", "local", "clear", "put"} : s \in Collectives
    BY CommRanks DEF Calls, Collectives
  <2>3. HasNodeBuf(q, c)' \/ At(q, c, {"groupProbe"})' => \A r \in Group(q) : entered[r]["group"] >= c
    <3>1. \/ HasNodeBuf(q, c)' \/ At(q, c, {"groupProbe"})' => HasNodeBuf(q, c) \/ At(q, c, {"groupProbe"})
          \/ /\ q = p /\ c = call[p] /\ AllEntered(p, Group(p), "group")
      <4>1. At(q, c, {"groupProbe"})' =>
              \/ At(q, c, {"groupProbe"})
              \/ q = p /\ c = call[p] /\ AllEntered(p, Group(p), "group")
        <5>1. CASE q # p \/ UNCHANGED <<pc, call>>
          <6>1. pc'[q] = pc[q] /\ call'[q] = call[q]
            BY <1>2, <5>1 DEF Moves, Move, Stays
          <6>. QED  BY <6>1 DEF At
        <5>2. CASE q = p /\ pc'[p] # "groupProbe"
          BY <5>2 DEF At
        <5>3. CASE q = p /\ call'[p] = call[p] /\ AllEntered(p, Group(p), "group")
          BY <5>3 DEF At
        <5>4. \/ UNCHANGED <<pc, call>>
              \/ pc'[p] # "groupProbe"
              \/ call'[p] = call[p] + 0 /\ AllEntered(p, Group(p), "group")
          BY <1>2 DEF Moves, Move, Stays
        <5>5. call[p] \in Nat
          BY MethodKept, <1>2
        <5>. QED  BY <5>1, <5>2, <5>3, <5>4, <5>5
      <4>2. HasNodeBuf(q, c)' =>
              \/ HasNodeBuf(q, c) \/ At(q, c, {"groupProbe"})
              \/ q = p /\ c = call[p] /\ pc[p] = "groupLoop" /\ pc'[p] = "localAllreduce"
        BY <1>2, DoneBy DEF At
      <4>3. pc[p] = "groupLoop" /\ pc'[p] = "localAllreduce" => AllEntered(p, Group(p), "group")
        BY <1>2 DEF Moves, Move, Stays
      <4>. QED  BY <4>1, <4>2, <4>3
    <3>. QED  BY <3>1 DEF Skew, AllEntered
  <2>4. SentLocally(q, c)' => \A r \in Local(q) : entered[r]["local"] >= c
    <3>1. pc[p] = "localAllreduce" /\ pc'[p] = "localProbe" => AllEntered(p, Local(p), "local")
      BY <1>2 DEF Moves, Move, Stays
    <3>. QED  BY <1>2, <3>1, DoneBy DEF Skew, AllEntered
  <2>5. HasPut(q, c)' => \A r \in Proc : entered[r]["clear"] >= c
    <3>1. pc[p] = "rmaClear" /\ pc'[p] = "rmaPut" => AllEntered(p, Proc, "clear")
      BY <1>2 DEF Moves, Move, Stays
    <3>. QED  BY <1>2, <3>1, DoneBy DEF Skew, AllEntered
  <2>6. ~ TwoPhase(c) /\ Past(q, c)' => \A r \in Proc : entered[r]["put"] >= c
    <3>1. pc[p] = "rmaPut" /\ pc'[p] = "idle" => AllEntered(p, Proc, "put")
      BY <1>2 DEF Moves, Move, Stays
    <3>2. pc[p] = "localProbe" => TwoPhase(call[p])
      BY DEF Control, PlaceFitsMethod, LocalPlaces
    <3>. QED  BY <1>2, <3>1, <3>2, PastGrows DEF Skew, AllEntered
  <2>. QED  BY <2>1, <2>2, <2>3, <2>4, <2>5, <2>6
<1>. QED  BY <1>1, <1>2, NextMoves

LEMMA SkewInit == Init => Skew
BY DEF Init, Skew, HasNodeBuf, SentLocally, HasPut, Past, At, Returned, Calls
-----------------------------------------------------------------------------
(* The tags. *)
LEMMA NextTagValue ==
  ASSUME NEW t \in 0 .. MaxTag - 1
  PROVE  NextTag(t) = IF t + 1 = MaxTag THEN 0 ELSE t + 1
<1>1. MaxTag \in Nat \ {0}
  BY ConstAssumption
<1>2. CASE t + 1 = MaxTag
  BY <1>1, <1>2, SMT DEF NextTag
<1>3. CASE t + 1 < MaxTag
  BY <1>1, <1>3, SMT DEF NextTag
<1>. QED  BY <1>1, <1>2, <1>3

LEMMA TwoTagsOn ==
  ASSUME EnoughTags, NEW t \in 0 .. MaxTag - 1
  PROVE  NextTag(NextTag(t)) # t
<1>1. MaxTag \in Nat /\ MaxTag > 2
  BY ConstAssumption DEF EnoughTags
<1>2. CASE t + 1 = MaxTag
  <2>1. NextTag(t) = 0 /\ 0 \in 0 .. MaxTag - 1
    BY <1>1, <1>2, NextTagValue
  <2>. QED  BY <2>1, <1>1, <1>2, NextTagValue
<1>3. CASE t + 1 # MaxTag
  <2>1. NextTag(t) = t + 1 /\ t + 1 \in 0 .. MaxTag - 1
    BY <1>1, <1>3, NextTagValue
  <2>. QED  BY <2>1, <1>1, <1>3, NextTagValue
<1>. QED  BY <1>2, <1>3

LEMMA CallTagType ==
  ASSUME Scalars
  PROVE  /\ \A c \in Calls : /\ CallTag[c] \in 0 .. MaxTag - 1
                             /\ CallTag[c + 1] = IF TwoPhase(c) THEN NextTag(NextTag(CallTag[c]))
                                                                ELSE CallTag[c]
         /\ CallTag[1] = 126 % MaxTag
<1>1. IsCallTag(CallTag, method)
  BY CallTagExists DEF CallTag, Scalars
<1>. QED  BY <1>1, ConstAssumption DEF IsCallTag, TwoPhase, Calls

LEMMA TagSyncInit == Init => TagSync
<1> SUFFICES ASSUME Init PROVE TagSync
  OBVIOUS
<1>1. Scalars
  BY TypedInit, TypedParts
<1>2. CallTag[1] = 126 % MaxTag
  BY <1>1, CallTagType
<1>3. ASSUME NEW p \in Proc PROVE pc[p] = "idle" /\ Returned(p) + 1 = 1 /\ commTag[p] = 126 % MaxTag
  BY DEF Init, Returned
<1>. QED  BY <1>2, <1>3 DEF TagSync, GroupPlaces, RmaPlaces

LEMMA TagSyncStep == Scalars /\ Control /\ TagSync /\ [Next]_vars => TagSync'
<1> SUFFICES ASSUME Scalars, Control, TagSync, [Next]_vars PROVE TagSync'
  OBVIOUS
<1>1. CASE UNCHANGED vars
  BY <1>1 DEF vars, TagSync, CallTag, Returned
<1>2. ASSUME NEW p \in Proc, Moves(p) PROVE TagSync'
  <2>1. method' = method /\ CallTag' = CallTag
    BY <1>2, MethodKept DEF CallTag
  <2>2. ASSUME NEW q \in Proc, q # p
        PROVE  pc'[q] = pc[q] /\ call'[q] = call[q] /\ commTag'[q] = commTag[q] /\ tag'[q] = tag[q]
                 /\ Returned(q)' = Returned(q)
    <3>1. TakeTag(p) => commTag'[q] = commTag[q] /\ tag'[q] = tag[q]
      BY <2>2, TakeTagType
    <3>. QED  BY <1>2, <2>2, <3>1 DEF Moves, Move, Stays, Returned
  <2>3. TakeTag(p) => tag'[p] = commTag[p] /\ commTag'[p] = NextTag(commTag[p])
    BY TakeTagType
  <2> DEFINE t == CallTag[call[p]]
  <2>4. /\ call[p] \in Nat
        /\ pc[p] # "idle" => call[p] \in Calls
        /\ pc[p] # "idle" => Returned(p) + 1 = call[p]
        /\ pc[p] = "idle" => Returned(p) + 1 = call[p] + 1
    BY ConstAssumption DEF Scalars, InCall, Returned
  <2>5. /\ pc[p] = "localProbe" => CallTag[call[p] + 1] = NextTag(NextTag(t))
        /\ pc[p] = "rmaPut" => CallTag[call[p] + 1] = t
    BY <2>4, CallTagType DEF Control, PlaceFitsMethod, LocalPlaces, RmaPlaces
  <2> USE <2>3, <2>4, <2>5 DEF Move, TagSync, GroupPlaces, RmaPlaces
  <2> DEFINE Synced ==
        /\ pc'[p] \in {"idle"} \cup RmaPlaces => commTag'[p] = CallTag[Returned(p)' + 1]
        /\ pc'[p] \in GroupPlaces =>
             tag'[p] = CallTag[call'[p]] /\ commTag'[p] = NextTag(CallTag[call'[p]])
        /\ pc'[p] = "localAllreduce" /\ method[call'[p]] \notin Fixed =>
             commTag'[p] = NextTag(CallTag[call'[p]])
        /\ (pc'[p] = "localAllreduce" /\ method[call'[p]] \in Fixed) \/ pc'[p] = "localProbe" =>
             commTag'[p] = NextTag(NextTag(CallTag[call'[p]]))
        /\ pc'[p] = "localAllreduce" /\ method[call'[p]] \in Fixed =>
             tag'[p] = NextTag(CallTag[call'[p]])
  <2>6. Synced
    <3>1. CASE \/ Stays(p, Locations) \/ Stays(p, {"groupProbe", "groupLoop"})
               \/ Stays(p, {"localProbe"})
      BY <3>1 DEF Stays, Returned
    <3>2. CASE Move(p, {"idle"}, "groupAllreduce", 1, "group") /\ TakeTag(p)
      BY <3>2
    <3>3. CASE Move(p, {"idle"}, "groupLoop", 1, "none") /\ TakeTag(p)
      BY <3>3
    <3>4. CASE Move(p, {"groupAllreduce"}, "groupProbe", 0, "none") /\ UNCHANGED <<commTag, tag>>
      BY <3>4
    <3>5. CASE Move(p, {"groupLoop"}, "groupLoop", 0, "group") /\ UNCHANGED <<commTag, tag>>
      BY <3>5
    <3>6. CASE /\ Move(p, {"groupProbe", "groupLoop"}, "localAllreduce", 0, "local")
               /\ IF method[call[p]] \in Fixed THEN TakeTag(p) ELSE UNCHANGED <<commTag, tag>>
      BY <3>6
    <3>7. CASE /\ Move(p, {"localAllreduce"}, "localProbe", 0, "none")
               /\ IF method[call[p]] \in Fixed THEN UNCHANGED <<commTag, tag>> ELSE TakeTag(p)
      BY <3>7
    <3>8. CASE Move(p, {"localProbe"}, "idle", 0, "none") /\ UNCHANGED <<commTag, tag>>
      BY <3>8 DEF Returned
    <3>9. CASE Move(p, {"idle"}, "rmaClear", 1, "clear") /\ UNCHANGED <<commTag, tag>>
      BY <3>9 DEF Returned
    <3>10. CASE Move(p, {"rmaClear"}, "rmaPut", 0, "put") /\ UNCHANGED <<commTag, tag>>
      BY <3>10 DEF Returned
    <3>11. CASE Move(p, {"rmaPut"}, "idle", 0, "none") /\ UNCHANGED <<commTag, tag>>
      BY <3>11 DEF Returned
    <3>. QED
      BY <1>2, <3>1, <3>2, <3>3, <3>4, <3>5, <3>6, <3>7, <3>8, <3>9, <3>10, <3>11 DEF Moves
  <2>. QED  BY <2>1, <2>2, <2>6
<1>. QED  BY <1>1, <1>2, NextMoves

LEMMA RanksInit == Init => Ranks
BY TypedInit, ControlInit, SkewInit, TagSyncInit DEF Ranks

LEMMA RanksStep == Ranks /\ [Next]_vars => Ranks'
BY TypedStep, TypedParts, ControlStep, SkewStep, TagSyncStep DEF Ranks
-----------------------------------------------------------------------------
(* A message that is on its way to a rank of the same group is of its call  *)
(* or of the next one, which is a nonblocking one.                          *)
LEMMA Lockstep ==
  ASSUME Ranks, NEW p \in Proc, pc[p] \in {"groupProbe", "groupLoop"},
         NEW q \in Group(p), NEW c \in Calls, SentToNodes(q, c), c > call[p]
  PROVE  c = call[p] + 1
<1>0. /\ q \in Proc /\ p \in Group(q) /\ call[q] \in Nat /\ call[p] \in Nat /\ c \in Nat
      /\ entered[p]["group"] \in Nat /\ entered[p]["group"] <= call[p]
      /\ entered[p]["put"] \in Nat /\ entered[p]["put"] <= call[p]
  BY CommRanks, TypedParts, ConstAssumption
     DEF Ranks, Scalars, Control, EnteredNow, Collectives, Calls
<1>1. ~ HasNodeBuf(q, c) /\ ~ At(q, c, {"groupProbe"})
  BY <1>0 DEF Ranks, Skew
<1>2. At(q, c, {"groupLoop"})
  BY <1>1 DEF SentToNodes, HasNodeBuf, At, LocalPlaces
<1>3. SUFFICES ASSUME c # call[p] + 1 PROVE FALSE
  OBVIOUS
<1>4. c - 1 \in Calls /\ c - 1 > call[p] /\ Past(q, c - 1)
  <2>1. c = call[q] /\ pc[q] = "groupLoop"
    BY <1>2 DEF At
  <2>2. c - 1 > call[p] /\ c - 1 \in Nat
    BY <1>0, <1>3
  <2>3. c - 1 \in Calls
    BY <1>0, <2>2, ConstAssumption DEF Calls
  <2>. QED  BY <1>0, <2>1, <2>2, <2>3 DEF Past, Returned
<1>5. CASE TwoPhase(c - 1)
  <2>1. HasNodeBuf(q, c - 1)
    BY <1>4, <1>5 DEF HasNodeBuf
  <2>. QED  BY <2>1, <1>0, <1>4 DEF Ranks, Skew
<1>6. CASE ~ TwoPhase(c - 1)
  BY <1>0, <1>4, <1>6 DEF Ranks, Skew
<1>. QED  BY <1>5, <1>6

(* After its first phase a rank has no message left on its way to it. *)
LEMMA NothingBehind ==
  ASSUME Ranks, PhaseOne, NEW m \in flight, m.comm = "group", HasNodeBuf(m.dst, m.call)
  PROVE  FALSE
<1>1. /\ m.src \in Proc /\ m.dst \in Proc /\ m.call \in Calls /\ m.dst \in Group(m.src)
      /\ m.items = PackedFor(m.src, m.call, NodeOf(m.dst)) /\ m.items # {}
  BY MessageType DEF Ranks, Typed, PhaseOne, NodeMessage, IsNodeMessage
<1>2. m.src \in Group(m.dst)
  BY <1>1, CommRanks
<1>3. PICK e : e \in PackedFor(m.src, m.call, NodeOf(m.dst))
  BY <1>1
<1>4. [origin |-> m.src, dst |-> e.dst, data |-> e.data] \in nodeBuf[m.dst][m.call]
  BY <1>1, <1>2, <1>3 DEF PhaseOne, HoldsAll, Holds
<1>5. ~ OnItsWay("group", m.src, m.dst, m.call)
  BY <1>1, <1>4 DEF PhaseOne, HeldWasSent, WasSentTo
<1>. QED  BY <1>5 DEF OnItsWay

LEMMA OwnNodeMessage ==
  ASSUME EnoughTags, Ranks, PhaseOne, NEW p \in Proc, pc[p] \in {"groupProbe", "groupLoop"},
         NEW m \in Matching(p, "group")
  PROVE  m.call = call[p]
<1>1. m \in flight /\ m.comm = "group" /\ m.dst = p /\ m.tag = tag[p]
  BY DEF Matching
<1>2. /\ m.src \in Proc /\ m.call \in Calls /\ SentToNodes(m.src, m.call) /\ m.dst \in Group(m.src)
      /\ m.tag = CallTag[m.call]
  BY <1>1, MessageType DEF Ranks, Typed, PhaseOne, NodeMessage, IsNodeMessage
<1>3. m.src \in Group(p) /\ TwoPhase(m.call) /\ m.call \in Nat
  BY <1>1, <1>2, CommRanks DEF SentToNodes, Calls
<1>4. /\ call[p] \in Calls /\ call[p] \in Nat /\ TwoPhase(call[p]) /\ tag[p] = CallTag[call[p]]
      /\ Scalars
  BY MethodKinds, TypedParts
     DEF Ranks, Typed, InCall, Control, PlaceFitsMethod, TagSync, GroupPlaces, Calls
<1>5. CASE m.call < call[p]
  <2>1. HasNodeBuf(p, m.call)
    BY <1>2, <1>3, <1>4, <1>5 DEF HasNodeBuf, Past, Returned
  <2>. QED  BY <1>1, <2>1, NothingBehind
<1>6. CASE m.call > call[p]
  <2>1. m.call = call[p] + 1
    BY <1>2, <1>3, <1>6, Lockstep
  <2>2. /\ CallTag[call[p]] \in 0 .. MaxTag - 1
        /\ CallTag[call[p] + 1] = NextTag(NextTag(CallTag[call[p]]))
    BY <1>4, CallTagType
  <2>3. CallTag[call[p] + 1] # CallTag[call[p]]
    BY <2>2, TwoTagsOn
  <2>. QED  BY <1>1, <1>2, <1>4, <2>1, <2>3
<1>. QED  BY <1>3, <1>4, <1>5, <1>6
-----------------------------------------------------------------------------
(* Sizes.  Counting the bytes of packed entries tells whether all of them   *)
(* have arrived, because no entry is empty.                                 *)
LEMMA CountingBytes ==
  ASSUME NEW c, NEW S, NEW T, IsFiniteSet(T),
         \A t \in T : t.data.count \in 0 .. MaxCount,
         NEW h \in [S -> T], \A s \in S : h[s].data = s.data,
         \A r, s \in S : h[r] = h[s] => r = s,
         ~ (Bytes(c, S) < Bytes(c, T))
  PROVE  \A t \in T : \E s \in S : h[s] = t
<1> DEFINE I == 1 .. 2 + MaxCount
           B(X) == { b \in X \X I : b[2] <= Width(c, b[1]) }
           f == [b \in B(S) |-> <<h[b[1]], b[2]>>]
<1>1. MaxCount \in Nat
  BY ConstAssumption
<1>2. \A s \in S : Width(c, s) = Width(c, h[s])
  BY DEF Width
<1>3. \A t \in T : Width(c, t) \in Nat /\ Width(c, t) >= 1
  BY <1>1 DEF Width
<1>4. IsFiniteSet(B(T))
  <2>1. IsFiniteSet(I)
    BY <1>1, FS_Interval
  <2>2. IsFiniteSet(T \X I)
    BY <2>1, FS_Product
  <2>3. B(T) \in SUBSET (T \X I)
    OBVIOUS
  <2> HIDE DEF B, I
  <2>. QED  BY <2>2, <2>3, FS_Subset
<1>5. f \in [B(S) -> B(T)]
  BY <1>2
<1>6. \A a, b \in B(S) : f[a] = f[b] => a = b
  <2>1. ASSUME NEW a \in B(S), NEW b \in B(S), f[a] = f[b]
        PROVE  a = b
    <3>1. h[a[1]] = h[b[1]] /\ a[2] = b[2] /\ a[1] \in S /\ b[1] \in S
      BY <2>1
    <3>2. a[1] = b[1]
      BY <3>1
    <3>3. a = <<a[1], a[2]>> /\ b = <<b[1], b[2]>>
      OBVIOUS
    <3>. QED  BY <3>1, <3>2, <3>3
  <2> HIDE DEF f, B
  <2>. QED  BY <2>1
<1>7. f \in Injection(B(S), B(T))
  <2> HIDE DEF f, B
  <2>. QED  BY <1>5, <1>6 DEF Injection, IsInjective
<1>8. Bytes(c, S) = Cardinality(B(S)) /\ Bytes(c, T) = Cardinality(B(T))
  BY DEF Bytes
<1>9. f \in Surjection(B(S), B(T))
  <2> HIDE DEF f, B
  <2>1. IsFiniteSet(B(S)) /\ Cardinality(B(S)) <= Cardinality(B(T))
    BY <1>4, <1>7, FS_Injection
  <2>2. Cardinality(B(S)) \in Nat /\ Cardinality(B(T)) \in Nat
    BY <2>1, <1>4, FS_CardinalityType
  <2>3. Cardinality(B(S)) = Cardinality(B(T))
    BY <1>8, <2>1, <2>2
  <2>. QED  BY <2>3, <1>4, <1>7, FS_Injection
<1>10. SUFFICES ASSUME NEW t \in T PROVE \E s \in S : h[s] = t
  OBVIOUS
<1>11. <<t, 1>> \in B(T)
  BY <1>1, <1>3
<1>12. PICK b \in B(S) : f[b] = <<t, 1>>
  <2> HIDE DEF f, B
  <2>. QED  BY <1>9, <1>11 DEF Surjection
<1>13. b[1] \in S /\ f[b] = <<h[b[1]], b[2]>>
  OBVIOUS
<1> HIDE DEF f, B
<1>. QED  BY <1>12, <1>13

LEMMA ProcFinite == IsFiniteSet(Proc)
<1>1. 0 \in Int /\ NumNodes * PPN - 1 \in Int
  BY ConstAssumption
<1>. QED  BY <1>1, FS_Interval DEF Proc

(* The entries packed for a node. *)
LEMMA PackedItem ==
  ASSUME load \in Loads, NEW q \in Proc, NEW c \in Calls, NEW n, NEW e \in PackedFor(q, c, n)
  PROVE  /\ e.dst \in DOMAIN load[q][c] /\ e.dst \in Proc /\ NodeOf(e.dst) = n
         /\ e.data = Data(q, c, e.dst) /\ e.data.src = q /\ e.data.count \in 0 .. MaxCount
         /\ e = [dst |-> e.dst, data |-> e.data]
<1>1. PICK d \in DOMAIN load[q][c] : d \div PPN = n /\ e = [dst |-> d, data |-> Data(q, c, d)]
  BY DEF PackedFor
<1>2. Data(q, c, d) \in DataSet /\ d \in Proc
  BY LoadType
<1>. QED  BY <1>1, <1>2 DEF NodeOf, Data, DataSet

LEMMA ItemPacked ==
  ASSUME NEW q \in Proc, NEW c \in Calls, NEW d \in DOMAIN load[q][c]
  PROVE  [dst |-> d, data |-> Data(q, c, d)] \in PackedFor(q, c, NodeOf(d))
BY DEF PackedFor, NodeOf

LEMMA NodeShareItem ==
  ASSUME load \in Loads, NEW p \in Proc, NEW c \in Calls, NEW e \in NodeShare(p, c)
  PROVE  \E q \in Group(p) : q \in Proc /\ e \in PackedFor(q, c, NodeOf(p)) /\ e.data.src = q
<1>1. PICK q \in Group(p) : e \in PackedFor(q, c, NodeOf(p))
  BY DEF NodeShare
<1>2. q \in Proc
  BY CommRanks
<1>. QED  BY <1>1, <1>2, PackedItem

LEMMA NodeShareFinite ==
  ASSUME load \in Loads, NEW p \in Proc, NEW c \in Calls
  PROVE  IsFiniteSet(NodeShare(p, c))
<1> DEFINE S == NodeShare(p, c)
           f == [e \in S |-> <<e.data.src, e.dst>>]
<1>1. \A e \in S : /\ e.data.src \in Proc /\ e.dst \in Proc
                   /\ e = [dst |-> e.dst, data |-> Data(e.data.src, c, e.dst)]
  BY NodeShareItem, PackedItem
<1>2. IsFiniteSet(Proc \X Proc)
  BY ProcFinite, FS_Product
<1>3. f \in Injection(S, Proc \X Proc)
  <2>1. f \in [S -> Proc \X Proc]
    BY <1>1
  <2>2. ASSUME NEW a \in S, NEW b \in S, f[a] = f[b] PROVE a = b
    <3>1. a.data.src = b.data.src /\ a.dst = b.dst
      BY <2>2
    <3>. QED  BY <1>1, <3>1
  <2> HIDE DEF f
  <2>. QED  BY <2>1, <2>2 DEF Injection, IsInjective
<1> HIDE DEF f, S
<1>4. IsFiniteSet(S)
  BY <1>2, <1>3, FS_Injection
<1>. QED  BY <1>4 DEF S
-----------------------------------------------------------------------------
(* The first phase. *)
LEMMA HeldItem ==
  ASSUME Ranks, HeldWasSent, NEW p \in Proc, NEW c \in Calls, NEW i \in nodeBuf[p][c]
  PROVE  /\ i = [origin |-> i.origin, dst |-> i.dst, data |-> i.data]
         /\ i.origin \in Group(p) /\ i.origin \in Proc /\ i.data.src = i.origin
         /\ [dst |-> i.dst, data |-> i.data] \in PackedFor(i.origin, c, NodeOf(p))
         /\ i.dst \in DOMAIN load[i.origin][c] /\ NodeOf(i.dst) = NodeOf(p) /\ i.dst \in Proc
         /\ i.data = Data(i.origin, c, i.dst)
<1>1. i \in HeldSet /\ load \in Loads
  BY DEF Ranks, Typed
<1>2. i.origin \in Group(p) /\ [dst |-> i.dst, data |-> i.data] \in PackedFor(i.origin, c, NodeOf(p))
  BY DEF HeldWasSent, WasSentTo
<1>3. i.origin \in Proc
  BY <1>2, CommRanks
<1> DEFINE e == [dst |-> i.dst, data |-> i.data]
<1>4. /\ e.dst \in DOMAIN load[i.origin][c] /\ NodeOf(e.dst) = NodeOf(p)
      /\ e.data = Data(i.origin, c, e.dst) /\ e.data.src = i.origin /\ e.dst \in Proc
  <2> HIDE DEF e
  <2>. QED  BY <1>1, <1>2, <1>3, PackedItem DEF e
<1>5. e.dst = i.dst /\ e.data = i.data
  OBVIOUS
<1>. QED  BY <1>1, <1>2, <1>3, <1>4, <1>5 DEF HeldSet

(* The Probe loop ends when everything for the node has arrived. *)
LEMMA ProbeComplete ==
  ASSUME Ranks, HeldWasSent, NEW p \in Proc, NEW c \in Calls, c = call[p], ~ MoreForNode(p)
  PROVE  \A q \in Group(p) : Holds(p, c, q)
<1> DEFINE S == nodeBuf[p][c]
           T == NodeShare(p, c)
           h == [i \in S |-> [dst |-> i.dst, data |-> i.data]]
<1>1. load \in Loads
  BY DEF Ranks, Typed
<1>2. \A i \in S : /\ i = [origin |-> i.data.src, dst |-> i.dst, data |-> i.data]
                   /\ [dst |-> i.dst, data |-> i.data] \in T
  <2>1. ASSUME NEW i \in S
        PROVE  /\ i = [origin |-> i.data.src, dst |-> i.dst, data |-> i.data]
               /\ \E q \in Group(p) : [dst |-> i.dst, data |-> i.data] \in PackedFor(q, c, NodeOf(p))
    BY HeldItem
  <2>. QED  BY <2>1 DEF NodeShare
<1>3. h \in [S -> T] /\ \A i \in S : h[i].data = i.data
  BY <1>2
<1>4. \A i, j \in S : h[i] = h[j] => i = j
  <2>1. ASSUME NEW i \in S, NEW j \in S, h[i] = h[j] PROVE i = j
    <3>1. i.dst = j.dst /\ i.data = j.data
      BY <2>1
    <3>. QED  BY <3>1, <1>2
  <2> HIDE DEF h, S
  <2>. QED  BY <2>1
<1>5. \A t \in T : t.data.count \in 0 .. MaxCount
  BY <1>1, NodeShareItem, PackedItem
<1>6. IsFiniteSet(T)
  BY <1>1, NodeShareFinite
<1>7. ~ (Bytes(c, S) < Bytes(c, T))
  BY DEF MoreForNode
<1>8. \A t \in T : \E i \in S : h[i] = t
  <2> HIDE DEF h, S, T
  <2>. QED  BY <1>3, <1>4, <1>5, <1>6, <1>7, CountingBytes
<1>9. SUFFICES ASSUME NEW q \in Group(p), NEW e \in PackedFor(q, c, NodeOf(p))
               PROVE  [origin |-> q, dst |-> e.dst, data |-> e.data] \in S
  BY DEF Holds
<1>10. q \in Proc /\ e \in T /\ e.data.src = q
  BY <1>1, CommRanks, PackedItem DEF NodeShare
<1>11. PICK i \in S : h[i] = e
  BY <1>8, <1>10
<1>12. i.dst = e.dst /\ i.data = e.data
  BY <1>11
<1>. QED  BY <1>2, <1>10, <1>12

(* When the barrier of the nonblocking loop completes, everyone's Issends    *)
(* have been received.                                                      *)
LEMMA LoopComplete ==
  ASSUME Ranks, PhaseOne, NEW p \in Proc, pc[p] = "groupLoop", AllEntered(p, Group(p), "group")
  PROVE  \A q \in Group(p) : Holds(p, call[p], q)
<1> SUFFICES ASSUME NEW q \in Group(p) PROVE Holds(p, call[p], q)
  OBVIOUS
<1> DEFINE c == call[p]
<1>1. /\ q \in Proc /\ c \in Calls /\ c \in Nat /\ method[c] \in Nonblocking /\ TwoPhase(c)
      /\ pc[q] \in Locations
  BY CommRanks, MethodKinds DEF Ranks, Typed, TypeOK, InCall, Control, PlaceFitsMethod, Calls
<1>2. /\ entered[q]["group"] \in Nat /\ call[q] \in Nat /\ entered[q]["group"] <= call[q]
      /\ entered[q]["group"] >= c
  BY <1>1, ConstAssumption DEF Ranks, Typed, TypeOK, Control, EnteredNow, Collectives, AllEntered
<1>3. SentToNodes(q, c)
  <2>1. CASE c < call[q]
    BY <1>1, <1>2, <2>1 DEF SentToNodes, Past, Returned
  <2>2. CASE c = call[q]
    <3>1. entered[q]["group"] = call[q] /\ pc[q] \notin RmaPlaces /\ pc[q] # "groupAllreduce"
      BY <1>1, <1>2, <2>2, MethodKinds DEF Ranks, Control, EnteredNow, PlaceFitsMethod
    <3>2. CASE pc[q] = "idle"
      BY <1>1, <1>2, <2>2, <3>2 DEF SentToNodes, Past, Returned
    <3>3. CASE pc[q] # "idle"
      <4>1. pc[q] \in {"groupProbe", "groupLoop"} \cup LocalPlaces
        BY <1>1, <3>1, <3>3 DEF Locations, RmaPlaces, LocalPlaces
      <4>. QED  BY <1>1, <2>2, <4>1 DEF SentToNodes, At
    <3>. QED  BY <3>2, <3>3
  <2>. QED  BY <1>1, <1>2, <2>1, <2>2
<1>4. ~ OnItsWay("group", q, p, c)
  BY <1>1, <1>2 DEF OnItsWay, PhaseOne, NodeMessage, IsNodeMessage
<1>. QED  BY <1>1, <1>3, <1>4 DEF PhaseOne, SentIsHeld

LEMMA LoadKept ==
  ASSUME load' = load
  PROVE  /\ \A p, c, n : PackedFor(p, c, n)' = PackedFor(p, c, n)
         /\ \A p, c, d : Data(p, c, d)' = Data(p, c, d)
BY DEF PackedFor, Data

LEMMA NodeMessageKept ==
  ASSUME Ranks, NodeMessage, NEW p \in Proc, Moves(p),
         NEW m \in flight, m.comm = "group", IsNodeMessage(m)
  PROVE  IsNodeMessage(m)'
<1>1. m.src \in Proc /\ m.dst \in Proc /\ m.call \in Calls /\ Scalars /\ Control
  BY MessageType, TypedParts DEF Ranks, Typed
<1>2. SentToNodes(m.src, m.call)'
  BY <1>1, DoneStays DEF IsNodeMessage
<1>3. method' = method /\ load' = load /\ CallTag' = CallTag
  BY <1>1, MethodKept DEF CallTag
<1>4. PackedFor(m.src, m.call, NodeOf(m.dst))' = PackedFor(m.src, m.call, NodeOf(m.dst))
  BY <1>3, LoadKept
<1>5. ASSUME method[m.call] \in Nonblocking
      PROVE  At(m.src, m.call, {"groupLoop"})' /\ entered'[m.src]["group"] < m.call
  <2>1. At(m.src, m.call, {"groupLoop"}) /\ entered[m.src]["group"] < m.call
    BY <1>5 DEF IsNodeMessage
  <2>2. CASE m.src # p
    BY <1>1, <2>1, <2>2 DEF Moves, Move, Stays, At
  <2>3. CASE m.src = p
    <3>1. pc[p] = "groupLoop" /\ m.call = call[p] /\ call[p] \in Nat /\ entered[p]["group"] \in Nat
            /\ ~ (entered[p]["group"] >= call[p])
      BY <2>1, <2>3, <1>1, ConstAssumption DEF At, Scalars, Collectives
    <3>2. ~ AllEntered(p, Group(p), "group")
      BY <3>1, CommRanks DEF AllEntered
    <3>3. ~ Testall(p)
      BY <2>3, <3>1 DEF Testall, Unmatched
    <3>4. Stays(p, {"groupProbe", "groupLoop"}) \/ Stays(p, Locations)
      BY <3>1, <3>2, <3>3 DEF Moves, Move, Stays
    <3>. QED  BY <2>1, <3>4 DEF Stays, At
  <2>. QED  BY <2>2, <2>3
<1>. QED  BY <1>2, <1>3, <1>4, <1>5 DEF IsNodeMessage

(* A step that neither sends nor receives over group_comm. *)
LEMMA PhaseOneQuiet ==
  ASSUME Ranks, PhaseOne, NEW p \in Proc, Moves(p),
         \A m : m.comm = "group" => (m \in flight' <=> m \in flight),
         nodeBuf' = nodeBuf,
         \A q \in Proc, c \in Calls : SentToNodes(q, c)' => SentToNodes(q, c)
  PROVE  NodeMessage' /\ HeldWasSent' /\ SentIsHeld'
<1>1. Scalars /\ Control
  BY TypedParts DEF Ranks
<1>2. load' = load
  BY <1>1, MethodKept
<1>3. \A q \in Proc, c \in Calls : SentToNodes(q, c)' <=> SentToNodes(q, c)
  BY <1>1, DoneStays
<1>4. \A q, r, c : OnItsWay("group", q, r, c)' <=> OnItsWay("group", q, r, c)
  BY DEF OnItsWay
<1>5. NodeMessage'
  BY NodeMessageKept DEF PhaseOne, NodeMessage
<1>6. HeldWasSent'
  <2>1. \A r \in Proc, c \in Calls : \A i : WasSentTo(r, c, i) => WasSentTo(r, c, i)'
    BY <1>2, <1>3, <1>4, LoadKept, CommRanks DEF WasSentTo
  <2>. QED  BY <2>1 DEF PhaseOne, HeldWasSent
<1>7. SentIsHeld'
  <2>1. \A r, c, q : Holds(r, c, q)' <=> Holds(r, c, q)
    BY <1>2, LoadKept DEF Holds
  <2>. QED  BY <1>3, <1>4, <2>1, CommRanks DEF PhaseOne, SentIsHeld
<1>. QED  BY <1>5, <1>6, <1>7

(* Rank p sends the messages of its call c. *)
LEMMA PhaseOneSend ==
  ASSUME Ranks, PhaseOne, NEW p \in Proc, Moves(p), NEW c \in Calls,
         NEW t \in 0 .. MaxTag - 1, t = CallTag[c],
         flight' = flight \cup NodeMessages(p, c, t), nodeBuf' = nodeBuf,
         ~ SentToNodes(p, c), SentToNodes(p, c)',
         method[c] \in Nonblocking => At(p, c, {"groupLoop"})' /\ entered'[p]["group"] < c,
         \A q \in Proc, d \in Calls : SentToNodes(q, d)' => SentToNodes(q, d) \/ (q = p /\ d = c)
  PROVE  NodeMessage' /\ HeldWasSent' /\ SentIsHeld'
<1>1. Scalars /\ Control /\ load \in Loads
  BY TypedParts DEF Ranks, Scalars
<1>2. load' = load /\ method' = method /\ CallTag' = CallTag
  BY <1>1, MethodKept DEF CallTag
<1>3. \A q \in Proc, d \in Calls : SentToNodes(q, d) => SentToNodes(q, d)'
  BY <1>1, DoneStays
<1>4. NodeMessage'
  <2>1. ASSUME NEW m \in NodeMessages(p, c, t)
        PROVE  IsNodeMessage(m)'
    <3>1. /\ m.src = p /\ m.call = c /\ m.tag = t /\ m.dst \in Group(p)
          /\ m.items = PackedFor(p, c, NodeOf(m.dst)) /\ m.items # {}
      BY <1>1, NodeMessagesType
    <3>. QED  BY <3>1, <1>2, LoadKept DEF IsNodeMessage
  <2>2. ASSUME NEW m \in flight', m.comm = "group" PROVE IsNodeMessage(m)'
    BY <2>1, <2>2, NodeMessageKept DEF PhaseOne, NodeMessage
  <2>. QED  BY <2>2 DEF NodeMessage
<1>5. \A q, r, d : OnItsWay("group", q, r, d)' => OnItsWay("group", q, r, d) \/ (q = p /\ d = c)
  BY <1>1, NodeMessagesType DEF OnItsWay
<1>6. \A q, r, d : OnItsWay("group", q, r, d) => OnItsWay("group", q, r, d)'
  BY DEF OnItsWay
<1>7. HeldWasSent'
  <2> SUFFICES ASSUME NEW r \in Proc, NEW d \in Calls, NEW i \in nodeBuf[r][d]
               PROVE  WasSentTo(r, d, i)'
    BY DEF HeldWasSent
  <2>1. /\ i.origin \in Group(r) /\ i.origin \in Proc
        /\ SentToNodes(i.origin, d)
        /\ [dst |-> i.dst, data |-> i.data] \in PackedFor(i.origin, d, NodeOf(r))
        /\ ~ OnItsWay("group", i.origin, r, d)
    BY CommRanks DEF PhaseOne, HeldWasSent, WasSentTo
  <2>. QED  BY <2>1, <1>2, <1>3, <1>5, LoadKept DEF WasSentTo
<1>8. SentIsHeld'
  <2> SUFFICES ASSUME NEW r \in Proc, NEW d \in Calls, NEW q \in Group(r), SentToNodes(q, d)'
               PROVE  Holds(r, d, q)' \/ OnItsWay("group", q, r, d)'
    BY DEF SentIsHeld
  <2>1. q \in Proc /\ r \in Group(q) /\ (Holds(r, d, q)' <=> Holds(r, d, q))
    BY <1>2, LoadKept, CommRanks DEF Holds
  <2>2. CASE SentToNodes(q, d)
    BY <2>1, <2>2, <1>6 DEF PhaseOne, SentIsHeld
  <2>3. CASE q = p /\ d = c /\ PackedFor(p, c, NodeOf(r)) # {}
    <3> DEFINE m == [comm |-> "group", src |-> p, dst |-> r, tag |-> t, call |-> c,
                     items |-> PackedFor(p, c, NodeOf(r))]
    <3>1. m \in NodeMessages(p, c, t)
      BY <2>1, <2>3 DEF NodeMessages
    <3>2. m \in flight' /\ m.comm = "group" /\ m.src = q /\ m.dst = r /\ m.call = d
      BY <2>3, <3>1
    <3>. QED  BY <3>2 DEF OnItsWay
  <2>4. CASE q = p /\ d = c /\ PackedFor(p, c, NodeOf(r)) = {}
    BY <2>1, <2>4 DEF Holds
  <2>. QED  BY <2>1, <2>2, <2>3, <2>4
<1>. QED  BY <1>4, <1>7, <1>8

(* Rank p receives message m in its first phase. *)
LEMMA PhaseOneReceive ==
  ASSUME EnoughTags, Ranks, PhaseOne, NEW p \in Proc, Moves(p), Stays(p, {"groupProbe", "groupLoop"}),
         NEW m \in Matching(p, "group"), flight' = flight \ {m},
         nodeBuf' = [nodeBuf EXCEPT ![p][call[p]] = @ \cup Unpacked(p, m)]
  PROVE  NodeMessage' /\ HeldWasSent' /\ SentIsHeld' /\ HoldsAll'
<1>0. PICK c : c = call[p]
  OBVIOUS
<1>1. m \in flight /\ m.comm = "group" /\ m.dst = p /\ m.call = c
  BY <1>0, OwnNodeMessage DEF Matching, Stays
<1>2. /\ m.src \in Proc /\ c \in Calls /\ SentToNodes(m.src, c) /\ m.src \in Group(p)
      /\ m.items = PackedFor(m.src, c, NodeOf(p))
  BY <1>1, MessageType, CommRanks DEF Ranks, Typed, PhaseOne, NodeMessage, IsNodeMessage
<1>3. Scalars /\ Control /\ load \in Loads /\ nodeBuf \in [Proc -> [Calls -> SUBSET HeldSet]]
  BY TypedParts DEF Ranks, Scalars, Buffers
<1>4. /\ load' = load /\ method' = method
      /\ \A q \in Proc, d \in Calls : /\ SentToNodes(q, d)' <=> SentToNodes(q, d)
                                      /\ HasNodeBuf(q, d)' <=> HasNodeBuf(q, d)
  BY DEF Stays, SentToNodes, HasNodeBuf, Past, At, Returned, TwoPhase
<1>5. NodeMessage'
  BY NodeMessageKept DEF PhaseOne, NodeMessage
<1>6. \A q, r, d : OnItsWay("group", q, r, d)' => OnItsWay("group", q, r, d)
  BY DEF OnItsWay
<1>7. ~ OnItsWay("group", m.src, p, c)'
  <2> SUFFICES ASSUME NEW n \in flight, n # m, n.comm = "group", n.src = m.src, n.dst = p, n.call = c
               PROVE  FALSE
    BY DEF OnItsWay
  <2>1. m \in MessageSet /\ n \in MessageSet
    BY <1>1 DEF Ranks, Typed
  <2>2. m.tag = n.tag /\ m.items = n.items
    BY <1>1 DEF PhaseOne, NodeMessage, IsNodeMessage
  <2>. QED  BY <1>1, <2>1, <2>2 DEF MessageSet
<1>8. /\ nodeBuf'[p][c] = nodeBuf[p][c] \cup Unpacked(p, m)
      /\ \A r \in Proc, d \in Calls : ~ (r = p /\ d = c) => nodeBuf'[r][d] = nodeBuf[r][d]
  BY <1>0, <1>2, <1>3
<1>9. Unpacked(p, m) = { [origin |-> m.src, dst |-> e.dst, data |-> e.data] : e \in m.items }
  BY <1>2, OriginIsSource DEF Unpacked
<1>10. HeldWasSent'
  <2> SUFFICES ASSUME NEW r \in Proc, NEW d \in Calls, NEW i \in nodeBuf'[r][d]
               PROVE  WasSentTo(r, d, i)'
    BY DEF HeldWasSent
  <2>1. CASE i \in nodeBuf[r][d]
    <3>1. WasSentTo(r, d, i) /\ i.origin \in Proc
      BY <2>1, CommRanks DEF PhaseOne, HeldWasSent, WasSentTo
    <3>. QED  BY <3>1, <1>4, <1>6, LoadKept DEF WasSentTo
  <2>2. CASE r = p /\ d = c /\ i \in Unpacked(p, m)
    <3>1. PICK e \in m.items : i = [origin |-> m.src, dst |-> e.dst, data |-> e.data]
      BY <2>2, <1>9
    <3>2. e = [dst |-> e.dst, data |-> e.data]
      BY <1>2, <1>3, PackedItem
    <3>3. i.origin = m.src /\ i.dst = e.dst /\ i.data = e.data
      BY <3>1
    <3>. QED  BY <1>2, <1>4, <1>7, <2>2, <3>2, <3>3, LoadKept DEF WasSentTo
  <2>. QED  BY <1>8, <2>1, <2>2
<1>11. \A r \in Proc, d \in Calls : \A q : Holds(r, d, q) => Holds(r, d, q)'
  BY <1>4, <1>8, LoadKept DEF Holds
<1>12. Holds(p, c, m.src)'
  BY <1>2, <1>4, <1>8, <1>9, LoadKept DEF Holds
<1>13. SentIsHeld'
  <2> SUFFICES ASSUME NEW r \in Proc, NEW d \in Calls, NEW q \in Group(r), SentToNodes(q, d)
               PROVE  Holds(r, d, q)' \/ OnItsWay("group", q, r, d)'
    BY <1>4, CommRanks DEF SentIsHeld
  <2>1. CASE Holds(r, d, q)
    BY <2>1, <1>11
  <2>2. CASE OnItsWay("group", q, r, d)
    <3>1. PICK n \in flight : n.comm = "group" /\ n.src = q /\ n.dst = r /\ n.call = d
      BY <2>2 DEF OnItsWay
    <3>2. CASE n = m
      BY <1>1, <1>12, <3>1, <3>2
    <3>3. CASE n # m
      BY <3>1, <3>3 DEF OnItsWay
    <3>. QED  BY <3>2, <3>3
  <2>. QED  BY <2>1, <2>2 DEF PhaseOne, SentIsHeld
<1>14. HoldsAll'
  BY <1>4, <1>11, CommRanks DEF PhaseOne, HoldsAll
<1>. QED  BY <1>5, <1>10, <1>13, <1>14
(* No message of communicator s is sent or received in this step. *)
Quiet(s) == \A m : m.comm = s => (m \in flight' <=> m \in flight)

LEMMA Effects ==
  ASSUME Ranks, NEW p \in Proc
  PROVE  /\ AlltoallPersonalizedLoc(p) \/ AlltoallvPersonalizedLoc(p) \/ Testall(p)
              \/ LocalRedistribute(p) \/ LocalRedistributev(p) \/ Return(p) =>
              UNCHANGED <<flight, nodeBuf, win, got>>
         /\ AlltoallNonblockingLoc(p) \/ AlltoallvNonblockingLoc(p) =>
              /\ flight' = flight \cup NodeMessages(p, call'[p], commTag[p])
              /\ UNCHANGED <<nodeBuf, win, got>>
         /\ GroupAllreduce(p) =>
              /\ flight' = flight \cup NodeMessages(p, call[p], tag[p])
              /\ UNCHANGED <<nodeBuf, win, got>>
         /\ GroupProbe(p) \/ GroupIprobe(p) =>
              /\ \E m \in Matching(p, "group") :
                   /\ flight' = flight \ {m}
                   /\ nodeBuf' = [nodeBuf EXCEPT ![p][call[p]] = @ \cup Unpacked(p, m)]
              /\ UNCHANGED <<win, got>>
         /\ LocalAllreduce(p) \/ LocalAllreducev(p) =>
              /\ \E t \in 0 .. MaxTag - 1 : flight' = flight \cup LocalMessages(p, call[p], t)
              /\ UNCHANGED <<nodeBuf, win, got>>
         /\ LocalProbe(p) =>
              /\ \E m \in Matching(p, "local") :
                   flight' = flight \ {m} /\ got' = [got EXCEPT ![p][call[p]] = @ \cup m.items]
              /\ UNCHANGED <<nodeBuf, win>>
         /\ RmaClear(p) => win' = [win EXCEPT ![p] = {}] /\ UNCHANGED <<flight, nodeBuf, got>>
         /\ RmaPut(p) => flight' = flight \cup PutMessages(p) /\ UNCHANGED <<nodeBuf, win, got>>
         /\ PutLands(p) =>
              /\ \E m \in { n \in flight : n.comm = "win" /\ n.dst = p } :
                   /\ flight' = flight \ {m}
                   /\ win' = [win EXCEPT ![p] = { i \in @ : i.origin # m.src }
                                                  \cup { i \in m.items : i.data.count > 0 }]
              /\ UNCHANGED <<nodeBuf, got>>
         /\ RmaScan(p) =>
              got' = [got EXCEPT ![p][call[p]] = win[p]] /\ UNCHANGED <<flight, nodeBuf, win>>
<1>1. AlltoallNonblockingLoc(p) \/ AlltoallvNonblockingLoc(p) => call'[p] = call[p] + 1
  BY DEF AlltoallNonblockingLoc, AlltoallvNonblockingLoc, Enter, Ranks, Typed, TypeOK
<1>2. LocalAllreduce(p) \/ LocalAllreducev(p) =>
        \E t \in 0 .. MaxTag - 1 : flight' = flight \cup LocalMessages(p, call[p], t)
  BY DEF LocalAllreduce, LocalAllreducev, Ranks, Typed, TypeOK
<1>3. GroupProbe(p) \/ GroupIprobe(p) => ReceiveForNode(p)
  BY DEF GroupProbe, GroupIprobe
<1>. QED
  BY <1>1, <1>2, <1>3
  DEF AlltoallPersonalizedLoc, AlltoallvPersonalizedLoc, Testall, LocalRedistribute,
      LocalRedistributev, Return, AlltoallNonblockingLoc, AlltoallvNonblockingLoc, GroupAllreduce,
      ReceiveForNode, LocalAllreduce, LocalAllreducev, LocalProbe, RmaClear, RmaPut, PutLands,
      RmaScan, PutMessages

(* Which steps leave the messages of a communicator alone. *)
LEMMA QuietSteps ==
  ASSUME Ranks, NEW p \in Proc
  PROVE  /\ AlltoallPersonalizedLoc(p) \/ AlltoallvPersonalizedLoc(p) \/ Testall(p)
              \/ LocalRedistribute(p) \/ LocalRedistributev(p) \/ Return(p)
              \/ RmaClear(p) \/ RmaScan(p) =>
              Quiet("group") /\ Quiet("local") /\ Quiet("win")
         /\ (AlltoallNonblockingLoc(p) \/ AlltoallvNonblockingLoc(p)) /\ Moves(p) =>
              Quiet("local") /\ Quiet("win")
         /\ GroupAllreduce(p) => Quiet("local") /\ Quiet("win")
         /\ GroupProbe(p) \/ GroupIprobe(p) => Quiet("local") /\ Quiet("win")
         /\ LocalAllreduce(p) \/ LocalAllreducev(p) => Quiet("group") /\ Quiet("win")
         /\ LocalProbe(p) => Quiet("group") /\ Quiet("win")
         /\ RmaPut(p) => Quiet("group") /\ Quiet("local")
         /\ PutLands(p) => Quiet("group") /\ Quiet("local")
<1>1. \A c, t, m : m \in NodeMessages(p, c, t) => m.comm = "group"
  BY DEF NodeMessages
<1>2. \A c, t, m : m \in LocalMessages(p, c, t) => m.comm = "local"
  BY DEF LocalMessages
<1>3. \A m : m \in PutMessages(p) => m.comm = "win"
  BY DEF PutMessages
<1>4. \A m, s : m \in Matching(p, s) => m.comm = s
  BY DEF Matching
<1>5. ASSUME AlltoallPersonalizedLoc(p) \/ AlltoallvPersonalizedLoc(p) \/ Testall(p)
               \/ LocalRedistribute(p) \/ LocalRedistributev(p) \/ Return(p)
               \/ RmaClear(p) \/ RmaScan(p)
      PROVE  Quiet("group") /\ Quiet("local") /\ Quiet("win")
  <2>1. flight' = flight
    BY <1>5, Effects
  <2>. QED  BY <2>1 DEF Quiet
<1>6. ASSUME AlltoallNonblockingLoc(p) \/ AlltoallvNonblockingLoc(p) \/ GroupAllreduce(p)
      PROVE  Quiet("local") /\ Quiet("win")
  <2>1. \E c, t : flight' = flight \cup NodeMessages(p, c, t)
    BY <1>6, Effects
  <2>. QED  BY <2>1, <1>1 DEF Quiet
<1>7. ASSUME GroupProbe(p) \/ GroupIprobe(p) PROVE Quiet("local") /\ Quiet("win")
  <2>1. \E m \in Matching(p, "group") : flight' = flight \ {m}
    BY <1>7, Effects
  <2>. QED  BY <2>1, <1>4 DEF Quiet
<1>8. ASSUME LocalAllreduce(p) \/ LocalAllreducev(p) PROVE Quiet("group") /\ Quiet("win")
  <2>1. \E c, t : flight' = flight \cup LocalMessages(p, c, t)
    BY <1>8, Effects
  <2>. QED  BY <2>1, <1>2 DEF Quiet
<1>9. ASSUME LocalProbe(p) PROVE Quiet("group") /\ Quiet("win")
  <2>1. \E m \in Matching(p, "local") : flight' = flight \ {m}
    BY <1>9, Effects
  <2>. QED  BY <2>1, <1>4 DEF Quiet
<1>10. ASSUME RmaPut(p) PROVE Quiet("group") /\ Quiet("local")
  <2>1. flight' = flight \cup PutMessages(p)
    BY <1>10, Effects
  <2>. QED  BY <2>1, <1>3 DEF Quiet
<1>11. ASSUME PutLands(p) PROVE Quiet("group") /\ Quiet("local")
  <2>1. \E m : m.comm = "win" /\ flight' = flight \ {m}
    BY <1>11, Effects
  <2>. QED  BY <2>1 DEF Quiet
<1>. QED  BY <1>5, <1>6, <1>7, <1>8, <1>9, <1>10, <1>11

(* The first phase ends only when everything for the node is held. *)
LEMMA HoldsAllStep ==
  ASSUME Ranks, PhaseOne, NEW p \in Proc, Moves(p), nodeBuf' = nodeBuf
  PROVE  HoldsAll'
<1>1. Scalars /\ Control
  BY TypedParts DEF Ranks
<1>2. load' = load
  BY <1>1, MethodKept
<1>3. SUFFICES ASSUME NEW q \in Proc, NEW c \in Calls, HasNodeBuf(q, c)', NEW r \in Group(q)
               PROVE  Holds(q, c, r)
  BY <1>2, LoadKept DEF HoldsAll, Holds
<1>4. CASE HasNodeBuf(q, c)
  BY <1>4 DEF PhaseOne, HoldsAll
<1>5. CASE /\ q = p /\ c = call[p]
           /\ pc[p] \in {"groupProbe", "groupLoop"} /\ pc'[p] = "localAllreduce"
  <2>1. pc[p] = "groupLoop" => AllEntered(p, Group(p), "group")
    BY <1>5 DEF Moves, Move, Stays
  <2>2. pc[p] = "groupProbe" => ~ MoreForNode(p)
    <3>1. LocalRedistribute(p) \/ LocalRedistributev(p)
      BY <1>5 DEF Moves, Move, Stays
    <3>. QED  BY <3>1 DEF LocalRedistribute, LocalRedistributev, PhaseOneOver
  <2>. QED  BY <1>5, <2>1, <2>2, ProbeComplete, LoopComplete DEF PhaseOne
<1>. QED  BY <1>1, <1>3, <1>4, <1>5, DoneBy

LEMMA PhaseOneStep ==
  ASSUME EnoughTags, Ranks, PhaseOne, NEW p \in Proc, Step(p) \/ PutLands(p), Moves(p)
  PROVE  PhaseOne'
<1>1. Scalars /\ Control /\ TagSync
  BY TypedParts DEF Ranks
<1>2. CASE GroupProbe(p) \/ GroupIprobe(p)
  <2>1. Stays(p, {"groupProbe", "groupLoop"})
    BY <1>2 DEF Stays, GroupProbe, GroupIprobe, ReceiveForNode
  <2>. QED  BY <1>2, <2>1, Effects, PhaseOneReceive DEF PhaseOne
<1>3. CASE AlltoallNonblockingLoc(p) \/ AlltoallvNonblockingLoc(p)
  <2>1. /\ pc[p] = "idle" /\ pc'[p] = "groupLoop" /\ call'[p] = call[p] + 1 /\ call'[p] \in Calls
        /\ entered'[p] = entered[p] /\ method[call'[p]] \in Nonblocking
    <3>1. \E methods : Enter(p, methods, "groupLoop") /\ methods \subseteq Nonblocking
      BY <1>3 DEF AlltoallNonblockingLoc, AlltoallvNonblockingLoc, Nonblocking
    <3>2. entered' = entered
      BY <1>3 DEF AlltoallNonblockingLoc, AlltoallvNonblockingLoc
    <3>. QED  BY <3>1, <3>2, <1>1, EnterType
  <2>2. PICK c \in Calls : c = call'[p]
    BY <2>1
  <2>3. c = call[p] + 1 /\ call[p] \in Nat /\ TwoPhase(c) /\ (TwoPhase(c)' <=> TwoPhase(c))
          /\ entered[p]["group"] <= call[p] /\ entered[p]["group"] \in Nat
    BY <1>1, <2>1, <2>2, MethodKinds, MethodKept, ConstAssumption
       DEF Control, EnteredNow, Scalars, Collectives
  <2>4. CallTag[c] = commTag[p] /\ commTag[p] \in 0 .. MaxTag - 1
    BY <1>1, <2>1, <2>3 DEF TagSync, Returned, Scalars
  <2>5. ~ SentToNodes(p, c) /\ SentToNodes(p, c)' /\ At(p, c, {"groupLoop"})'
    BY <2>1, <2>2, <2>3 DEF SentToNodes, Past, At, Returned
  <2>6. \A q \in Proc, d \in Calls : SentToNodes(q, d)' => SentToNodes(q, d) \/ (q = p /\ d = c)
    BY <1>1, <2>1, <2>2, DoneBy
  <2>7. flight' = flight \cup NodeMessages(p, c, commTag[p]) /\ nodeBuf' = nodeBuf
    BY <1>3, <2>2, Effects
  <2>8. entered'[p]["group"] < c
    BY <2>1, <2>3
  <2>9. NodeMessage' /\ HeldWasSent' /\ SentIsHeld'
    BY <2>4, <2>5, <2>6, <2>7, <2>8, PhaseOneSend
  <2>. QED  BY <2>7, <2>9, HoldsAllStep DEF PhaseOne
<1>4. CASE GroupAllreduce(p)
  <2>1. /\ pc[p] = "groupAllreduce" /\ pc'[p] = "groupProbe" /\ call'[p] = call[p]
        /\ call[p] \in Calls /\ method[call[p]] \in Personalized
    BY <1>1, <1>4 DEF GroupAllreduce, Scalars, InCall, Control, PlaceFitsMethod
  <2>2. PICK c \in Calls : c = call[p]
    BY <2>1
  <2>3. /\ TwoPhase(c) /\ (TwoPhase(c)' <=> TwoPhase(c)) /\ method[c] \notin Nonblocking
        /\ call[p] \in Nat
    BY <1>1, <2>1, <2>2, MethodKinds, MethodKept
  <2>4. CallTag[c] = tag[p] /\ tag[p] \in 0 .. MaxTag - 1
    BY <1>1, <2>1, <2>2 DEF TagSync, GroupPlaces, Scalars
  <2>5. ~ SentToNodes(p, c) /\ SentToNodes(p, c)'
    BY <2>1, <2>2, <2>3 DEF SentToNodes, Past, At, Returned, LocalPlaces
  <2>6. \A q \in Proc, d \in Calls : SentToNodes(q, d)' => SentToNodes(q, d) \/ (q = p /\ d = c)
    BY <1>1, <2>1, <2>2, DoneBy
  <2>7. flight' = flight \cup NodeMessages(p, c, tag[p]) /\ nodeBuf' = nodeBuf
    BY <1>4, <2>2, Effects
  <2>9. NodeMessage' /\ HeldWasSent' /\ SentIsHeld'
    BY <2>3, <2>4, <2>5, <2>6, <2>7, PhaseOneSend
  <2>. QED  BY <2>7, <2>9, HoldsAllStep DEF PhaseOne
<1>5. CASE \/ AlltoallPersonalizedLoc(p) \/ AlltoallvPersonalizedLoc(p) \/ Testall(p)
           \/ LocalRedistribute(p) \/ LocalRedistributev(p) \/ Return(p)
           \/ RmaClear(p) \/ RmaScan(p) \/ LocalAllreduce(p) \/ LocalAllreducev(p)
           \/ LocalProbe(p) \/ RmaPut(p) \/ PutLands(p)
  <2>1. Quiet("group") /\ nodeBuf' = nodeBuf
    BY <1>5, QuietSteps, Effects
  <2>2. pc'[p] # "groupLoop" \/ pc[p] # "idle"
    BY <1>1, <1>5, EnterType
    DEF AlltoallPersonalizedLoc, AlltoallvPersonalizedLoc, Testall, LocalRedistribute,
        LocalRedistributev, Return, LocalAllreduce, LocalAllreducev, LocalProbe, RmaClear,
        RmaPut, PutLands, RmaScan, PhaseOneOver
  <2>3. ~ (pc[p] = "groupAllreduce" /\ pc'[p] = "groupProbe")
    BY <1>1, <1>5, EnterType
    DEF AlltoallPersonalizedLoc, AlltoallvPersonalizedLoc, Testall, LocalRedistribute,
        LocalRedistributev, Return, LocalAllreduce, LocalAllreducev, LocalProbe, RmaClear,
        RmaPut, PutLands, RmaScan, PhaseOneOver
  <2>4. \A q \in Proc, c \in Calls : SentToNodes(q, c)' => SentToNodes(q, c)
    BY <1>1, <2>2, <2>3, DoneBy
  <2>. QED  BY <2>1, <2>4, PhaseOneQuiet, HoldsAllStep DEF PhaseOne, Quiet
<1>. QED  BY <1>2, <1>3, <1>4, <1>5 DEF Step
-----------------------------------------------------------------------------
(* The second phase.  An entry that a rank hands to rank l of its node is   *)
(* for that rank, and comes from a rank of the sender's group.              *)
LEMMA LocalItem ==
  ASSUME Ranks, HeldWasSent, NEW q \in Proc, NEW c \in Calls, NEW l, NEW i \in PackedLocally(q, c, l)
  PROVE  /\ i.origin \in Group(q) /\ i.origin \in Proc
         /\ NodeOf(q) * PPN + l \in DOMAIN load[i.origin][c]
         /\ i = Slot(i.origin, c, NodeOf(q) * PPN + l)
         /\ i.data = Data(i.origin, c, NodeOf(q) * PPN + l)
<1>1. PICK j \in nodeBuf[q][c] :
        j.dst = NodeOf(q) * PPN + l /\ i = [origin |-> j.origin, data |-> j.data]
  BY DEF PackedLocally
<1>2. /\ j.origin \in Group(q) /\ j.origin \in Proc /\ j.dst \in DOMAIN load[j.origin][c]
      /\ j.data = Data(j.origin, c, j.dst)
  BY HeldItem
<1>3. i.origin = j.origin /\ i.data = j.data
  BY <1>1
<1> HIDE DEF Data, Slot
<1>4. i = Slot(i.origin, c, NodeOf(q) * PPN + l)
  BY <1>1, <1>2, <1>3 DEF Slot
<1>. QED  BY <1>1, <1>2, <1>3, <1>4

(* One rank of the node can have handed it on. *)
LEMMA LocalSource ==
  ASSUME Ranks, HeldWasSent, NEW p \in Proc, NEW c \in Calls, NEW l, NEW i,
         NEW q \in Local(p), i \in PackedLocally(q, c, l),
         NEW r \in Local(p), i \in PackedLocally(r, c, l)
  PROVE  q = r
<1>1. q \in Proc /\ r \in Proc /\ q \in Local(r)
  BY DEF Local
<1>2. i.origin \in Group(q) /\ i.origin \in Group(r)
  BY <1>1, LocalItem
<1>3. q \in Group(r)
  BY <1>1, <1>2 DEF Group
<1>. QED  BY <1>1, <1>3, SameRank

LEMMA LocalShareItem ==
  ASSUME Ranks, HeldWasSent, NEW p \in Proc, NEW c \in Calls, NEW i \in LocalShare(p, c)
  PROVE  /\ i.origin \in Proc /\ p \in DOMAIN load[i.origin][c] /\ i = Slot(i.origin, c, p)
         /\ i.data = Data(i.origin, c, p)
         /\ i.data.count \in 0 .. MaxCount
<1>1. PICK q \in Local(p) : i \in PackedLocally(q, c, LocalRank(p))
  BY DEF LocalShare
<1>2. q \in Proc /\ NodeOf(q) * PPN + LocalRank(p) = p
  BY RankNumber DEF Local
<1>3. /\ i.origin \in Proc /\ p \in DOMAIN load[i.origin][c] /\ i = Slot(i.origin, c, p)
      /\ i.data = Data(i.origin, c, p)
  BY <1>1, <1>2, LocalItem
<1>4. Data(i.origin, c, p).count \in 0 .. MaxCount
  BY <1>3, LoadType DEF Ranks, Typed, DataSet
<1>. QED  BY <1>3, <1>4

LEMMA LocalShareFinite ==
  ASSUME Ranks, HeldWasSent, NEW p \in Proc, NEW c \in Calls
  PROVE  IsFiniteSet(LocalShare(p, c))
<1> DEFINE S == LocalShare(p, c)
           f == [i \in S |-> i.origin]
<1>1. \A i \in S : i.origin \in Proc /\ i = Slot(i.origin, c, p)
  BY LocalShareItem
<1>2. f \in Injection(S, Proc)
  <2>1. f \in [S -> Proc] /\ \A i \in S : f[i] = i.origin
    BY <1>1
  <2> HIDE DEF f, S
  <2>2. \A i, j \in S : f[i] = f[j] => i = j
    BY <1>1, <2>1
  <2>. QED  BY <2>1, <2>2 DEF Injection, IsInjective
<1> HIDE DEF f, S
<1>3. IsFiniteSet(S)
  BY <1>2, ProcFinite, FS_Injection
<1>. QED  BY <1>3 DEF S

(* The Probe loop ends when everything for the rank has arrived. *)
LEMMA LocalComplete ==
  ASSUME Ranks, HeldWasSent, GotWasSent, NEW p \in Proc, NEW c \in Calls, c = call[p],
         TwoPhase(c), ~ MoreLocally(p)
  PROVE  LocalShare(p, c) \subseteq got[p][c]
<1> DEFINE S == got[p][c]
           T == LocalShare(p, c)
           h == [i \in S |-> i]
<1>1. \A i \in S : i \in T
  BY DEF GotWasSent, HandedBy, LocalShare
<1>2. h \in [S -> T] /\ \A i \in S : h[i] = i
  BY <1>1
<1>3. \A t \in T : t.data.count \in 0 .. MaxCount
  BY LocalShareItem
<1>4. IsFiniteSet(T)
  BY LocalShareFinite
<1>5. ~ (Bytes(c, S) < Bytes(c, T))
  BY DEF MoreLocally
<1> HIDE DEF h, S, T
<1>6. \A i \in S : h[i].data = i.data
  BY <1>2
<1>7. \A i, j \in S : h[i] = h[j] => i = j
  BY <1>2
<1>8. \A t \in T : \E i \in S : h[i] = t
  BY <1>2, <1>3, <1>4, <1>5, <1>6, <1>7, CountingBytes
<1>9. T \subseteq S
  BY <1>2, <1>8
<1>. QED  BY <1>9 DEF S, T

(* Everyone of its node has left the first phase when a rank sends in the    *)
(* second.                                                                  *)
LEMMA LocalReady ==
  ASSUME Ranks, NEW p \in Proc, NEW c \in Calls, NEW q \in Local(p), SentLocally(p, c)
  PROVE  HasNodeBuf(q, c) /\ q \in Proc
<1>1. /\ q \in Proc /\ call[q] \in Nat /\ c \in Nat /\ entered[q]["local"] \in Nat
      /\ entered[q]["local"] <= call[q] /\ pc[q] \in Locations
  BY CommRanks, TypedParts, ConstAssumption
     DEF Ranks, Scalars, Control, EnteredNow, Collectives, Calls
<1>2. entered[q]["local"] >= c /\ TwoPhase(c)
  BY DEF Ranks, Skew, SentLocally
<1>3. CASE c < call[q]
  BY <1>1, <1>2, <1>3 DEF HasNodeBuf, Past, Returned
<1>4. CASE c = call[q]
  <2>1. pc[q] \in {"idle"} \cup LocalPlaces
    BY <1>1, <1>2, <1>4 DEF Ranks, Control, EnteredNow
  <2>2. CASE pc[q] = "idle"
    BY <1>1, <1>2, <1>4, <2>2 DEF HasNodeBuf, Past, Returned
  <2>3. CASE pc[q] \in LocalPlaces
    BY <1>1, <1>2, <1>4, <2>3 DEF HasNodeBuf, At
  <2>. QED  BY <2>1, <2>2, <2>3
<1>. QED  BY <1>1, <1>2, <1>3, <1>4

(* After its call a rank has no message of the second phase left. *)
LEMMA NothingLocal ==
  ASSUME Ranks, HeldWasSent, PhaseTwo, NEW m \in flight, m.comm = "local", Past(m.dst, m.call)
  PROVE  FALSE
<1>1. /\ m.src \in Proc /\ m.dst \in Proc /\ m.call \in Calls /\ m.dst \in Local(m.src)
      /\ m.items = PackedLocally(m.src, m.call, LocalRank(m.dst)) /\ m.items # {}
      /\ TwoPhase(m.call)
  BY MessageType DEF Ranks, Typed, PhaseTwo, LocalMessage, IsLocalMessage, SentLocally
<1>2. m.src \in Local(m.dst)
  BY <1>1, CommRanks
<1>3. PICK i : i \in PackedLocally(m.src, m.call, LocalRank(m.dst))
  BY <1>1
<1>4. i \in got[m.dst][m.call]
  BY <1>1, <1>2, <1>3 DEF PhaseTwo, GotAll, LocalShare
<1>5. PICK q \in Local(m.dst) :
        /\ i \in PackedLocally(q, m.call, LocalRank(m.dst))
        /\ ~ OnItsWay("local", q, m.dst, m.call)
  BY <1>1, <1>4 DEF PhaseTwo, GotWasSent, HandedBy
<1>6. q = m.src
  BY <1>1, <1>2, <1>3, <1>5, LocalSource
<1>. QED  BY <1>5, <1>6 DEF OnItsWay

LEMMA OwnLocalMessage ==
  ASSUME Ranks, HeldWasSent, PhaseTwo, NEW p \in Proc, pc[p] = "localProbe",
         NEW m \in Matching(p, "local")
  PROVE  m.call = call[p]
<1>1. m \in flight /\ m.comm = "local" /\ m.dst = p
  BY DEF Matching
<1>2. m.src \in Proc /\ m.call \in Calls /\ SentLocally(m.src, m.call) /\ p \in Local(m.src)
  BY <1>1, MessageType DEF Ranks, Typed, PhaseTwo, LocalMessage, IsLocalMessage
<1>3. /\ call[p] \in Nat /\ m.call \in Nat /\ entered[p]["local"] \in Nat
      /\ entered[p]["local"] <= call[p]
  BY <1>2, TypedParts, ConstAssumption
     DEF Ranks, Scalars, Control, EnteredNow, Collectives, Calls
<1>4. ~ (m.call < call[p])
  <2> SUFFICES ASSUME m.call < call[p] PROVE FALSE
    OBVIOUS
  <2>1. Past(p, m.call)
    BY <1>2, <1>3 DEF Past, Returned
  <2>. QED  BY <1>1, <2>1, NothingLocal
<1>5. entered[p]["local"] >= m.call
  BY <1>2 DEF Ranks, Skew
<1>. QED  BY <1>3, <1>4, <1>5
(* What a rank holds for its node does not change after the first phase.     *)
LEMMA FrozenBuf ==
  ASSUME Ranks, NEW p \in Proc, Step(p) \/ PutLands(p), NEW q \in Proc, NEW c \in Calls,
         HasNodeBuf(q, c)
  PROVE  nodeBuf'[q][c] = nodeBuf[q][c]
<1>1. CASE ~ (GroupProbe(p) \/ GroupIprobe(p))
  <2>1. nodeBuf' = nodeBuf
    BY <1>1, Effects DEF Step
  <2>. QED  BY <2>1
<1>2. CASE GroupProbe(p) \/ GroupIprobe(p)
  <2>1. pc[p] \in {"groupProbe", "groupLoop"}
    BY <1>2 DEF GroupProbe, GroupIprobe
  <2>2. \E X : nodeBuf' = [nodeBuf EXCEPT ![p][call[p]] = X]
    BY <1>2, Effects
  <2>3. ~ (q = p /\ c = call[p])
    BY <2>1, ConstAssumption DEF HasNodeBuf, Past, At, LocalPlaces, Returned, Calls
  <2>. QED  BY <2>2, <2>3 DEF Ranks, Typed
<1>. QED  BY <1>1, <1>2

LEMMA PackedFrozen ==
  ASSUME Ranks, NEW p \in Proc, Step(p) \/ PutLands(p), NEW q \in Proc, NEW c \in Calls,
         HasNodeBuf(q, c)
  PROVE  \A l : PackedLocally(q, c, l)' = PackedLocally(q, c, l)
BY FrozenBuf DEF PackedLocally

LEMMA ShareFrozen ==
  ASSUME Ranks, NEW p \in Proc, Step(p) \/ PutLands(p), NEW q \in Proc, NEW c \in Calls,
         SentLocally(q, c)
  PROVE  LocalShare(q, c)' = LocalShare(q, c)
BY LocalReady, PackedFrozen DEF LocalShare

(* A call returns only when everything for the rank has arrived. *)
LEMMA GotAllStep ==
  ASSUME Ranks, HeldWasSent, PhaseTwo, NEW p \in Proc, Step(p) \/ PutLands(p), Moves(p),
         \A q \in Proc, c \in Calls : TwoPhase(c) => got[q][c] \subseteq got'[q][c]
  PROVE  GotAll'
<1>1. Scalars /\ Control
  BY TypedParts DEF Ranks
<1>2. SUFFICES ASSUME NEW q \in Proc, NEW c \in Calls, TwoPhase(c), Past(q, c)'
               PROVE  LocalShare(q, c)' \subseteq got'[q][c]
  BY <1>1, MethodKept DEF GotAll
<1>3. CASE Past(q, c)
  <2>1. LocalShare(q, c) \subseteq got[q][c] /\ SentLocally(q, c)
    BY <1>2, <1>3 DEF PhaseTwo, GotAll, SentLocally
  <2>. QED  BY <1>2, <2>1, ShareFrozen
<1>4. CASE /\ q = p /\ c = call[p] /\ pc'[p] = "idle" /\ call'[p] = call[p]
           /\ pc[p] \in {"localProbe", "rmaPut"}
  <2>1. pc[p] = "localProbe"
    BY <1>1, <1>2, <1>4 DEF Control, PlaceFitsMethod, RmaPlaces
  <2>2. SentLocally(q, c)
    BY <1>2, <1>4, <2>1 DEF SentLocally, At
  <2>3. Return(p)
    BY <1>4, <2>1 DEF Moves, Move, Stays
  <2>4. ~ MoreLocally(p)
    BY <2>3 DEF Return
  <2>5. LocalShare(q, c) \subseteq got[q][c]
    BY <1>2, <1>4, <2>4, LocalComplete DEF PhaseTwo
  <2>. QED  BY <1>2, <2>2, <2>5, ShareFrozen
<1>. QED  BY <1>1, <1>2, <1>3, <1>4, PastGrows

LEMMA LocalMessageKept ==
  ASSUME Ranks, NEW p \in Proc, Step(p) \/ PutLands(p), Moves(p),
         NEW m \in flight, m.comm = "local", IsLocalMessage(m)
  PROVE  IsLocalMessage(m)'
<1>1. m.src \in Proc /\ m.dst \in Proc /\ m.call \in Calls /\ Scalars /\ Control
  BY MessageType, TypedParts DEF Ranks, Typed
<1>2. SentLocally(m.src, m.call)' /\ HasNodeBuf(m.src, m.call)
  BY <1>1, DoneStays DEF IsLocalMessage
<1>3. PackedLocally(m.src, m.call, LocalRank(m.dst))' = PackedLocally(m.src, m.call, LocalRank(m.dst))
  BY <1>1, <1>2, PackedFrozen
<1>4. CallTag' = CallTag
  BY <1>1, MethodKept DEF CallTag
<1>. QED  BY <1>2, <1>3, <1>4 DEF IsLocalMessage

(* A step that neither sends nor receives over local_comm. *)
LEMMA PhaseTwoQuiet ==
  ASSUME Ranks, HeldWasSent, PhaseTwo, NEW p \in Proc, Step(p) \/ PutLands(p), Moves(p),
         Quiet("local"), \A q \in Proc, c \in Calls : TwoPhase(c) => got'[q][c] = got[q][c],
         \A q \in Proc, c \in Calls : SentLocally(q, c)' => SentLocally(q, c)
  PROVE  PhaseTwo'
<1>1. Scalars /\ Control
  BY TypedParts DEF Ranks
<1>2. \A q \in Proc, c \in Calls : /\ SentLocally(q, c)' <=> SentLocally(q, c)
                                   /\ SentLocally(q, c) => HasNodeBuf(q, c) /\ TwoPhase(c)
                                   /\ TwoPhase(c)' <=> TwoPhase(c)
  BY <1>1, DoneStays, MethodKept DEF SentLocally
<1>3. \A q, r, c : OnItsWay("local", q, r, c)' <=> OnItsWay("local", q, r, c)
  BY DEF OnItsWay, Quiet
<1>4. \A q \in Proc, c \in Calls : SentLocally(q, c) =>
        \A l : PackedLocally(q, c, l)' = PackedLocally(q, c, l)
  BY <1>2, PackedFrozen
<1>5. LocalMessage'
  BY LocalMessageKept DEF PhaseTwo, LocalMessage, Quiet
<1>6. GotWasSent'
  <2> SUFFICES ASSUME NEW r \in Proc, NEW c \in Calls, TwoPhase(c), NEW i \in got[r][c]
               PROVE  \E q \in Local(r) : HandedBy(q, r, c, i)'
    BY <1>2 DEF GotWasSent
  <2>1. PICK q \in Local(r) : HandedBy(q, r, c, i)
    BY DEF PhaseTwo, GotWasSent
  <2>2. q \in Proc
    BY CommRanks
  <2>. QED  BY <1>2, <1>3, <1>4, <2>1, <2>2 DEF HandedBy
<1>7. SentIsGot'
  <2> SUFFICES ASSUME NEW r \in Proc, NEW c \in Calls, NEW q \in Local(r), SentLocally(q, c)'
               PROVE  PackedLocally(q, c, LocalRank(r))' \subseteq got'[r][c]
                        \/ OnItsWay("local", q, r, c)'
    BY DEF SentIsGot
  <2>1. q \in Proc /\ SentLocally(q, c) /\ TwoPhase(c)
    BY <1>2, CommRanks
  <2>2. PackedLocally(q, c, LocalRank(r)) \subseteq got[r][c] \/ OnItsWay("local", q, r, c)
    BY <2>1 DEF PhaseTwo, SentIsGot
  <2>3. PackedLocally(q, c, LocalRank(r))' = PackedLocally(q, c, LocalRank(r))
    BY <1>4, <2>1
  <2>. QED  BY <1>3, <2>1, <2>2, <2>3
<1>8. GotAll'
  BY GotAllStep
<1>. QED  BY <1>5, <1>6, <1>7, <1>8 DEF PhaseTwo

(* Rank p sends its messages of the second phase of its call c. *)
LEMMA PhaseTwoSend ==
  ASSUME Ranks, HeldWasSent, PhaseTwo, NEW p \in Proc, Step(p) \/ PutLands(p), Moves(p),
         NEW c \in Calls,
         NEW t \in 0 .. MaxTag - 1, t = NextTag(CallTag[c]),
         flight' = flight \cup LocalMessages(p, c, t), nodeBuf' = nodeBuf, got' = got,
         ~ SentLocally(p, c), SentLocally(p, c)',
         \A q \in Proc, d \in Calls : SentLocally(q, d)' => SentLocally(q, d) \/ (q = p /\ d = c)
  PROVE  PhaseTwo'
<1>1. Scalars /\ Control /\ nodeBuf[p][c] \subseteq HeldSet
  BY TypedParts DEF Ranks, Typed
<1>2. \A q \in Proc, d \in Calls : /\ SentLocally(q, d) => SentLocally(q, d)'
                                   /\ TwoPhase(d)' <=> TwoPhase(d)
  BY <1>1, DoneStays, MethodKept
<1>3. \A q, d, l : PackedLocally(q, d, l)' = PackedLocally(q, d, l)
  BY DEF PackedLocally
<1>4. \A m \in LocalMessages(p, c, t) :
        /\ m.comm = "local" /\ m.src = p /\ m.call = c /\ m.tag = t
        /\ m.dst \in Local(p) /\ m.items = PackedLocally(p, c, LocalRank(m.dst)) /\ m.items # {}
  BY <1>1, LocalMessagesType
<1>5. LocalMessage'
  <2>1. ASSUME NEW m \in LocalMessages(p, c, t)
        PROVE  IsLocalMessage(m)'
    <3>1. CallTag' = CallTag
      BY <1>1, MethodKept DEF CallTag
    <3>. QED  BY <1>3, <1>4, <3>1 DEF IsLocalMessage
  <2>2. ASSUME NEW m \in flight', m.comm = "local" PROVE IsLocalMessage(m)'
    BY <2>1, <2>2, LocalMessageKept DEF PhaseTwo, LocalMessage
  <2>. QED  BY <2>2 DEF LocalMessage
<1>6. \A q, r, d : OnItsWay("local", q, r, d)' => OnItsWay("local", q, r, d) \/ (q = p /\ d = c)
  BY <1>4 DEF OnItsWay
<1>7. \A q, r, d : OnItsWay("local", q, r, d) => OnItsWay("local", q, r, d)'
  BY DEF OnItsWay
<1>8. GotWasSent'
  <2> SUFFICES ASSUME NEW r \in Proc, NEW d \in Calls, TwoPhase(d), NEW i \in got[r][d]
               PROVE  \E q \in Local(r) : HandedBy(q, r, d, i)'
    BY <1>2 DEF GotWasSent
  <2>1. PICK q \in Local(r) : HandedBy(q, r, d, i)
    BY DEF PhaseTwo, GotWasSent
  <2>2. q \in Proc /\ SentLocally(q, d) /\ ~ OnItsWay("local", q, r, d)
    BY <2>1, CommRanks DEF HandedBy
  <2>3. SentLocally(q, d)' /\ ~ OnItsWay("local", q, r, d)'
    BY <1>2, <1>6, <2>2
  <2>. QED  BY <1>3, <2>1, <2>3 DEF HandedBy
<1>9. SentIsGot'
  <2> SUFFICES ASSUME NEW r \in Proc, NEW d \in Calls, NEW q \in Local(r), SentLocally(q, d)'
               PROVE  PackedLocally(q, d, LocalRank(r)) \subseteq got[r][d]
                        \/ OnItsWay("local", q, r, d)'
    BY <1>3 DEF SentIsGot
  <2>1. q \in Proc /\ r \in Local(q)
    BY CommRanks
  <2>2. CASE SentLocally(q, d)
    BY <2>2, <1>7 DEF PhaseTwo, SentIsGot
  <2>3. CASE q = p /\ d = c /\ PackedLocally(p, c, LocalRank(r)) # {}
    <3> DEFINE m == [comm |-> "local", src |-> p, dst |-> r, tag |-> t, call |-> c,
                     items |-> PackedLocally(p, c, LocalRank(r))]
    <3>1. m \in LocalMessages(p, c, t)
      BY <2>1, <2>3 DEF LocalMessages
    <3>2. m \in flight' /\ m.comm = "local" /\ m.src = q /\ m.dst = r /\ m.call = d
      BY <2>3, <3>1
    <3>. QED  BY <3>2 DEF OnItsWay
  <2>4. CASE q = p /\ d = c /\ PackedLocally(p, c, LocalRank(r)) = {}
    BY <2>4
  <2>. QED  BY <2>1, <2>2, <2>3, <2>4
<1>10. GotAll'
  BY GotAllStep
<1>. QED  BY <1>5, <1>8, <1>9, <1>10 DEF PhaseTwo

(* Rank p receives message m in its second phase. *)
LEMMA PhaseTwoReceive ==
  ASSUME Ranks, HeldWasSent, PhaseTwo, NEW p \in Proc, Step(p) \/ PutLands(p), Moves(p),
         Stays(p, {"localProbe"}), nodeBuf' = nodeBuf,
         NEW m \in Matching(p, "local"), flight' = flight \ {m},
         got' = [got EXCEPT ![p][call[p]] = @ \cup m.items]
  PROVE  PhaseTwo'
<1>0. PICK c : c = call[p]
  OBVIOUS
<1>1. m \in flight /\ m.comm = "local" /\ m.dst = p /\ m.call = c
  BY <1>0, OwnLocalMessage DEF Matching, Stays
<1>2. /\ m.src \in Proc /\ c \in Calls /\ SentLocally(m.src, c) /\ m.src \in Local(p) /\ TwoPhase(c)
      /\ m.items = PackedLocally(m.src, c, LocalRank(p))
  BY <1>1, MessageType, CommRanks
     DEF Ranks, Typed, PhaseTwo, LocalMessage, IsLocalMessage, SentLocally
<1>3. Scalars /\ Control /\ got \in [Proc -> [Calls -> SUBSET ReportSet]]
  BY TypedParts DEF Ranks, Scalars, Buffers
<1>4. \A q \in Proc, d \in Calls : /\ SentLocally(q, d)' <=> SentLocally(q, d)
                                   /\ TwoPhase(d)' <=> TwoPhase(d)
  BY DEF Stays, SentLocally, Past, At, Returned, TwoPhase
<1>5. \A q, d, l : PackedLocally(q, d, l)' = PackedLocally(q, d, l)
  BY DEF PackedLocally
<1>6. LocalMessage'
  BY LocalMessageKept DEF PhaseTwo, LocalMessage
<1>7. \A q, r, d : OnItsWay("local", q, r, d)' => OnItsWay("local", q, r, d)
  BY DEF OnItsWay
<1>8. ~ OnItsWay("local", m.src, p, c)'
  <2> SUFFICES ASSUME NEW n \in flight, n # m, n.comm = "local", n.src = m.src, n.dst = p, n.call = c
               PROVE  FALSE
    BY DEF OnItsWay
  <2>1. m \in MessageSet /\ n \in MessageSet
    BY <1>1 DEF Ranks, Typed
  <2>2. m.tag = n.tag /\ m.items = n.items
    BY <1>1 DEF PhaseTwo, LocalMessage, IsLocalMessage
  <2>. QED  BY <1>1, <2>1, <2>2 DEF MessageSet
<1>9. /\ got'[p][c] = got[p][c] \cup m.items
      /\ \A r \in Proc, d \in Calls : ~ (r = p /\ d = c) => got'[r][d] = got[r][d]
  BY <1>0, <1>2, <1>3
<1>10. GotWasSent'
  <2> SUFFICES ASSUME NEW r \in Proc, NEW d \in Calls, TwoPhase(d), NEW i \in got'[r][d]
               PROVE  \E q \in Local(r) : HandedBy(q, r, d, i)'
    BY <1>4 DEF GotWasSent
  <2>1. CASE i \in got[r][d]
    <3>1. PICK q \in Local(r) : HandedBy(q, r, d, i)
      BY <2>1 DEF PhaseTwo, GotWasSent
    <3>2. q \in Proc
      BY CommRanks
    <3>. QED  BY <1>4, <1>5, <1>7, <3>1, <3>2 DEF HandedBy
  <2>2. CASE r = p /\ d = c /\ i \in m.items
    <3>1. HandedBy(m.src, r, d, i)'
      BY <1>2, <1>4, <1>5, <1>8, <2>2 DEF HandedBy
    <3>. QED  BY <1>2, <2>2, <3>1
  <2>. QED  BY <1>9, <2>1, <2>2
<1>11. SentIsGot'
  <2> SUFFICES ASSUME NEW r \in Proc, NEW d \in Calls, NEW q \in Local(r), SentLocally(q, d)
               PROVE  PackedLocally(q, d, LocalRank(r)) \subseteq got'[r][d]
                        \/ OnItsWay("local", q, r, d)'
    BY <1>4, <1>5, CommRanks DEF SentIsGot
  <2>1. CASE PackedLocally(q, d, LocalRank(r)) \subseteq got[r][d]
    BY <1>9, <2>1
  <2>2. CASE OnItsWay("local", q, r, d)
    <3>1. PICK n \in flight : n.comm = "local" /\ n.src = q /\ n.dst = r /\ n.call = d
      BY <2>2 DEF OnItsWay
    <3>2. CASE n = m
      BY <1>1, <1>2, <1>9, <3>1, <3>2
    <3>3. CASE n # m
      BY <3>1, <3>3 DEF OnItsWay
    <3>. QED  BY <3>2, <3>3
  <2>. QED  BY <2>1, <2>2 DEF PhaseTwo, SentIsGot
<1>12. GotAll'
  BY <1>9, GotAllStep
<1>. QED  BY <1>6, <1>10, <1>11, <1>12 DEF PhaseTwo

LEMMA PhaseTwoStep ==
  ASSUME Ranks, HeldWasSent, PhaseTwo, NEW p \in Proc, Step(p) \/ PutLands(p), Moves(p)
  PROVE  PhaseTwo'
<1>1. Scalars /\ Control /\ TagSync
  BY TypedParts DEF Ranks
<1>2. CASE LocalProbe(p)
  <2>1. Stays(p, {"localProbe"}) /\ nodeBuf' = nodeBuf
    BY <1>2 DEF Stays, LocalProbe
  <2>. QED  BY <1>2, <2>1, Effects, PhaseTwoReceive
<1>3. CASE LocalAllreduce(p) \/ LocalAllreducev(p)
  <2>1. /\ pc[p] = "localAllreduce" /\ pc'[p] = "localProbe" /\ call'[p] = call[p]
        /\ call[p] \in Calls /\ TwoPhase(call[p]) /\ nodeBuf' = nodeBuf /\ got' = got
    BY <1>1, <1>3
    DEF LocalAllreduce, LocalAllreducev, Scalars, InCall, Control, PlaceFitsMethod, LocalPlaces
  <2>2. PICK c \in Calls : c = call[p]
    BY <2>1
  <2>3. TwoPhase(c) /\ (TwoPhase(c)' <=> TwoPhase(c)) /\ call[p] \in Nat
    BY <1>1, <2>1, <2>2, MethodKept
  <2>4. PICK t \in 0 .. MaxTag - 1 :
          t = NextTag(CallTag[c]) /\ flight' = flight \cup LocalMessages(p, c, t)
    <3>1. CASE LocalAllreduce(p)
      BY <1>1, <2>1, <2>2, <3>1 DEF LocalAllreduce, TagSync, Scalars
    <3>2. CASE LocalAllreducev(p)
      BY <1>1, <2>1, <2>2, <3>2 DEF LocalAllreducev, TagSync, Scalars
    <3>. QED  BY <1>3, <3>1, <3>2
  <2>5. ~ SentLocally(p, c) /\ SentLocally(p, c)'
    BY <2>1, <2>2, <2>3 DEF SentLocally, Past, At, Returned
  <2>6. \A q \in Proc, d \in Calls : SentLocally(q, d)' => SentLocally(q, d) \/ (q = p /\ d = c)
    BY <1>1, <2>1, <2>2, DoneBy
  <2>. QED  BY <2>1, <2>4, <2>5, <2>6, PhaseTwoSend
<1>4. CASE ~ (LocalProbe(p) \/ LocalAllreduce(p) \/ LocalAllreducev(p))
  <2>1. Quiet("local")
    BY <1>4, QuietSteps DEF Step
  <2>2. ~ (pc[p] = "localAllreduce" /\ pc'[p] = "localProbe")
    BY <1>4 DEF Moves, Move, Stays
  <2>3. \A q \in Proc, c \in Calls : SentLocally(q, c)' => SentLocally(q, c)
    BY <1>1, <2>2, DoneBy
  <2>4. \A q \in Proc, c \in Calls : TwoPhase(c) => got'[q][c] = got[q][c]
    <3>1. CASE RmaScan(p)
      <4>1. ~ TwoPhase(call[p]) /\ got \in [Proc -> [Calls -> SUBSET ReportSet]]
        BY <3>1 DEF RmaScan, Ranks, Typed, Control, PlaceFitsMethod, RmaPlaces
      <4>. QED  BY <3>1, <4>1 DEF RmaScan
    <3>2. CASE ~ RmaScan(p)
      <4>1. got' = got
        BY <1>4, <3>2, Effects DEF Step
      <4>. QED  BY <4>1
    <3>. QED  BY <3>1, <3>2
  <2>. QED  BY <2>1, <2>3, <2>4, PhaseTwoQuiet
<1>. QED  BY <1>2, <1>3, <1>4
-----------------------------------------------------------------------------
(* The one-sided method. *)
LEMMA PutsKept ==
  ASSUME load' = load
  PROVE  /\ \A c, p : Puts(c, p)' = Puts(c, p)
         /\ \A q, c, p : Slot(q, c, p)' = Slot(q, c, p)
BY DEF Puts, Slot, Data

LEMMA GotPutsStep ==
  ASSUME Ranks, GotPuts, NEW p \in Proc, Moves(p),
         \A q \in Proc, c \in Calls : ~ TwoPhase(c) /\ Past(q, c) => got'[q][c] = got[q][c],
         pc[p] = "rmaPut" /\ pc'[p] = "idle" =>
           got'[p][call[p]] = { Slot(q, call[p], p) : q \in Puts(call[p], p) }
  PROVE  GotPuts'
<1>1. Scalars /\ Control
  BY TypedParts DEF Ranks
<1>2. load' = load
  BY <1>1, MethodKept
<1>3. SUFFICES ASSUME NEW q \in Proc, NEW c \in Calls, ~ TwoPhase(c), Past(q, c)'
               PROVE  got'[q][c] = { Slot(r, c, q) : r \in Puts(c, q) }
  BY <1>1, <1>2, MethodKept, PutsKept DEF GotPuts
<1>4. CASE Past(q, c)
  BY <1>3, <1>4 DEF GotPuts
<1>5. CASE /\ q = p /\ c = call[p] /\ pc'[p] = "idle" /\ call'[p] = call[p]
           /\ pc[p] \in {"localProbe", "rmaPut"}
  <2>1. pc[p] = "rmaPut"
    BY <1>1, <1>3, <1>5 DEF Control, PlaceFitsMethod, LocalPlaces
  <2>. QED  BY <1>5, <2>1
<1>. QED  BY <1>1, <1>3, <1>4, <1>5, PastGrows

(* A step of a rank that is in no one-sided call. *)
LEMMA OneSidedQuiet ==
  ASSUME Ranks, OneSided, NEW p \in Proc, Moves(p), Quiet("win"), win' = win,
         pc[p] \notin RmaPlaces, pc'[p] \notin RmaPlaces,
         \A q \in Proc, c \in Calls : ~ TwoPhase(c) /\ Past(q, c) => got'[q][c] = got[q][c]
  PROVE  OneSided'
<1>1. Scalars /\ Control
  BY TypedParts DEF Ranks
<1>2. load' = load
  BY <1>1, MethodKept
<1>3. \A q \in Proc : /\ pc'[q] \in RmaPlaces <=> pc[q] \in RmaPlaces
                      /\ pc'[q] = "rmaPut" <=> pc[q] = "rmaPut"
                      /\ pc[q] \in RmaPlaces => call'[q] = call[q] /\ call[q] \in Calls
  BY <1>1 DEF Moves, Move, Stays, RmaPlaces, Scalars, InCall
<1>4. \A q \in Proc, c \in Calls : HasPut(q, c)' <=> HasPut(q, c)
  BY <1>1, DoneBy, DoneStays DEF RmaPlaces
<1>5. \A q, r, c : OnItsWay("win", q, r, c)' <=> OnItsWay("win", q, r, c)
  BY DEF OnItsWay, Quiet
<1>6. \A c, r, q : q \in Puts(c, r) => q \in Proc
  BY DEF Puts
<1>7. PutMessage'
  <2> SUFFICES ASSUME NEW m \in flight, m.comm = "win" PROVE IsPut(m)'
    BY DEF PutMessage, Quiet
  <2>1. IsPut(m) /\ m.src \in Proc /\ m.dst \in Proc
    BY MessageType DEF OneSided, PutMessage, Ranks, Typed
  <2>2. At(m.src, m.call, {"rmaPut"})' /\ At(m.dst, m.call, RmaPlaces)'
    BY <2>1, <1>3 DEF IsPut, At, RmaPlaces
  <2>. QED  BY <1>2, <2>1, <2>2, PutsKept DEF IsPut
<1>8. WinWasPut'
  <2> SUFFICES ASSUME NEW r \in Proc, pc[r] \in RmaPlaces, NEW i \in win[r]
               PROVE  Landed(r, call[r], i)'
    BY <1>3 DEF WinWasPut
  <2>1. Landed(r, call[r], i)
    BY DEF OneSided, WinWasPut
  <2>2. call'[r] = call[r] /\ call[r] \in Calls
    BY <1>3
  <2>. QED  BY <1>2, <1>4, <1>5, <1>6, <2>1, <2>2, PutsKept DEF Landed
<1>9. PutIsInWin'
  <2> SUFFICES ASSUME NEW r \in Proc, pc[r] \in RmaPlaces, NEW q \in Puts(call[r], r),
                      HasPut(q, call[r])
               PROVE  Slot(q, call[r], r) \in win[r] \/ OnItsWay("win", q, r, call[r])
    BY <1>2, <1>3, <1>4, <1>5, <1>6, PutsKept DEF PutIsInWin
  <2>. QED  BY DEF OneSided, PutIsInWin
<1>10. pc[p] # "rmaPut"
  BY DEF RmaPlaces
<1>11. GotPuts'
  BY <1>10, GotPutsStep DEF OneSided
<1>. QED  BY <1>7, <1>8, <1>9, <1>11 DEF OneSided

LEMMA RmaClearStep ==
  ASSUME Ranks, OneSided, NEW p \in Proc, RmaClear(p), Moves(p)
  PROVE  OneSided'
<1>1. Scalars /\ Control
  BY TypedParts DEF Ranks
<1>2. load' = load
  BY <1>1, MethodKept
<1>3. /\ flight' = flight /\ got' = got /\ win'[p] = {} /\ \A q \in Proc : q # p => win'[q] = win[q]
  BY Effects DEF Ranks, Typed
<1>4. PICK c \in Calls : c = call'[p]
  BY <1>1, EnterType DEF RmaClear
<1>5. /\ pc[p] = "idle" /\ pc'[p] = "rmaClear" /\ c = call[p] + 1 /\ call[p] \in Nat
      /\ \A q \in Proc : q # p => pc'[q] = pc[q] /\ call'[q] = call[q]
  BY <1>1, <1>4, EnterType, MethodKept DEF RmaClear
<1>6. \A q \in Proc, d \in Calls : HasPut(q, d)' <=> HasPut(q, d)
  BY <1>1, <1>5, DoneBy, DoneStays
<1>7. \A q, r, d : OnItsWay("win", q, r, d)' <=> OnItsWay("win", q, r, d)
  BY <1>3 DEF OnItsWay
<1>8. \A d, r, q : q \in Puts(d, r) => q \in Proc
  BY DEF Puts
<1>9. \A q \in Proc : ~ HasPut(q, c)
  <2>1. entered[p]["clear"] <= call[p] /\ entered[p]["clear"] \in Nat /\ c \in Nat
    BY <1>1, <1>4, MethodKept, ConstAssumption DEF Control, EnteredNow, Scalars, Collectives
  <2>. QED  BY <2>1, <1>5 DEF Ranks, Skew
<1>10. PutMessage'
  <2> SUFFICES ASSUME NEW m \in flight, m.comm = "win" PROVE IsPut(m)'
    BY <1>3 DEF PutMessage
  <2>1. IsPut(m) /\ m.src \in Proc /\ m.dst \in Proc
    BY MessageType DEF OneSided, PutMessage, Ranks, Typed
  <2>2. At(m.src, m.call, {"rmaPut"})' /\ At(m.dst, m.call, RmaPlaces)'
    BY <2>1, <1>5 DEF IsPut, At, RmaPlaces
  <2>. QED  BY <1>2, <2>1, <2>2, PutsKept DEF IsPut
<1>11. WinWasPut'
  <2> SUFFICES ASSUME NEW r \in Proc, pc'[r] \in RmaPlaces, NEW i \in win'[r]
               PROVE  Landed(r, call[r], i)' /\ call'[r] = call[r]
    BY DEF WinWasPut, Landed
  <2>1. r # p /\ pc[r] \in RmaPlaces /\ i \in win[r] /\ call'[r] = call[r]
    BY <1>3, <1>5
  <2>2. Landed(r, call[r], i) /\ call[r] \in Calls
    BY <1>1, <2>1 DEF OneSided, WinWasPut, Scalars, InCall, RmaPlaces
  <2>. QED  BY <1>2, <1>6, <1>7, <1>8, <2>1, <2>2, PutsKept DEF Landed
<1>12. PutIsInWin'
  <2> SUFFICES ASSUME NEW r \in Proc, pc'[r] \in RmaPlaces, NEW q \in Puts(call'[r], r),
                      HasPut(q, call[r])'
               PROVE  Slot(q, call'[r], r) \in win'[r] \/ OnItsWay("win", q, r, call'[r])
    BY <1>2, <1>7, PutsKept DEF PutIsInWin
  <2>1. CASE r = p
    <3>1. HasPut(q, call[r])' => HasPut(q, c)'
      BY <1>4, <2>1 DEF HasPut, Past, At, TwoPhase
    <3>. QED  BY <1>6, <1>8, <1>9, <3>1
  <2>2. CASE r # p
    <3>1. pc[r] \in RmaPlaces /\ win'[r] = win[r] /\ call'[r] = call[r] /\ call[r] \in Calls
      BY <1>1, <1>3, <1>5, <2>2 DEF Scalars, InCall, RmaPlaces
    <3>2. HasPut(q, call[r])
      BY <1>6, <1>8, <3>1
    <3>. QED  BY <3>1, <3>2 DEF OneSided, PutIsInWin
  <2>. QED  BY <2>1, <2>2
<1>13. GotPuts'
  BY <1>3, <1>5, GotPutsStep DEF OneSided
<1>. QED  BY <1>10, <1>11, <1>12, <1>13 DEF OneSided

(* Between the barriers of a call everyone is in that call. *)
LEMMA TargetReady ==
  ASSUME Ranks, NEW p \in Proc, pc[p] = "rmaClear", AllEntered(p, Proc, "clear"), NEW q \in Proc
  PROVE  At(q, call[p], RmaPlaces)
<1>1. /\ call[p] \in Calls /\ call[p] \in Nat /\ call[q] \in Nat /\ ~ TwoPhase(call[p])
      /\ entered[p]["put"] \in Nat /\ entered[p]["put"] <= call[p] /\ entered[p]["put"] # call[p]
      /\ entered[q]["clear"] \in Nat /\ entered[q]["clear"] <= call[q]
      /\ entered[q]["clear"] >= call[p]
  <2>1. call[p] \in Calls /\ ~ TwoPhase(call[p])
    BY DEF Ranks, Typed, InCall, Control, PlaceFitsMethod, RmaPlaces
  <2>2. /\ \A r \in Proc : call[r] \in Nat
        /\ \A r \in Proc, s \in {"put", "clear"} : entered[r][s] \in Nat /\ entered[r][s] <= call[r]
    BY ConstAssumption DEF Ranks, Typed, TypeOK, Control, EnteredNow, Collectives
  <2>3. entered[p]["put"] # call[p]
    BY DEF Ranks, Control, EnteredNow
  <2>. QED  BY <2>1, <2>2, <2>3 DEF AllEntered
<1>2. ~ Past(q, call[p])
  BY <1>1 DEF Ranks, Skew
<1>3. call[q] = call[p] /\ pc[q] # "idle"
  BY <1>1, <1>2 DEF Past, Returned
<1>4. pc[q] \in {"idle"} \cup RmaPlaces
  BY <1>1, <1>3 DEF Ranks, Control, EnteredNow
<1>. QED  BY <1>1, <1>3, <1>4 DEF At

LEMMA RmaPutStep ==
  ASSUME Ranks, OneSided, NEW p \in Proc, RmaPut(p), Moves(p)
  PROVE  OneSided'
<1>1. Scalars /\ Control /\ load \in Loads
  BY TypedParts DEF Ranks, Scalars
<1>2. load' = load
  BY <1>1, MethodKept
<1>3. /\ flight' = flight \cup PutMessages(p) /\ got' = got /\ win' = win
  BY Effects
<1>4. PICK c \in Calls : c = call[p]
  BY <1>1 DEF RmaPut, Scalars, InCall
<1>5. /\ pc[p] = "rmaClear" /\ pc'[p] = "rmaPut" /\ call' = call /\ c \in Nat
      /\ \A q \in Proc : q # p => pc'[q] = pc[q]
      /\ AllEntered(p, Proc, "clear")
  BY <1>1, <1>4, MethodKept DEF RmaPut, Scalars
<1>6. ~ TwoPhase(c) /\ ~ HasPut(p, c) /\ HasPut(p, c)'
  BY <1>1, <1>4, <1>5, MethodKept
     DEF Control, PlaceFitsMethod, RmaPlaces, HasPut, Past, At, Returned
<1>7. \A q \in Proc, d \in Calls : /\ HasPut(q, d) => HasPut(q, d)'
                                   /\ HasPut(q, d)' => HasPut(q, d) \/ (q = p /\ d = c)
  BY <1>1, <1>4, <1>5, DoneBy, DoneStays
<1>8. \A m \in PutMessages(p) :
        /\ m.comm = "win" /\ m.src = p /\ m.call = c /\ m.tag = 0
        /\ m.dst \in Proc /\ m.dst \in DOMAIN load[p][c] /\ m.items = {Slot(p, c, m.dst)}
  BY <1>1, <1>4, PutMessagesType DEF PutMessages
<1>9. \A q, r, d : OnItsWay("win", q, r, d)' => OnItsWay("win", q, r, d) \/ (q = p /\ d = c)
  BY <1>3, <1>8 DEF OnItsWay
<1>10. \A q, r, d : OnItsWay("win", q, r, d) => OnItsWay("win", q, r, d)'
  BY <1>3 DEF OnItsWay
<1>11. \A d, r, q : q \in Puts(d, r) => q \in Proc
  BY DEF Puts
<1>12. \A q \in Proc : pc'[q] \in RmaPlaces <=> pc[q] \in RmaPlaces
  BY <1>5 DEF RmaPlaces
<1>13. PutMessage'
  <2>1. ASSUME NEW m \in flight, m.comm = "win" PROVE IsPut(m)'
    <3>1. IsPut(m) /\ m.src \in Proc /\ m.dst \in Proc
      BY <2>1, MessageType DEF OneSided, PutMessage, Ranks, Typed
    <3>2. At(m.src, m.call, {"rmaPut"})' /\ At(m.dst, m.call, RmaPlaces)'
      BY <3>1, <1>5, <1>12 DEF IsPut, At
    <3>. QED  BY <1>2, <3>1, <3>2, PutsKept DEF IsPut
  <2>2. ASSUME NEW m \in PutMessages(p) PROVE IsPut(m)'
    <3>1. At(m.dst, c, RmaPlaces)' /\ At(p, c, {"rmaPut"})'
      <4>1. At(m.dst, c, RmaPlaces)
        BY <1>4, <1>5, <1>8, TargetReady
      <4>. QED  BY <1>4, <1>5, <1>8, <1>12, <4>1 DEF At
    <3>. QED  BY <1>2, <1>8, <3>1, PutsKept DEF IsPut
  <2>. QED  BY <1>3, <2>1, <2>2 DEF PutMessage
<1>14. WinWasPut'
  <2> SUFFICES ASSUME NEW r \in Proc, pc[r] \in RmaPlaces, NEW i \in win[r]
               PROVE  Landed(r, call[r], i)'
    BY <1>3, <1>12 DEF WinWasPut
  <2>1. Landed(r, call[r], i) /\ call[r] \in Calls
    BY <1>1 DEF OneSided, WinWasPut, Scalars, InCall, RmaPlaces
  <2>2. i.origin \in Proc /\ ~ (i.origin = p /\ call[r] = c)
    BY <1>6, <1>11, <2>1 DEF Landed
  <2>. QED  BY <1>2, <1>5, <1>7, <1>9, <2>1, <2>2, PutsKept DEF Landed
<1>15. PutIsInWin'
  <2> SUFFICES ASSUME NEW r \in Proc, pc[r] \in RmaPlaces, NEW q \in Puts(call[r], r),
                      HasPut(q, call[r])'
               PROVE  Slot(q, call[r], r) \in win[r] \/ OnItsWay("win", q, r, call[r])'
    BY <1>2, <1>3, <1>5, <1>12, PutsKept DEF PutIsInWin
  <2>1. q \in Proc /\ call[r] \in Calls
    BY <1>1, <1>11 DEF Scalars, InCall, RmaPlaces
  <2>2. CASE HasPut(q, call[r])
    BY <1>5, <1>10, <2>2 DEF OneSided, PutIsInWin
  <2>3. CASE q = p /\ call[r] = c
    <3> DEFINE m == [comm |-> "win", src |-> p, dst |-> r, tag |-> 0, call |-> call[p],
                     items |-> {[origin |-> p, data |-> Data(p, call[p], r)]}]
    <3>1. m \in PutMessages(p)
      BY <1>4, <2>3 DEF PutMessages, Puts
    <3>2. m \in flight' /\ m.comm = "win" /\ m.src = q /\ m.dst = r /\ m.call = call[r]
      BY <1>3, <1>4, <2>3, <3>1
    <3>. QED  BY <1>5, <3>2 DEF OnItsWay
  <2>. QED  BY <1>5, <1>7, <2>1, <2>2, <2>3
<1>16. GotPuts'
  BY <1>3, <1>5, GotPutsStep DEF OneSided
<1>. QED  BY <1>13, <1>14, <1>15, <1>16 DEF OneSided

LEMMA PutLandsStep ==
  ASSUME Ranks, OneSided, NEW p \in Proc, PutLands(p)
  PROVE  OneSided'
<1>1. PICK m \in flight :
        /\ m.comm = "win" /\ m.dst = p
        /\ flight' = flight \ {m}
        /\ win' = [win EXCEPT ![p] = { i \in @ : i.origin # m.src }
                                       \cup { i \in m.items : i.data.count > 0 }]
  BY Effects
<1>2. PICK c \in Calls : c = call[p]
  BY <1>1 DEF OneSided, PutMessage, IsPut, At
<1>3. /\ m.src \in Proc /\ m.call = c /\ At(m.src, c, {"rmaPut"}) /\ At(p, c, RmaPlaces)
      /\ p \in DOMAIN load[m.src][c] /\ m.items = {Slot(m.src, c, p)}
  BY <1>1, <1>2, MessageType DEF OneSided, PutMessage, IsPut, Ranks, Typed, At
<1>4. /\ UNCHANGED <<method, load, pc, call, got>>
      /\ \A q, d : HasPut(q, d)' <=> HasPut(q, d)
      /\ \A q, d, S : At(q, d, S)' <=> At(q, d, S)
      /\ \A d, r : Puts(d, r)' = Puts(d, r)
      /\ \A q, d, r : Slot(q, d, r)' = Slot(q, d, r)
  <2>1. UNCHANGED <<method, load, pc, call, got>>
    BY DEF PutLands
  <2>. QED  BY <2>1, PutsKept DEF HasPut, Past, At, TwoPhase, Returned
<1>5. \A q, r, d : OnItsWay("win", q, r, d)' => OnItsWay("win", q, r, d)
  BY <1>1 DEF OnItsWay
<1>6. ~ OnItsWay("win", m.src, p, c)'
  <2> SUFFICES ASSUME NEW n \in flight, n # m, n.comm = "win", n.src = m.src, n.dst = p, n.call = c
               PROVE  FALSE
    BY <1>1 DEF OnItsWay
  <2>1. m \in MessageSet /\ n \in MessageSet
    BY DEF Ranks, Typed
  <2>2. m.tag = n.tag /\ m.items = n.items
    BY <1>1, <1>3 DEF OneSided, PutMessage, IsPut
  <2>. QED  BY <1>1, <1>3, <2>1, <2>2 DEF MessageSet
<1>7. /\ win'[p] = { i \in win[p] : i.origin # m.src } \cup { i \in m.items : i.data.count > 0 }
      /\ \A r \in Proc : r # p => win'[r] = win[r]
  BY <1>1 DEF Ranks, Typed
<1>8. HasPut(m.src, c)
  BY <1>3 DEF HasPut, At, Ranks, Control, PlaceFitsMethod, RmaPlaces
<1>9. Slot(m.src, c, p).data.count > 0 <=> m.src \in Puts(c, p)
  BY <1>3 DEF Slot, Data, Puts
<1>10. PutMessage'
  BY <1>1, <1>4 DEF OneSided, PutMessage, IsPut
<1>11. WinWasPut'
  <2> SUFFICES ASSUME NEW r \in Proc, pc[r] \in RmaPlaces, NEW i \in win'[r]
               PROVE  Landed(r, call[r], i)'
    BY <1>4 DEF WinWasPut
  <2>1. CASE i \in win[r]
    <3>1. Landed(r, call[r], i)
      BY <2>1 DEF OneSided, WinWasPut
    <3>. QED  BY <1>4, <1>5, <3>1 DEF Landed
  <2>2. CASE r = p /\ i = Slot(m.src, c, p) /\ i.data.count > 0
    <3>1. i.origin = m.src
      BY <2>2 DEF Slot
    <3>. QED  BY <1>2, <1>4, <1>6, <1>8, <1>9, <2>2, <3>1 DEF Landed
  <2>. QED  BY <1>3, <1>7, <2>1, <2>2
<1>12. PutIsInWin'
  <2> SUFFICES ASSUME NEW r \in Proc, pc[r] \in RmaPlaces, NEW q \in Puts(call[r], r),
                      HasPut(q, call[r])
               PROVE  Slot(q, call[r], r) \in win'[r] \/ OnItsWay("win", q, r, call[r])'
    BY <1>4 DEF PutIsInWin
  <2>1. CASE q = m.src /\ r = p
    BY <1>2, <1>3, <1>7, <1>9, <2>1
  <2>2. CASE ~ (q = m.src /\ r = p)
    <3>1. CASE Slot(q, call[r], r) \in win[r]
      <4>1. Slot(q, call[r], r).origin = q
        BY DEF Slot
      <4>. QED  BY <1>7, <2>2, <3>1, <4>1
    <3>2. CASE OnItsWay("win", q, r, call[r])
      BY <1>1, <1>4, <2>2, <3>2 DEF OnItsWay
    <3>. QED  BY <3>1, <3>2 DEF OneSided, PutIsInWin
  <2>. QED  BY <2>1, <2>2
<1>13. GotPuts'
  BY <1>4 DEF OneSided, GotPuts, Past, TwoPhase, Returned
<1>. QED  BY <1>10, <1>11, <1>12, <1>13 DEF OneSided

(* The fence: every put to the rank is in its window. *)
LEMMA FenceComplete ==
  ASSUME Ranks, OneSided, NEW p \in Proc, pc[p] = "rmaPut", Fence(p)
  PROVE  win[p] = { Slot(q, call[p], p) : q \in Puts(call[p], p) }
<1>0. PICK c \in Calls : c = call[p]
  BY DEF Ranks, Typed, InCall
<1>1. c \in Nat /\ ~ TwoPhase(c)
  BY <1>0 DEF Ranks, Control, PlaceFitsMethod, RmaPlaces, Calls
<1>2. ASSUME NEW q \in Puts(c, p)
      PROVE  Slot(q, c, p) \in win[p]
  <2>1. /\ q \in Proc /\ call[q] \in Nat /\ entered[q]["put"] \in Nat
        /\ entered[q]["put"] <= call[q] /\ entered[q]["put"] >= c
    BY <1>0, ConstAssumption
    DEF Puts, Ranks, Typed, TypeOK, Control, EnteredNow, Collectives, Fence, AllEntered
  <2>2. HasPut(q, c)
    <3>1. CASE c < call[q]
      BY <1>1, <2>1, <3>1 DEF HasPut, Past, Returned
    <3>2. CASE c = call[q]
      <4>1. pc[q] \in {"idle", "rmaPut"}
        BY <2>1, <3>2 DEF Ranks, Control, EnteredNow
      <4>. QED  BY <1>1, <2>1, <3>2, <4>1 DEF HasPut, Past, At, Returned
    <3>. QED  BY <1>1, <2>1, <3>1, <3>2
  <2>3. ~ OnItsWay("win", q, p, c)
    BY DEF OnItsWay, Fence
  <2>. QED  BY <1>0, <2>2, <2>3 DEF OneSided, PutIsInWin, RmaPlaces
<1>3. ASSUME NEW i \in win[p]
      PROVE  \E q \in Puts(c, p) : i = Slot(q, c, p)
  BY <1>0 DEF OneSided, WinWasPut, Landed, RmaPlaces
<1>. QED  BY <1>0, <1>2, <1>3

LEMMA RmaScanStep ==
  ASSUME Ranks, OneSided, NEW p \in Proc, RmaScan(p), Moves(p)
  PROVE  OneSided'
<1>1. Scalars /\ Control
  BY TypedParts DEF Ranks
<1>2. load' = load
  BY <1>1, MethodKept
<1>3. flight' = flight /\ win' = win /\ got' = [got EXCEPT ![p][call[p]] = win[p]]
  BY Effects
<1>4. PICK c \in Calls : c = call[p]
  BY <1>1 DEF RmaScan, Scalars, InCall
<1>5. /\ pc[p] = "rmaPut" /\ pc'[p] = "idle" /\ call' = call /\ Fence(p) /\ c \in Nat
      /\ \A q \in Proc : q # p => pc'[q] = pc[q]
  BY <1>1, <1>4, MethodKept DEF RmaScan, Scalars
<1>6. \A q \in Proc, d \in Calls : HasPut(q, d)' <=> HasPut(q, d)
  BY <1>1, <1>5, DoneBy, DoneStays
<1>7. \A q, r, d : OnItsWay("win", q, r, d)' <=> OnItsWay("win", q, r, d)
  BY <1>3 DEF OnItsWay
<1>8. \A d, r, q : q \in Puts(d, r) => q \in Proc
  BY DEF Puts
<1>9. \A q \in Proc : pc'[q] \in RmaPlaces => pc[q] \in RmaPlaces /\ call[q] \in Calls
  BY <1>1, <1>5 DEF RmaPlaces, Scalars, InCall
<1>10. PutMessage'
  <2> SUFFICES ASSUME NEW m \in flight, m.comm = "win" PROVE IsPut(m)'
    BY <1>3 DEF PutMessage
  <2>1. IsPut(m) /\ m.src \in Proc /\ m.dst \in Proc /\ m.src # p /\ m.dst # p
    BY <1>5, MessageType DEF OneSided, PutMessage, Ranks, Typed, Fence
  <2>2. At(m.src, m.call, {"rmaPut"})' /\ At(m.dst, m.call, RmaPlaces)'
    BY <2>1, <1>5 DEF IsPut, At
  <2>. QED  BY <1>2, <2>1, <2>2, PutsKept DEF IsPut
<1>11. WinWasPut'
  <2> SUFFICES ASSUME NEW r \in Proc, pc'[r] \in RmaPlaces, NEW i \in win[r]
               PROVE  Landed(r, call[r], i)'
    BY <1>3 DEF WinWasPut
  <2>1. Landed(r, call[r], i) /\ call[r] \in Calls
    BY <1>9 DEF OneSided, WinWasPut
  <2>. QED  BY <1>2, <1>5, <1>6, <1>7, <1>8, <2>1, PutsKept DEF Landed
<1>12. PutIsInWin'
  <2> SUFFICES ASSUME NEW r \in Proc, pc'[r] \in RmaPlaces, NEW q \in Puts(call[r], r),
                      HasPut(q, call[r])'
               PROVE  Slot(q, call[r], r) \in win[r] \/ OnItsWay("win", q, r, call[r])
    BY <1>2, <1>3, <1>5, <1>7, PutsKept DEF PutIsInWin
  <2>. QED  BY <1>5, <1>6, <1>8, <1>9 DEF OneSided, PutIsInWin
<1>13. /\ got'[p][c] = win[p]
       /\ \A q \in Proc, d \in Calls : ~ (q = p /\ d = c) => got'[q][d] = got[q][d]
  BY <1>3, <1>4 DEF Ranks, Typed
<1>14. ~ Past(p, c)
  BY <1>4, <1>5 DEF Past, Returned
<1>15. got'[p][c] = { Slot(q, c, p) : q \in Puts(c, p) }
  BY <1>4, <1>5, <1>13, FenceComplete
<1>16. GotPuts'
  BY <1>4, <1>13, <1>14, <1>15, GotPutsStep DEF OneSided
<1>. QED  BY <1>10, <1>11, <1>12, <1>16 DEF OneSided

LEMMA OneSidedStep ==
  ASSUME Ranks, OneSided, NEW p \in Proc, Step(p) \/ PutLands(p), Moves(p)
  PROVE  OneSided'
<1>1. Scalars /\ Control
  BY TypedParts DEF Ranks
<1>2. CASE RmaClear(p)
  BY <1>2, RmaClearStep
<1>3. CASE RmaPut(p)
  BY <1>3, RmaPutStep
<1>4. CASE PutLands(p)
  BY <1>4, PutLandsStep
<1>5. CASE RmaScan(p)
  BY <1>5, RmaScanStep
<1>6. CASE Step(p) /\ ~ (RmaClear(p) \/ RmaPut(p) \/ RmaScan(p))
  <2>1. Quiet("win")
    BY <1>6, QuietSteps DEF Step
  <2>2. win' = win
    BY <1>6, Effects DEF Step
  <2>3. pc[p] \notin RmaPlaces /\ pc'[p] \notin RmaPlaces
    <3>1. CASE \/ AlltoallPersonalizedLoc(p) \/ AlltoallvPersonalizedLoc(p)
               \/ AlltoallNonblockingLoc(p) \/ AlltoallvNonblockingLoc(p)
      <4>1. PICK methods : Enter(p, methods, "groupAllreduce") \/ Enter(p, methods, "groupLoop")
        BY <3>1 DEF AlltoallPersonalizedLoc, AlltoallvPersonalizedLoc, AlltoallNonblockingLoc,
                    AlltoallvNonblockingLoc
      <4>2. pc[p] = "idle" /\ pc'[p] \in {"groupAllreduce", "groupLoop"}
        BY <1>1, <4>1, EnterType
      <4>. QED  BY <4>2 DEF RmaPlaces
    <3>2. CASE \/ GroupAllreduce(p) \/ GroupProbe(p) \/ GroupIprobe(p) \/ Testall(p)
      <4>1. /\ pc[p] \in {"groupAllreduce", "groupProbe", "groupLoop"}
            /\ pc' = pc \/ pc' = [pc EXCEPT ![p] = "groupProbe"]
        BY <3>2 DEF GroupAllreduce, GroupProbe, GroupIprobe, ReceiveForNode, Testall
      <4>. QED  BY <1>1, <4>1 DEF RmaPlaces, Scalars
    <3>3. CASE LocalRedistribute(p) \/ LocalRedistributev(p)
      <4>1. /\ pc[p] \in {"groupProbe", "groupLoop"} /\ pc' = [pc EXCEPT ![p] = "localAllreduce"]
        BY <3>3 DEF LocalRedistribute, LocalRedistributev, PhaseOneOver
      <4>. QED  BY <1>1, <4>1 DEF RmaPlaces, Scalars
    <3>4. CASE LocalAllreduce(p) \/ LocalAllreducev(p) \/ LocalProbe(p) \/ Return(p)
      <4>1. /\ pc[p] \in {"localAllreduce", "localProbe"}
            /\ \/ pc' = pc \/ pc' = [pc EXCEPT ![p] = "localProbe"]
               \/ pc' = [pc EXCEPT ![p] = "idle"]
        BY <3>4 DEF LocalAllreduce, LocalAllreducev, LocalProbe, Return
      <4>. QED  BY <1>1, <4>1 DEF RmaPlaces, Scalars
    <3>. QED  BY <1>6, <3>1, <3>2, <3>3, <3>4 DEF Step
  <2>4. \A q \in Proc, c \in Calls : ~ TwoPhase(c) /\ Past(q, c) => got'[q][c] = got[q][c]
    <3>1. CASE LocalProbe(p)
      <4>1. TwoPhase(call[p]) /\ got \in [Proc -> [Calls -> SUBSET ReportSet]]
        BY <3>1 DEF LocalProbe, Ranks, Typed, Control, PlaceFitsMethod, LocalPlaces
      <4>. QED  BY <3>1, <4>1 DEF LocalProbe
    <3>2. CASE ~ LocalProbe(p)
      <4>1. got' = got
        BY <1>6, <3>2, Effects DEF Step
      <4>. QED  BY <4>1
    <3>. QED  BY <3>1, <3>2
  <2>. QED  BY <2>1, <2>2, <2>3, <2>4, OneSidedQuiet
<1>. QED  BY <1>2, <1>3, <1>4, <1>5, <1>6
-----------------------------------------------------------------------------
(* The invariant holds. *)
LEMMA MessagesInit == Init => PhaseOne /\ PhaseTwo /\ OneSided
<1> SUFFICES ASSUME Init PROVE PhaseOne /\ PhaseTwo /\ OneSided
  OBVIOUS
<1>1. \A p \in Proc : pc[p] = "idle" /\ call[p] = 0
  BY DEF Init
<1>2. \A p \in Proc, c \in Calls : ~ Past(p, c) /\ \A S : "idle" \notin S => ~ At(p, c, S)
  BY <1>1, ConstAssumption DEF Past, At, Returned, Calls
<1>3. \A p \in Proc, c \in Calls :
        ~ SentToNodes(p, c) /\ ~ HasNodeBuf(p, c) /\ ~ SentLocally(p, c)
  BY <1>2 DEF SentToNodes, HasNodeBuf, SentLocally, LocalPlaces
<1>4. /\ flight = {}
      /\ \A p \in Proc, c \in Calls : nodeBuf[p][c] = {} /\ got[p][c] = {}
  BY DEF Init
<1>5. PhaseOne
  BY <1>3, <1>4, CommRanks
  DEF PhaseOne, NodeMessage, HeldWasSent, SentIsHeld, HoldsAll
<1>6. PhaseTwo
  BY <1>2, <1>3, <1>4, CommRanks
  DEF PhaseTwo, LocalMessage, GotWasSent, SentIsGot, GotAll
<1>7. OneSided
  BY <1>1, <1>2, <1>4 DEF OneSided, PutMessage, WinWasPut, PutIsInWin, GotPuts, RmaPlaces
<1>. QED  BY <1>5, <1>6, <1>7

LEMMA InvariantStep ==
  ASSUME EnoughTags, IInv, [Next]_vars
  PROVE  IInv'
<1>1. Ranks'
  BY RanksStep DEF IInv
<1>2. CASE UNCHANGED vars
  <2> USE <1>2 DEF vars, Past, At, TwoPhase, Returned, OnItsWay
  <2>1. /\ UNCHANGED <<flight, nodeBuf, win, got, load, method, call, pc, entered>>
        /\ \A q, c : /\ SentToNodes(q, c)' <=> SentToNodes(q, c)
                     /\ HasNodeBuf(q, c)' <=> HasNodeBuf(q, c)
                     /\ SentLocally(q, c)' <=> SentLocally(q, c)
                     /\ HasPut(q, c)' <=> HasPut(q, c)
    BY DEF SentToNodes, HasNodeBuf, SentLocally, HasPut
  <2>2. /\ \A q, c, n : PackedFor(q, c, n)' = PackedFor(q, c, n)
        /\ \A q, c, l : PackedLocally(q, c, l)' = PackedLocally(q, c, l)
        /\ \A q, c : LocalShare(q, c)' = LocalShare(q, c)
        /\ CallTag' = CallTag
    BY LoadKept DEF PackedLocally, LocalShare, CallTag
  <2>3. PhaseOne'
    BY <2>1, <2>2
    DEF IInv, PhaseOne, NodeMessage, IsNodeMessage, HeldWasSent, WasSentTo, SentIsHeld, Holds,
        HoldsAll
  <2>4. PhaseTwo'
    BY <2>1, <2>2
    DEF IInv, PhaseTwo, LocalMessage, IsLocalMessage, GotWasSent, HandedBy, SentIsGot, GotAll
  <2>5. OneSided'
    BY <2>1, PutsKept
    DEF IInv, OneSided, PutMessage, IsPut, WinWasPut, Landed, PutIsInWin, GotPuts
  <2>. QED  BY <1>1, <2>3, <2>4, <2>5 DEF IInv
<1>3. ASSUME NEW p \in Proc, Step(p) \/ PutLands(p)
      PROVE  IInv'
  <2>1. Moves(p)
    BY <1>3, StepMoves, TypedParts DEF IInv, Ranks
  <2>2. PhaseOne'
    BY <1>3, <2>1, PhaseOneStep DEF IInv
  <2>3. PhaseTwo'
    BY <1>3, <2>1, PhaseTwoStep DEF IInv, PhaseOne
  <2>4. OneSided'
    BY <1>3, <2>1, OneSidedStep DEF IInv
  <2>. QED  BY <1>1, <2>2, <2>3, <2>4 DEF IInv
<1>. QED  BY <1>2, <1>3 DEF Next, Finished

LEMMA Invariance ==
  ASSUME EnoughTags
  PROVE  Spec => []IInv
<1>1. Init => IInv
  BY RanksInit, MessagesInit DEF IInv
<1>2. IInv /\ [Next]_vars => IInv'
  BY InvariantStep
<1>. QED  BY <1>1, <1>2, PTL DEF Spec
-----------------------------------------------------------------------------
(* Neither wildcard loop takes a message of another call for its own,       *)
(* however far apart the ranks are, if there are enough tags.               *)
THEOREM CallsKeptApart ==
  ASSUME EnoughTags
  PROVE  Spec => []TagsSeparateCalls
<1>1. IInv => TagsSeparateCalls
  BY OwnNodeMessage, OwnLocalMessage DEF TagsSeparateCalls, IInv, PhaseOne
<1>. QED  BY <1>1, Invariance, PTL

(* What a rank holds between the phases goes to a local rank: the index     *)
(* destination - rank_node * PPN is in bounds.                              *)
THEOREM HeldForThisNode ==
  ASSUME EnoughTags
  PROVE  Spec => []HeldIsForThisNode
<1>1. IInv => HeldIsForThisNode
  <2> SUFFICES ASSUME IInv, NEW p \in Proc, NEW c \in Calls, NEW i \in nodeBuf[p][c]
               PROVE  i.dst - NodeOf(p) * PPN \in 0 .. PPN - 1
    BY DEF HeldIsForThisNode
  <2>1. i.dst \in Proc /\ NodeOf(i.dst) = NodeOf(p)
    BY HeldItem DEF IInv, PhaseOne
  <2>2. /\ i.dst = NodeOf(p) * PPN + LocalRank(i.dst) /\ LocalRank(i.dst) \in 0 .. PPN - 1
        /\ NodeOf(p) \in Nat /\ PPN \in Nat
    BY <2>1, RankNumber, ConstAssumption
  <2>3. PICK x \in Nat : x = NodeOf(p) * PPN
    BY <2>2, SMT
  <2>. QED  BY <2>2, <2>3
<1>. QED  BY <1>1, Invariance, PTL

(* A rank that has left the first phase has everything there is for its     *)
(* node, and no message of that phase, or an earlier one, is left over.     *)
THEOREM PhaseOneComplete ==
  ASSUME EnoughTags
  PROVE  Spec => []FirstPhaseComplete
<1>1. IInv => FirstPhaseComplete
  <2> SUFFICES ASSUME IInv, NEW p \in Proc, pc[p] \in {"localAllreduce", "localProbe"}
               PROVE  /\ \A m \in flight : m.comm = "group" /\ m.dst = p => m.call > call[p]
                      /\ { [dst |-> i.dst, data |-> i.data] : i \in nodeBuf[p][call[p]] }
                           = NodeShare(p, call[p])
    BY DEF FirstPhaseComplete
  <2>1. PICK c \in Calls : c = call[p] /\ c \in Nat
    BY DEF IInv, Ranks, Typed, InCall, Calls
  <2>2. HasNodeBuf(p, c) /\ load \in Loads
    BY <2>1 DEF HasNodeBuf, At, LocalPlaces, IInv, Ranks, Typed, Control, PlaceFitsMethod
  <2>3. ASSUME NEW m \in flight, m.comm = "group", m.dst = p
        PROVE  m.call > c
    <3>1. m.call \in Calls /\ m.call \in Nat /\ TwoPhase(m.call)
      <4>1. m \in MessageSet /\ IsNodeMessage(m)
        BY <2>3 DEF IInv, Ranks, Typed, PhaseOne, NodeMessage
      <4>2. m.call \in Calls
        BY <4>1, MessageType
      <4>3. TwoPhase(m.call)
        BY <4>1 DEF IsNodeMessage, SentToNodes
      <4>. QED  BY <4>2, <4>3 DEF Calls
    <3>2. ~ HasNodeBuf(p, m.call)
      BY <2>3, NothingBehind DEF IInv
    <3>3. m.call # c /\ ~ (m.call < c)
      BY <2>1, <2>2, <3>1, <3>2 DEF HasNodeBuf, Past, Returned
    <3>. QED  BY <2>1, <3>1, <3>3
  <2>4. ASSUME NEW i \in nodeBuf[p][c]
        PROVE  [dst |-> i.dst, data |-> i.data] \in NodeShare(p, c)
    BY HeldItem DEF IInv, PhaseOne, NodeShare
  <2>5. ASSUME NEW e \in NodeShare(p, c)
        PROVE  \E i \in nodeBuf[p][c] : e = [dst |-> i.dst, data |-> i.data]
    <3>1. PICK q \in Group(p) : q \in Proc /\ e \in PackedFor(q, c, NodeOf(p))
      BY <2>2, NodeShareItem
    <3>2. e = [dst |-> e.dst, data |-> e.data]
      BY <2>2, <3>1, PackedItem
    <3>3. [origin |-> q, dst |-> e.dst, data |-> e.data] \in nodeBuf[p][c]
      BY <2>2, <3>1 DEF IInv, PhaseOne, HoldsAll, Holds
    <3>. QED  BY <3>2, <3>3
  <2>. QED  BY <2>1, <2>3, <2>4, <2>5
<1>. QED  BY <1>1, Invariance, PTL

(* What a two-phase call returns. *)
LEMMA Outcome ==
  ASSUME IInv, NEW p \in Proc, NEW c \in Calls, TwoPhase(c), Past(p, c)
  PROVE  got[p][c] = { Slot(q, c, p) : q \in { r \in Proc : p \in DOMAIN load[r][c] } }
<1>1. Ranks /\ HeldWasSent /\ SentLocally(p, c) /\ LocalShare(p, c) \subseteq got[p][c]
  BY DEF IInv, PhaseOne, PhaseTwo, GotAll, SentLocally
<1>2. got[p][c] \subseteq LocalShare(p, c)
  BY DEF IInv, PhaseTwo, GotWasSent, HandedBy, LocalShare
<1>3. ASSUME NEW i \in LocalShare(p, c)
      PROVE  \E q \in { r \in Proc : p \in DOMAIN load[r][c] } : i = Slot(q, c, p)
  BY <1>1, LocalShareItem
<1>4. ASSUME NEW q \in Proc, p \in DOMAIN load[q][c]
      PROVE  Slot(q, c, p) \in LocalShare(p, c)
  <2>1. PICK r \in Proc : r \in Local(p) /\ q \in Group(r)
    BY Companion
  <2>2. HasNodeBuf(r, c)
    BY <1>1, <2>1, LocalReady
  <2>3. NodeOf(r) = NodeOf(p)
    BY <2>1 DEF Local
  <2> DEFINE e == [dst |-> p, data |-> Data(q, c, p)]
  <2>4. e \in PackedFor(q, c, NodeOf(r))
    BY <1>4, <2>3, ItemPacked
  <2>5. [origin |-> q, dst |-> e.dst, data |-> e.data] \in nodeBuf[r][c]
    <3> HIDE DEF e
    <3>. QED  BY <2>1, <2>2, <2>4 DEF IInv, PhaseOne, HoldsAll, Holds
  <2>6. p = NodeOf(r) * PPN + LocalRank(p)
    BY <2>3, RankNumber
  <2> DEFINE j == [origin |-> q, dst |-> p, data |-> Data(q, c, p)]
  <2>7. j \in nodeBuf[r][c] /\ j.origin = q /\ j.dst = p /\ j.data = Data(q, c, p)
    BY <2>5
  <2>8. Slot(q, c, p) \in PackedLocally(r, c, LocalRank(p))
    <3> HIDE DEF j
    <3>. QED  BY <2>6, <2>7 DEF PackedLocally, Slot
  <2>. QED  BY <2>1, <2>8 DEF LocalShare
<1>. QED  BY <1>1, <1>2, <1>3, <1>4

(* The two-phase methods report every source and no other; the one-sided one *)
(* every source of something else than zeros and no other.                   *)
THEOREM SourcesReported ==
  ASSUME EnoughTags
  PROVE  Spec => []EverySourceReported
<1>1. IInv => EverySourceReported
  <2> SUFFICES ASSUME IInv, NEW p \in Proc, NEW c \in Calls, c <= Returned(p)
               PROVE  { i.origin : i \in got[p][c] } =
                        { q \in Proc : p \in DOMAIN load[q][c]
                                       /\ (method[c] = "rma" => load[q][c][p] > 0) }
    BY DEF EverySourceReported
  <2>1. \A q : Slot(q, c, p).origin = q
    BY DEF Slot
  <2>2. CASE method[c] # "rma"
    <3>1. got[p][c] = { Slot(q, c, p) : q \in { r \in Proc : p \in DOMAIN load[r][c] } }
      BY <2>2, Outcome DEF TwoPhase, Past
    <3>. QED  BY <2>1, <2>2, <3>1
  <2>3. CASE method[c] = "rma"
    <3>1. got[p][c] = { Slot(q, c, p) : q \in Puts(c, p) }
      BY <2>3 DEF IInv, OneSided, GotPuts, TwoPhase, Past
    <3>2. Puts(c, p) = { q \in Proc : p \in DOMAIN load[q][c] /\ load[q][c][p] > 0 }
      BY DEF Puts
    <3>. QED  BY <2>1, <2>3, <3>1, <3>2
  <2>. QED  BY <2>2, <2>3
<1>. QED  BY <1>1, Invariance, PTL
-----------------------------------------------------------------------------
(* Messages that were not waited for.                                       *)
LEMMA NewMessage ==
  ASSUME Ranks, NEW p \in Proc, Step(p) \/ PutLands(p), Moves(p), NEW m \in flight', m \notin flight
  PROVE  ~ Past(m.src, m.call)' /\ (m.comm = "group" => ~ HasNodeBuf(m.src, m.call)')
<1>1. Scalars /\ load \in Loads /\ nodeBuf \in [Proc -> [Calls -> SUBSET HeldSet]]
  BY TypedParts DEF Ranks, Scalars, Buffers
<1>2. call[p] \in Nat
  BY <1>1, MethodKept
<1>3. CASE AlltoallNonblockingLoc(p) \/ AlltoallvNonblockingLoc(p)
  <2>1. pc'[p] = "groupLoop" /\ call'[p] \in Calls /\ call'[p] \in Nat
    BY <1>1, <1>3, EnterType DEF AlltoallNonblockingLoc, AlltoallvNonblockingLoc, Calls
  <2>2. m \in NodeMessages(p, call'[p], commTag[p])
    BY <1>3, Effects
  <2>3. m.src = p /\ m.call = call'[p]
    BY <1>1, <2>1, <2>2, NodeMessagesType DEF Scalars
  <2>. QED  BY <2>1, <2>3 DEF HasNodeBuf, Past, At, Returned, LocalPlaces
<1>4. CASE GroupAllreduce(p)
  <2>1. pc'[p] = "groupProbe" /\ call'[p] = call[p] /\ call[p] \in Calls
    BY <1>1, <1>4 DEF GroupAllreduce, Scalars, InCall
  <2>2. m \in NodeMessages(p, call[p], tag[p])
    BY <1>4, Effects
  <2>3. m.src = p /\ m.call = call[p]
    BY <1>1, <2>1, <2>2, NodeMessagesType DEF Scalars
  <2>. QED  BY <1>2, <2>1, <2>3 DEF HasNodeBuf, Past, At, Returned, LocalPlaces
<1>5. CASE LocalAllreduce(p) \/ LocalAllreducev(p)
  <2>1. pc'[p] = "localProbe" /\ call'[p] = call[p] /\ call[p] \in Calls
    BY <1>1, <1>5 DEF LocalAllreduce, LocalAllreducev, Scalars, InCall
  <2>2. PICK t \in 0 .. MaxTag - 1 : m \in LocalMessages(p, call[p], t)
    BY <1>5, Effects
  <2>3. m.src = p /\ m.call = call[p] /\ m.comm = "local"
    BY <1>1, <2>1, <2>2, LocalMessagesType
  <2>. QED  BY <1>2, <2>1, <2>3 DEF Past, Returned
<1>6. CASE RmaPut(p)
  <2>1. pc'[p] = "rmaPut" /\ call'[p] = call[p] /\ call[p] \in Calls
    BY <1>1, <1>6 DEF RmaPut, Scalars, InCall
  <2>2. m \in PutMessages(p)
    BY <1>6, Effects
  <2>3. m.src = p /\ m.call = call[p] /\ m.comm = "win"
    BY <1>1, <2>1, <2>2, PutMessagesType
  <2>. QED  BY <1>2, <2>1, <2>3 DEF Past, Returned
<1>7. CASE ~ (AlltoallNonblockingLoc(p) \/ AlltoallvNonblockingLoc(p) \/ GroupAllreduce(p)
              \/ LocalAllreduce(p) \/ LocalAllreducev(p) \/ RmaPut(p))
  <2>1. flight' = flight \/ \E n : flight' = flight \ {n}
    BY <1>7, Effects DEF Step
  <2>. QED  BY <2>1
<1>. QED  BY <1>3, <1>4, <1>5, <1>6, <1>7

(* The first phase ends for a rank whose message is still on its way only   *)
(* if that message is buffered, or never waited for.                        *)
LEMMA LeftBehind ==
  ASSUME Ranks, PhaseOne, NEW p \in Proc, PhaseOneOver(p),
         NEW m \in flight, m.comm = "group", m.src = p, m.call = call[p]
  PROVE  MayOutlive(m)
<1>1. CASE pc[p] = "groupLoop" /\ AllEntered(p, Group(p), "group")
  <2>1. entered[p]["group"] >= call[p]
    BY <1>1, CommRanks DEF AllEntered
  <2>2. entered[p]["group"] < call[p]
    <3>1. method[call[p]] \in Nonblocking
      BY <1>1 DEF Ranks, Control, PlaceFitsMethod
    <3>. QED  BY <3>1 DEF PhaseOne, NodeMessage, IsNodeMessage
  <2>3. entered[p]["group"] \in Nat /\ call[p] \in Nat
    BY ConstAssumption DEF Ranks, Typed, TypeOK, Collectives
  <2>. QED  BY <2>1, <2>2, <2>3
<1>2. CASE pc[p] = "groupProbe" /\ method[call[p]] \in Fixed
  <2>1. method[call[p]] \in Personalized
    BY <1>2 DEF Ranks, Control, PlaceFitsMethod
  <2>2. method[call[p]] = "alltoall_personalized_loc"
    BY <1>2, <2>1 DEF Personalized, Fixed
  <2>. QED  BY <2>2 DEF MayOutlive, NeverAwaited
<1>3. CASE Completed(p, "group")
  BY <1>3 DEF Completed, Unmatched, MayOutlive
<1>. QED  BY <1>1, <1>2, <1>3 DEF PhaseOneOver

LEMMA LateMayOutliveStep ==
  ASSUME IInv, LateMayOutlive, NEW p \in Proc, Step(p) \/ PutLands(p)
  PROVE  LateMayOutlive'
<1>1. Ranks /\ Scalars /\ Control /\ Moves(p)
  BY StepMoves, TypedParts DEF IInv, Ranks
<1>2. method' = method
  BY <1>1, MethodKept
<1>3. SUFFICES ASSUME NEW m \in flight',
                      (HasNodeBuf(m.src, m.call)' /\ m.comm = "group") \/ Past(m.src, m.call)'
               PROVE  MayOutlive(m)
  BY <1>2 DEF LateMayOutlive, MayOutlive, NeverAwaited
<1>4. m \in flight
  BY <1>1, <1>3, NewMessage
<1>5. m.src \in Proc /\ m.dst \in Proc /\ m.call \in Calls /\ m.comm \in {"group", "local", "win"}
  BY <1>1, <1>4, MessageType DEF Ranks, Typed
<1>6. CASE (HasNodeBuf(m.src, m.call) /\ m.comm = "group") \/ Past(m.src, m.call)
  BY <1>4, <1>6 DEF LateMayOutlive
<1>7. CASE m.comm = "group" /\ m.src = p /\ m.call = call[p] /\ pc[p] \in {"groupProbe", "groupLoop"}
             /\ pc'[p] = "localAllreduce"
  <2>1. LocalRedistribute(p) \/ LocalRedistributev(p)
    BY <1>1, <1>7 DEF Moves, Move, Stays
  <2>2. PhaseOneOver(p)
    BY <2>1 DEF LocalRedistribute, LocalRedistributev
  <2>. QED  BY <1>1, <1>4, <1>7, <2>2, LeftBehind DEF IInv
<1>8. CASE m.src = p /\ m.call = call[p] /\ pc[p] = "localProbe" /\ pc'[p] = "idle"
  <2>1. TwoPhase(m.call) /\ HasNodeBuf(m.src, m.call)
    BY <1>1, <1>5, <1>8 DEF Control, PlaceFitsMethod, LocalPlaces, HasNodeBuf, At
  <2>2. CASE m.comm = "group"
    BY <1>4, <2>1, <2>2 DEF LateMayOutlive
  <2>3. CASE m.comm = "local"
    <3>1. Return(p)
      BY <1>1, <1>8 DEF Moves, Move, Stays
    <3>2. Completed(p, "local")
      BY <3>1 DEF Return
    <3>. QED  BY <1>4, <1>8, <2>3, <3>2 DEF Completed, Unmatched, MayOutlive
  <2>4. CASE m.comm = "win"
    BY <1>4, <1>8, <2>4 DEF IInv, OneSided, PutMessage, IsPut, At
  <2>. QED  BY <1>5, <2>2, <2>3, <2>4
<1>9. CASE m.src = p /\ m.call = call[p] /\ pc[p] = "rmaPut" /\ pc'[p] = "idle"
  <2>1. ~ TwoPhase(m.call)
    BY <1>1, <1>5, <1>9 DEF Control, PlaceFitsMethod, RmaPlaces
  <2>2. m.comm = "win"
    BY <1>4, <1>5, <2>1
    DEF IInv, PhaseOne, NodeMessage, IsNodeMessage, SentToNodes, PhaseTwo, LocalMessage,
        IsLocalMessage, SentLocally
  <2>3. RmaScan(p)
    BY <1>1, <1>9 DEF Moves, Move, Stays
  <2>. QED  BY <1>4, <1>9, <2>2, <2>3 DEF RmaScan, Fence
<1>. QED  BY <1>1, <1>3, <1>5, <1>6, <1>7, <1>8, <1>9, DoneBy, PastGrows

(* Whatever the MPI library buffers, a message still to be received when its *)
(* sender has returned is buffered or of the first phase of                  *)
(* alltoall_crs_personalized_loc.                                            *)
THEOREM WaitsCoverSends ==
  ASSUME EnoughTags
  PROVE  Spec => []OnlyUnawaitedOutlive
<1>1. Init => LateMayOutlive
  BY DEF Init, LateMayOutlive
<1>2. IInv /\ LateMayOutlive /\ [Next]_vars => LateMayOutlive'
  <2>1. ASSUME IInv, LateMayOutlive, UNCHANGED vars
        PROVE  LateMayOutlive'
    BY <2>1 DEF vars, LateMayOutlive, MayOutlive, NeverAwaited,
                HasNodeBuf, Past, At, TwoPhase, Returned
  <2>. QED  BY <2>1, LateMayOutliveStep DEF Next, Finished
<1>3. IInv /\ LateMayOutlive => OnlyUnawaitedOutlive
  <2> SUFFICES ASSUME IInv, LateMayOutlive, NEW m \in flight, m.call <= Returned(m.src)
               PROVE  MayOutlive(m)
    BY DEF OnlyUnawaitedOutlive, MayOutlive
  <2>1. m.call \in Calls
    BY MessageType DEF IInv, Ranks, Typed
  <2>. QED  BY <2>1 DEF LateMayOutlive, Past
<1>. QED  BY <1>1, <1>2, <1>3, Invariance, PTL DEF Spec
-----------------------------------------------------------------------------
(* The methods implement the promise of the sparse exchange. *)
Sent(p, c) == { Data(q, c, p) : q \in { r \in Proc : p \in DOMAIN load[r][c] } }

(* What a call has returned: what was sent, and all of it that has data. *)
Sound ==
  \A p \in Proc, c \in Calls : Past(p, c) =>
    Reported(p, c) \subseteq Sent(p, c) /\ \A e \in Sent(p, c) : e.count > 0 => e \in Reported(p, c)

LEMMA SoundResults == IInv => Sound
<1> SUFFICES ASSUME IInv, NEW p \in Proc, NEW c \in Calls, Past(p, c)
             PROVE  /\ Reported(p, c) \subseteq Sent(p, c)
                    /\ \A e \in Sent(p, c) : e.count > 0 => e \in Reported(p, c)
  BY DEF Sound
<1>1. \A q : Slot(q, c, p).origin = q /\ Slot(q, c, p).data = Data(q, c, p)
               /\ Data(q, c, p).src = q /\ Data(q, c, p).count = load[q][c][p]
  BY DEF Slot, Data
<1>2. ASSUME NEW D \in SUBSET Proc, got[p][c] = { Slot(q, c, p) : q \in D }
      PROVE  Reported(p, c) = { Data(q, c, p) : q \in D }
  BY <1>1, <1>2 DEF Reported
<1>3. CASE TwoPhase(c)
  <2>1. got[p][c] = { Slot(q, c, p) : q \in { r \in Proc : p \in DOMAIN load[r][c] } }
    BY <1>3, Outcome
  <2>2. Reported(p, c) = Sent(p, c)
    BY <1>2, <2>1 DEF Sent
  <2>. QED  BY <2>2
<1>4. CASE ~ TwoPhase(c)
  <2>1. got[p][c] = { Slot(q, c, p) : q \in Puts(c, p) } /\ Puts(c, p) \in SUBSET Proc
    BY <1>4 DEF IInv, OneSided, GotPuts, Puts
  <2>2. Reported(p, c) = { Data(q, c, p) : q \in Puts(c, p) }
    BY <1>2, <2>1
  <2>. QED  BY <1>1, <2>2 DEF Sent, Puts
<1>. QED  BY <1>3, <1>4

(* What the promise sees of the state: the calls a rank has begun and       *)
(* returned from, what it passed to them and what they gave it.             *)
Passed(p) == [c \in Calls |-> IF c <= call[p] THEN load[p][c] ELSE << >>]
Given(p) == [c \in Calls |-> IF c <= Returned(p) THEN Reported(p, c) ELSE {}]

LEMMA PromiseInit == Init => Promise!Init
<1> SUFFICES ASSUME Init PROVE Promise!Init
  OBVIOUS
<1>1. \A p \in Proc : call[p] = 0 /\ Returned(p) = 0
  BY DEF Init, Returned
<1>2. Calls = Promise!Calls /\ \A c \in Calls : ~ (c <= 0)
  BY ConstAssumption DEF Calls, Promise!Calls
<1>. QED  BY <1>1, <1>2 DEF Init, Promise!Init

(* A result does not change after the call has returned. *)
LEMMA ResultStays ==
  ASSUME IInv, NEW p \in Proc, Step(p) \/ PutLands(p), NEW q \in Proc, NEW c \in Calls,
         c <= Returned(q)
  PROVE  Reported(q, c)' = Reported(q, c)
<1>1. got'[q][c] = got[q][c]
  <2>1. CASE ~ (LocalProbe(p) \/ RmaScan(p))
    <3>1. got' = got
      BY <2>1, Effects DEF Step, IInv
    <3>. QED  BY <3>1
  <2>2. CASE LocalProbe(p) \/ RmaScan(p)
    <3>1. pc[p] # "idle" /\ \E X : got' = [got EXCEPT ![p][call[p]] = X]
      BY <2>2, Effects DEF LocalProbe, RmaScan, IInv
    <3>2. call[p] \in Nat /\ c \in Nat
      BY ConstAssumption DEF IInv, Ranks, Typed, TypeOK, Calls
    <3>3. ~ (q = p /\ c = call[p])
      BY <3>1, <3>2 DEF Returned
    <3>. QED  BY <3>1, <3>3 DEF IInv, Ranks, Typed
  <2>. QED  BY <2>1, <2>2
<1>. QED  BY <1>1 DEF Reported, Misattributed

LEMMA PromiseCall ==
  ASSUME IInv, NEW p \in Proc, Step(p), pc[p] = "idle", pc'[p] # "idle", call'[p] = call[p] + 1,
         call' = [call EXCEPT ![p] = call[p] + 1], call[p] < MaxCalls,
         \A q \in Proc : q # p => pc'[q] = pc[q], load' = load,
         NEW s, s = load[p][call[p] + 1]
  PROVE  Promise!Call(p, s)
<1>1. call[p] \in Nat /\ MaxCalls \in Nat /\ call[p] + 1 \in Calls
  BY ConstAssumption DEF IInv, Ranks, Typed, TypeOK, Calls
<1>2. \A q \in Proc : Returned(q)' = Returned(q)
  BY <1>1 DEF Returned, IInv, Ranks, Typed, TypeOK
<1>3. Returned(p) = call[p]
  BY DEF Returned
<1>4. \A q \in Proc : Given(q)' = Given(q)
  BY <1>2, ResultStays DEF Given
<1>5. \A q \in Proc : q # p => Passed(q)' = Passed(q)
  BY DEF Passed, IInv, Ranks, Typed, TypeOK
<1>6. Passed(p)' = [Passed(p) EXCEPT ![call[p] + 1] = load[p][call[p] + 1]]
  <2>0. PICK n \in Nat : n = call[p]
    BY <1>1
  <2>1. Passed(p)' = [c \in Calls |-> IF c <= n + 1 THEN load[p][c] ELSE << >>]
    BY <1>1, <2>0 DEF Passed
  <2>2. Passed(p) = [c \in Calls |-> IF c <= n THEN load[p][c] ELSE << >>]
    BY <2>0 DEF Passed
  <2>3. \A c \in Calls : c # n + 1 => (c <= n + 1 <=> c <= n)
    BY <1>1 DEF Calls
  <2>4. n + 1 \in Calls /\ n + 1 <= n + 1
    BY <1>1, <2>0
  <2>5. \A c \in Calls : (IF c <= n + 1 THEN load[p][c] ELSE << >>)
          = [Passed(p) EXCEPT ![n + 1] = load[p][n + 1]][c]
    BY <2>2, <2>3, <2>4
  <2>. QED  BY <2>0, <2>1, <2>2, <2>5
<1>7. [q \in Proc |-> Passed(q)'] =
        [[q \in Proc |-> Passed(q)] EXCEPT ![p][call[p] + 1] = load[p][call[p] + 1]]
  BY <1>5, <1>6
<1>8. [q \in Proc |-> Returned(q)'] = [q \in Proc |-> Returned(q)]
  BY <1>2
<1>9. [q \in Proc |-> Given(q)'] = [q \in Proc |-> Given(q)]
  BY <1>4
<1>10. [q \in Proc |-> Returned(q)][p] = call[p]
  BY <1>3
<1>. QED  BY <1>7, <1>8, <1>9, <1>10 DEF Promise!Call, Passed, Given

(* A call returns when every rank has made its contribution. *)
LEMMA Contributed ==
  ASSUME IInv, NEW p \in Proc, Return(p) \/ RmaScan(p), NEW q \in Proc
  PROVE  call[q] >= call[p]
<1>0. PICK c \in Calls : c = call[p] /\ c \in Nat
  <2>1. pc[p] # "idle"
    BY DEF Return, RmaScan
  <2>2. call[p] \in Calls
    BY <2>1 DEF IInv, Ranks, Typed, InCall
  <2>3. \A k \in Calls : k \in Nat /\ k > 0
    BY ConstAssumption DEF Calls
  <2>. QED  BY <2>2, <2>3
<1>1. /\ call[q] \in Nat /\ \A s \in Collectives : entered[q][s] \in Nat /\ entered[q][s] <= call[q]
      /\ "group" \in Collectives /\ "put" \in Collectives
  BY ConstAssumption DEF IInv, Ranks, Typed, TypeOK, Control, EnteredNow, Collectives
<1>2. CASE Return(p)
  <2>1. SentLocally(p, c)
    BY <1>0, <1>2 DEF Return, SentLocally, At, IInv, Ranks, Control, PlaceFitsMethod, LocalPlaces
  <2>2. PICK r \in Proc : r \in Local(p) /\ q \in Group(r)
    BY Companion
  <2>3. HasNodeBuf(r, c)
    BY <2>1, <2>2, LocalReady DEF IInv
  <2>4. entered[q]["group"] >= c
    BY <2>2, <2>3 DEF IInv, Ranks, Skew
  <2>. QED  BY <1>0, <1>1, <2>4
<1>3. CASE RmaScan(p)
  <2>1. entered[q]["put"] >= c
    BY <1>0, <1>3 DEF RmaScan, Fence, AllEntered
  <2>. QED  BY <1>0, <1>1, <2>1
<1>. QED  BY <1>2, <1>3

LEMMA PromiseReturn ==
  ASSUME IInv, Sound', NEW p \in Proc, Step(p), Return(p) \/ RmaScan(p)
  PROVE  Promise!Return(p)
<1>0. PICK c \in Calls : c = call[p] /\ c \in Nat /\ c > 0
  <2>1. pc[p] # "idle"
    BY DEF Return, RmaScan
  <2>2. call[p] \in Calls
    BY <2>1 DEF IInv, Ranks, Typed, InCall
  <2>3. \A k \in Calls : k \in Nat /\ k > 0
    BY ConstAssumption DEF Calls
  <2>. QED  BY <2>2, <2>3
<1>1. /\ pc' = [pc EXCEPT ![p] = "idle"] /\ pc[p] # "idle"
      /\ UNCHANGED <<call, load, method>>
  BY DEF Return, RmaScan
<1>2. /\ Returned(p) = c - 1 /\ Returned(p)' = c
      /\ \A q \in Proc : q # p => Returned(q)' = Returned(q)
  BY <1>0, <1>1 DEF Returned, IInv, Ranks, Typed, TypeOK
<1>3. \A q \in Proc : call[q] >= c
  BY <1>0, Contributed
<1>4. PICK R : R = Reported(p, c)'
  OBVIOUS
<1>5. R \subseteq Sent(p, c) /\ \A e \in Sent(p, c) : e.count > 0 => e \in R
  <2>1. Sent(p, c)' = Sent(p, c)
    BY <1>1 DEF Sent, Data
  <2>2. Past(p, c)'
    BY <1>0, <1>2 DEF Past
  <2>. QED  BY <1>4, <2>1, <2>2 DEF Sound
<1>6. Sent(p, c) = Promise!Addressed(p, c)
  <2>1. \A q \in Proc : [r \in Proc |-> Passed(r)][q][c] = load[q][c]
    BY <1>3 DEF Passed
  <2>. QED  BY <2>1 DEF Sent, Data, Promise!Addressed, Passed
<1>7. [q \in Proc |-> Returned(q)'] = [[q \in Proc |-> Returned(q)] EXCEPT ![p] = c]
  BY <1>2
<1>8. [q \in Proc |-> Given(q)'] = [[q \in Proc |-> Given(q)] EXCEPT ![p][c] = R]
  <2>1. \A k \in Calls : k \in Nat
    BY ConstAssumption DEF Calls
  <2>2. \A k \in Calls : k # c => (k <= c <=> k <= c - 1)
    BY <1>0, <2>1
  <2>3. \A q \in Proc, k \in Calls : k <= Returned(q) => Reported(q, k)' = Reported(q, k)
    BY ResultStays
  <2>4. \A q \in Proc : q # p => Given(q)' = Given(q)
    BY <1>2, <2>3 DEF Given
  <2>5. Given(p)' = [Given(p) EXCEPT ![c] = R]
    <3>1. Given(p)' = [k \in Calls |-> IF k <= c THEN Reported(p, k)' ELSE {}]
      BY <1>2 DEF Given
    <3>2. Given(p) = [k \in Calls |-> IF k <= c - 1 THEN Reported(p, k) ELSE {}]
      BY <1>2 DEF Given
    <3>3. c <= c
      BY <1>0
    <3>4. \A k \in Calls : k # c /\ k <= c => Reported(p, k)' = Reported(p, k)
      BY <1>2, <2>2, <2>3
    <3>5. \A k \in Calls :
            (IF k <= c THEN Reported(p, k)' ELSE {}) = [Given(p) EXCEPT ![c] = R][k]
      <4>2. ASSUME NEW k \in Calls, k # c
            PROVE  (IF k <= c THEN Reported(p, k)' ELSE {}) = [Given(p) EXCEPT ![c] = R][k]
        BY <2>2, <3>2, <3>4, <4>2
      <4>3. (IF c <= c THEN Reported(p, c)' ELSE {}) = [Given(p) EXCEPT ![c] = R][c]
        BY <1>4, <3>2, <3>3
      <4>. QED  BY <4>2, <4>3
    <3>. QED  BY <3>1, <3>2, <3>5
  <2>. QED  BY <2>4, <2>5
<1>9. Promise!Carrying(Promise!Addressed(p, c)) \subseteq R
  BY <1>5, <1>6 DEF Promise!Carrying
<1>10. R \in SUBSET Promise!Addressed(p, c)
  BY <1>5, <1>6
<1>11. [q \in Proc |-> Returned(q)][p] = c - 1 /\ c - 1 < c
  BY <1>0, <1>2
<1>12. [q \in Proc |-> Passed(q)'] = [q \in Proc |-> Passed(q)]
  BY <1>1 DEF Passed
<1>. QED
  BY <1>0, <1>1, <1>3, <1>7, <1>8, <1>9, <1>10, <1>11, <1>12
  DEF Promise!Return, Given, Passed

LEMMA PromiseStutter ==
  ASSUME IInv, NEW p \in Proc, Step(p) \/ PutLands(p), UNCHANGED <<call, load>>,
         \A q \in Proc : pc'[q] = "idle" <=> pc[q] = "idle"
  PROVE  UNCHANGED Promise!vars
<1>1. \A q \in Proc : Returned(q)' = Returned(q)
  BY DEF Returned
<1>2. \A q \in Proc, c \in Calls : c <= Returned(q) => Reported(q, c)' = Reported(q, c)
  BY ResultStays
<1>. QED  BY <1>1, <1>2 DEF Promise!vars

(* The methods implement the promise of the sparse exchange. *)
THEOREM Refinement ==
  ASSUME EnoughTags
  PROVE  Spec => KeepsPromise
<1>1. IInv /\ Sound' /\ [Next]_vars => [Promise!Next]_(Promise!vars)
  <2> SUFFICES ASSUME IInv, Sound', [Next]_vars PROVE [Promise!Next]_(Promise!vars)
    OBVIOUS
  <2>1. ASSUME UNCHANGED vars PROVE UNCHANGED Promise!vars
    BY <2>1 DEF vars, Promise!vars, Returned, Reported, Misattributed
  <2>2. ASSUME NEW p \in Proc, Step(p) \/ PutLands(p)
        PROVE  [Promise!Next]_(Promise!vars)
    <3>1. Scalars /\ Moves(p)
      BY <2>2, StepMoves, TypedParts DEF IInv, Ranks
    <3>2. CASE pc[p] = "idle" /\ pc'[p] # "idle" /\ call'[p] = call[p] + 1
      <4>1. /\ Step(p) /\ load' = load /\ \A q \in Proc : q # p => pc'[q] = pc[q]
            /\ call' = [call EXCEPT ![p] = call[p] + 1] /\ call[p] < MaxCalls
        BY <2>2, <3>1, <3>2, ConstAssumption DEF Moves, Move, Stays, Step, Scalars, PutLands
      <4>2. load[p][call[p] + 1] \in { l[q][c] : l \in Loads, q \in Proc, c \in Calls }
        <5>1. call[p] + 1 \in Calls /\ load \in Loads
          BY <3>1, <4>1, ConstAssumption DEF Scalars, Calls
        <5>. QED  BY <5>1
      <4>3. PICK s : s = load[p][call[p] + 1]
        OBVIOUS
      <4>4. Promise!Call(p, s)
        BY <3>2, <4>1, <4>3, PromiseCall
      <4>. QED  BY <4>2, <4>3, <4>4 DEF Promise!Next
    <3>3. CASE pc[p] # "idle" /\ pc'[p] = "idle"
      <4>1. Return(p) \/ RmaScan(p)
        BY <3>1, <3>3 DEF Moves, Move, Stays
      <4>2. Step(p)
        BY <4>1 DEF Step
      <4>. QED  BY <4>1, <4>2, PromiseReturn DEF Promise!Next
    <3>4. CASE UNCHANGED <<call, load>> /\ \A q \in Proc : pc'[q] = "idle" <=> pc[q] = "idle"
      BY <2>2, <3>4, PromiseStutter
    <3>. QED  BY <3>1, <3>2, <3>3, <3>4 DEF Moves, Move, Stays, Scalars
  <2>. QED  BY <2>1, <2>2 DEF Next, Finished
<1>2. Spec => []IInv /\ []Sound
  BY Invariance, SoundResults, PTL
<1>. QED  BY <1>1, <1>2, PromiseInit, PTL DEF Spec, KeepsPromise, Promise!Spec
=============================================================================
