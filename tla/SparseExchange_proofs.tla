------------------------ MODULE SparseExchange_proofs ------------------------
(***************************************************************************)
(* Proofs about SparseExchange, for every communicator, number of calls,    *)
(* message sizes, eager limit and sequence of methods.                      *)
(***************************************************************************)
EXTENDS SparseExchange, FiniteSetTheorems, TLAPS

(* The two facts about its environment the code relies on: the ranks agree  *)
(* on max_tag, which is at least 2 (MPI guarantees MPI_TAG_UB >= 32767) ... *)
SameTagSpace ==
  /\ \A p, q \in Proc : MaxTag[p] = MaxTag[q]
  /\ \A p \in Proc : MaxTag[p] >= 2

(* ... and a message without elements, which alltoallv_crs_personalized does *)
(* not wait for and may leave behind, cannot be taken for one of a later     *)
(* call: there is none, or no call counts elements, or no rank makes more    *)
(* calls than there are tags.                                               *)
NoEmptyMessages == \A s \in Patterns : \A d \in DOMAIN s : s[d] > 0
NoElementCounts == \A ms \in MethodSeqs, c \in Calls : ms[c] # "alltoallv_personalized"
TagsLast == \A p \in Proc : MaxCalls <= MaxTag[p]
EmptiesApart == NoEmptyMessages \/ NoElementCounts \/ TagsLast
-----------------------------------------------------------------------------
(* The inductive invariant. *)

(* Rank p has posted the messages of its call c. *)
Posted(p, c) ==
  /\ c <= call[p]
  /\ c = call[p] => pc[p] # "allreduce"

(* A rank outside "idle" is in a call. *)
InCall == \A p \in Proc : pc[p] # "idle" => call[p] \in Calls
Typed == TypeOK /\ InCall /\ method \in MethodSeqs

(* The location of a rank fits the method of its call, and sync counts its  *)
(* collectives.                                                             *)
Control ==
  \A p \in Proc :
    /\ pc[p] = "idle" => sync[p] = call[p]
    /\ pc[p] \in {"allreduce", "probe"} =>
         sync[p] = call[p] /\ method[call[p]] # "nonblocking"
    /\ pc[p] \in {"iprobe", "test"} =>
         /\ method[call[p]] = "nonblocking"
         /\ sync[p] \in {call[p] - 1, call[p]}

(* No rank is past the collective of a call that another has not entered.  *)
Skew ==
  \A p, q \in Proc :
    sync[q] >= IF pc[p] \in {"idle", "probe"} THEN call[p] ELSE call[p] - 1

(* The tag of a call follows from its number. *)
CallTag(p, c) == (125 + c) % MaxTag[p]
TagByCall ==
  \A p \in Proc :
    /\ commTag[p] = CallTag(p, call[p] + 1)
    /\ pc[p] # "idle" => tag[p] = CallTag(p, call[p])

(* The receive of a message is still awaited by the loop of its destination, *)
(* whose Allreduce counted it; or it has no element, and the loop that counts *)
(* elements has ended without it.                                            *)
Awaited(m) == m.call = call[m.dst] /\ pc[m.dst] \in {"allreduce", "probe"}
Overlooked(m) ==
  /\ method[m.call] = "alltoallv_personalized"
  /\ m.count = 0
  /\ m.call <= Returned(m.dst)

(* A message in flight was sent by its source in its call; an Issend's       *)
(* source has not entered the barrier of that call yet.                      *)
FlightInv ==
  \A m \in flight :
    /\ Posted(m.src, m.call)
    /\ m.dst \in DOMAIN sends[m.src][m.call]
    /\ m.count = sends[m.src][m.call][m.dst]
    /\ Payload(m) \notin got[m.dst][m.call]
    /\ m.tag = CallTag(m.src, m.call)
    /\ method[m.call] = "nonblocking" => m.call = call[m.src] /\ sync[m.src] < m.call
    /\ method[m.call] # "nonblocking" => Awaited(m) \/ Overlooked(m)

(* What a rank received in a call was sent to it in that call. *)
GotInv ==
  \A p \in Proc, c \in Calls : \A y \in got[p][c] :
    /\ y \in Addressed(p, c)
    /\ Posted(y.src, c)

(* A message posted is in flight until it is received. *)
NothingLost ==
  \A p, q \in Proc, c \in Calls :
    Posted(q, c) /\ p \in DOMAIN sends[q][c] =>
      LET y == [src |-> q, call |-> c, count |-> sends[q][c][p]]
      IN  y \in got[p][c] \/ \E m \in flight : m.dst = p /\ Payload(m) = y

(* What a call has to deliver: all that was sent to its rank, but for the    *)
(* messages without elements if it counts elements.                          *)
Due(p, c) ==
  { y \in Addressed(p, c) : method[c] = "alltoallv_personalized" => y.count > 0 }

(* A call that has returned delivered all it had to, and nothing that was    *)
(* not sent to its rank in that call.                                        *)
Exact ==
  \A p \in Proc, c \in Calls :
    c <= Returned(p) => Due(p, c) \subseteq got[p][c] /\ got[p][c] \subseteq Addressed(p, c)

Ranks == Typed /\ Control /\ Skew /\ TagByCall
Messages == FlightInv /\ GotInv /\ NothingLost /\ Exact
IInv == Ranks /\ Messages
-----------------------------------------------------------------------------
(* Arithmetic of the tag counter. *)
LEMMA Multiples ==
  ASSUME NEW a \in Nat, NEW b \in Nat, NEW k \in Nat
  PROVE  /\ a * k \in Nat /\ b * k \in Nat
         /\ a < b => a * k + k <= b * k
<1>1. a * k \in Nat /\ b * k \in Nat
  BY SMT
<1>2. ASSUME a < b PROVE a * k + k <= b * k
  <2>1. PICK d \in Nat : b = a + 1 + d
    BY <1>2, SMT
  <2>2. b * k = a * k + k + d * k /\ d * k \in Nat
    BY <2>1, SMT
  <2>. QED  BY <1>1, <2>2, SMT
<1>. QED  BY <1>1, <1>2

LEMMA Division ==
  ASSUME NEW a \in Nat, NEW k \in Nat \ {0}
  PROVE  \E q \in Nat : /\ q * k \in Nat /\ q * k <= a /\ a < q * k + k
                        /\ a % k = a - q * k
BY SMT

LEMMA Remainder ==
  ASSUME NEW a \in Nat, NEW k \in Nat \ {0}, NEW q \in Nat,
         q * k <= a, a < q * k + k
  PROVE  a % k = a - q * k
<1>1. PICK t \in Nat : t * k \in Nat /\ t * k <= a /\ a < t * k + k /\ a % k = a - t * k
  BY Division
<1>2. q * k \in Nat /\ (q < t => q * k + k <= t * k) /\ (t < q => t * k + k <= q * k)
  BY Multiples
<1>3. q = t
  BY <1>1, <1>2, SMT
<1>. QED  BY <1>1, <1>3

(* Numbers less than k apart leave different remainders. *)
LEMMA Apart ==
  ASSUME NEW a \in Nat, NEW b \in Nat, NEW k \in Nat \ {0}, a < b, b < a + k
  PROVE  a % k # b % k
<1>1. PICK q \in Nat : q * k \in Nat /\ q * k <= a /\ a < q * k + k /\ a % k = a - q * k
  BY Division
<1>2. PICK t \in Nat : t * k \in Nat /\ t * k <= b /\ b < t * k + k /\ b % k = b - t * k
  BY Division
<1>3. (q < t => q * k + k <= t * k) /\ (t < q => t * k + k <= q * k)
  BY Multiples
<1>4. q = t \/ q < t \/ t < q
  BY SMT
<1>. QED  BY <1>1, <1>2, <1>3, <1>4, SMT

LEMMA Successor ==
  ASSUME NEW a \in Nat, NEW k \in Nat \ {0}
  PROVE  /\ a % k \in 0 .. k - 1
         /\ ((a % k) + 1) % k = (a + 1) % k
<1>1. PICK q \in Nat : q * k \in Nat /\ q * k <= a /\ a < q * k + k /\ a % k = a - q * k
  BY Division
<1>2. PICK b \in Nat, r \in Nat : b = a + 1 /\ r = (a % k) + 1 /\ r = b - q * k
  BY <1>1, SMT
<1>3. 0 * k = 0 /\ 1 * k = k /\ (q + 1) * k = q * k + k
  BY SMT
<1>4. CASE b < q * k + k
  <2>0. q * k <= b /\ b < q * k + k
    BY <1>1, <1>2, <1>4, SMT
  <2>1. b % k = b - q * k
    BY <2>0, Remainder
  <2>2. 0 * k <= r /\ r < 0 * k + k
    BY <1>1, <1>2, <1>3, <1>4, SMT
  <2>3. r % k = r - 0 * k
    BY <2>2, Remainder
  <2>. QED  BY <1>1, <1>2, <1>3, <2>1, <2>3, SMT
<1>5. CASE b = q * k + k
  <2>1. PICK t \in Nat : t * k = b
    BY <1>3, <1>5
  <2>2. t * k <= b /\ b < t * k + k
    BY <2>1, SMT
  <2>3. b % k = b - t * k
    BY <2>2, Remainder
  <2>4. 1 * k <= r /\ r < 1 * k + k /\ r = k
    BY <1>1, <1>2, <1>3, <1>5, SMT
  <2>5. r % k = r - 1 * k
    BY <2>4, Remainder
  <2>. QED  BY <1>1, <1>2, <1>3, <2>1, <2>3, <2>4, <2>5, SMT
<1>. QED  BY <1>1, <1>2, <1>4, <1>5, SMT

LEMMA NextTagRange ==
  ASSUME NEW p \in Proc, NEW t \in 0 .. MaxTag[p] - 1
  PROVE  NextTag(p, t) \in 0 .. MaxTag[p] - 1
BY ConstAssumption, SMT DEF NextTag

(* A pattern names ranks, and counts up to MaxCount. *)
LEMMA PatternType ==
  ASSUME NEW s \in Patterns \cup {<< >>}, NEW d \in DOMAIN s
  PROVE  d \in Proc /\ s[d] \in 0 .. MaxCount /\ s \in Patterns
<1>1. CASE s \in Patterns
  <2>1. PICK D \in SUBSET Proc : s \in [D -> 0 .. MaxCount]
    BY <1>1, ConstAssumption
  <2>. QED  BY <1>1, <2>1
<1>2. CASE s = << >>
  BY <1>2
<1>. QED  BY <1>1, <1>2

(* What a rank posts has the type of a message. *)
LEMMA OutgoingType ==
  ASSUME NEW p \in Proc, NEW c \in Calls, NEW t \in Nat,
         NEW s \in Patterns \cup {<< >>}
  PROVE  Outgoing(p, c, t, s) \subseteq MessageSet
BY PatternType DEF Outgoing, MessageSet

LEMMA TypedInit == Init => Typed
<1> SUFFICES ASSUME Init PROVE Typed
  OBVIOUS
<1>1. \A p \in Proc : 126 % MaxTag[p] \in 0 .. MaxTag[p] - 1
  BY ConstAssumption, SMT
<1>. QED
  BY <1>1, ConstAssumption DEF Init, Typed, TypeOK, InCall, Calls, Locations

LEMMA TypedStep == Typed /\ [Next]_vars => Typed'
<1> SUFFICES ASSUME Typed, [Next]_vars PROVE Typed'
  OBVIOUS
<1> USE DEF Typed, TypeOK, InCall, Locations
<1>1. ASSUME NEW p \in Proc, NEW s \in Patterns, Enter(p, s)
      PROVE  /\ call' \in [Proc -> 0 .. MaxCalls] /\ call[p] + 1 \in Calls
             /\ call'[p] \in Calls
             /\ \A q \in Proc : q # p => call'[q] = call[q]
             /\ commTag' \in [Proc -> Nat] /\ \A q \in Proc : commTag'[q] < MaxTag[q]
             /\ tag' \in [Proc -> Nat]
             /\ sends' \in [Proc -> [Calls -> Patterns \cup {<< >>}]]
  <2>1. call[p] + 1 \in Calls
    BY <1>1, ConstAssumption DEF Enter, Calls
  <2>2. NextTag(p, commTag[p]) \in 0 .. MaxTag[p] - 1
    BY NextTagRange, ConstAssumption
  <2>3. NextTag(p, commTag[p]) \in Nat /\ NextTag(p, commTag[p]) < MaxTag[p]
    BY <2>2, ConstAssumption
  <2>4. commTag' \in [Proc -> Nat] /\ \A q \in Proc : commTag'[q] < MaxTag[q]
    BY <1>1, <2>3 DEF Enter
  <2>5. call' = [call EXCEPT ![p] = call[p] + 1] /\ call[p] + 1 \in 0 .. MaxCalls
    BY <1>1, <2>1, ConstAssumption DEF Enter, Calls
  <2>6. sends' \in [Proc -> [Calls -> Patterns \cup {<< >>}]]
    BY <1>1, <2>1 DEF Enter
  <2>. QED  BY <1>1, <2>1, <2>4, <2>5, <2>6 DEF Enter
<1>2. ASSUME NEW p \in Proc, NEW s \in Patterns, EnterPersonalized(p, s)
      PROVE  Typed'
  <2>1. Enter(p, s)
    BY <1>2 DEF EnterPersonalized
  <2>2. sync' \in [Proc -> 0 .. MaxCalls]
    BY <1>1, <1>2, <2>1, ConstAssumption DEF EnterPersonalized, Calls
  <2>. QED  BY <1>1, <1>2, <2>1, <2>2 DEF EnterPersonalized
<1>3. ASSUME NEW p \in Proc, NEW s \in Patterns, EnterNonblocking(p, s)
      PROVE  Typed'
  <2>1. Outgoing(p, call[p] + 1, commTag[p], s) \subseteq MessageSet
    BY <1>1, <1>3, OutgoingType DEF EnterNonblocking
  <2>2. Enter(p, s)
    BY <1>3 DEF EnterNonblocking
  <2>. QED  BY <1>1, <1>3, <2>1, <2>2 DEF EnterNonblocking
<1>4. ASSUME NEW p \in Proc, Allreduce(p) PROVE Typed'
  <2>1. Outgoing(p, call[p], tag[p], sends[p][call[p]]) \subseteq MessageSet
    BY <1>4, OutgoingType DEF Allreduce
  <2>. QED  BY <1>4, <2>1 DEF Allreduce
<1>5. ASSUME NEW p \in Proc, NEW m \in Matching(p), Receive(p, m)
      PROVE  flight' \subseteq MessageSet /\ got' \in [Proc -> [Calls -> SUBSET PayloadSet]]
  <2>1. m \in MessageSet
    BY DEF Matching
  <2>2. Payload(m) \in PayloadSet
    BY <2>1 DEF Payload, PayloadSet, MessageSet
  <2>. QED  BY <1>5, <2>2 DEF Receive
<1>6. ASSUME NEW p \in Proc, ProbeRecv(p) PROVE Typed'
  BY <1>5, <1>6 DEF ProbeRecv
<1>7. ASSUME NEW p \in Proc, Waitall(p) PROVE Typed'
  BY <1>7 DEF Waitall
<1>8. ASSUME NEW p \in Proc, IprobeRecv(p) PROVE Typed'
  BY <1>5, <1>8 DEF IprobeRecv
<1>9. ASSUME NEW p \in Proc, IprobeNothing(p) PROVE Typed'
  BY <1>9 DEF IprobeNothing
<1>10. ASSUME NEW p \in Proc, Testall(p) PROVE Typed'
  BY <1>10 DEF Testall, Calls
<1>11. ASSUME NEW p \in Proc, TestBarrier(p) PROVE Typed'
  BY <1>11 DEF TestBarrier
<1>12. ASSUME NEW p \in Proc, TestIncomplete(p) PROVE Typed'
  BY <1>12 DEF TestIncomplete
<1>13. CASE UNCHANGED vars
  BY <1>13 DEF vars
<1>. QED
  BY <1>2, <1>3, <1>4, <1>6, <1>7, <1>8, <1>9, <1>10, <1>11, <1>12, <1>13
  DEF Next, Step, Finished

(* The types hold, the tag counter stays below max_tag included. *)
THEOREM TypeCorrect == Spec => []TypeOK
<1>1. Typed => TypeOK
  BY DEF Typed
<1>. QED  BY <1>1, TypedInit, TypedStep, PTL DEF Spec
-----------------------------------------------------------------------------
(* Where the ranks are, and what they have synchronised on. *)
LEMMA ControlStep == Typed /\ Control /\ [Next]_vars => Control'
<1> SUFFICES ASSUME Typed, Control, [Next]_vars PROVE Control'
  OBVIOUS
<1> USE DEF Typed, TypeOK, InCall, Control, Locations
<1>1. ASSUME NEW p \in Proc, NEW s \in Patterns,
             EnterPersonalized(p, s) \/ EnterNonblocking(p, s)
      PROVE  Control'
  BY <1>1, ConstAssumption DEF EnterPersonalized, EnterNonblocking, Enter, Calls
<1>2. ASSUME NEW p \in Proc,
             Allreduce(p) \/ ProbeRecv(p) \/ Waitall(p) \/ IprobeRecv(p)
               \/ IprobeNothing(p) \/ TestIncomplete(p)
      PROVE  Control'
  BY <1>2 DEF Allreduce, ProbeRecv, Waitall, IprobeRecv, IprobeNothing, TestIncomplete
<1>3. ASSUME NEW p \in Proc, Testall(p) \/ TestBarrier(p) PROVE Control'
  BY <1>3 DEF Testall, TestBarrier
<1>4. CASE UNCHANGED vars
  BY <1>4 DEF vars
<1>. QED  BY <1>1, <1>2, <1>3, <1>4 DEF Next, Step, Finished

LEMMA SkewStep == Typed /\ Control /\ Skew /\ [Next]_vars => Skew'
<1> SUFFICES ASSUME Typed, Control, Skew, [Next]_vars PROVE Skew'
  OBVIOUS
<1> DEFINE Past(p) == IF pc[p] \in {"idle", "probe"} THEN call[p] ELSE call[p] - 1
<1>1. ASSUME \A p \in Proc : sync'[p] \in Nat /\ sync'[p] >= sync[p],
             \A p \in Proc : Past(p)' \in Int
                            /\ (Past(p)' = Past(p) \/ \A q \in Proc : sync[q] >= Past(p)')
      PROVE  Skew'
  <2> SUFFICES ASSUME NEW p \in Proc, NEW q \in Proc PROVE sync'[q] >= Past(p)'
    BY DEF Skew
  <2>1. sync[q] >= Past(p) /\ sync[q] \in Int
    BY DEF Skew, Typed, TypeOK
  <2>. QED  BY <1>1, <2>1
<1> USE DEF Typed, TypeOK, InCall, Control, Locations
<1>2. ASSUME NEW p \in Proc, NEW s \in Patterns,
             EnterPersonalized(p, s) \/ EnterNonblocking(p, s)
      PROVE  Skew'
  <2>1. /\ call'[p] = call[p] + 1 /\ pc[p] = "idle" /\ pc'[p] \in {"allreduce", "iprobe"}
        /\ \A q \in Proc : q # p => call'[q] = call[q] /\ pc'[q] = pc[q]
    BY <1>2 DEF EnterPersonalized, EnterNonblocking, Enter
  <2>2. \A q \in Proc : sync'[q] \in Nat /\ sync'[q] >= sync[q]
    <3>1. sync[p] = call[p] /\ call[p] \in Nat /\ \A q \in Proc : sync[q] \in Nat
      BY <2>1, ConstAssumption
    <3>2. /\ sync'[p] \in {sync[p], call[p] + 1}
          /\ \A q \in Proc : q # p => sync'[q] = sync[q]
      BY <1>2 DEF EnterPersonalized, EnterNonblocking
    <3>. QED  BY <3>1, <3>2
  <2>3. \A q \in Proc : Past(q)' \in Int /\ Past(q)' = Past(q)
    BY <2>1
  <2>. QED  BY <1>1, <2>2, <2>3
<1>3. ASSUME NEW p \in Proc,
             Allreduce(p) \/ ProbeRecv(p) \/ Waitall(p) \/ IprobeRecv(p)
               \/ IprobeNothing(p) \/ TestIncomplete(p)
      PROVE  Skew'
  <2>1. UNCHANGED <<call, sync>> /\ \A q \in Proc : q # p => pc'[q] = pc[q]
    BY <1>3 DEF Allreduce, ProbeRecv, Waitall, IprobeRecv, IprobeNothing, TestIncomplete
  <2>2. Past(p)' = Past(p) \/ \A q \in Proc : sync[q] >= Past(p)'
    BY <1>3 DEF Allreduce, ProbeRecv, Waitall, IprobeRecv, IprobeNothing, TestIncomplete
  <2>3. \A q \in Proc : Past(q)' \in Int /\ (q # p => Past(q)' = Past(q))
    BY <2>1
  <2>. QED  BY <1>1, <2>1, <2>2, <2>3
<1>4. ASSUME NEW p \in Proc, Testall(p) \/ TestBarrier(p) PROVE Skew'
  <2>1. UNCHANGED call /\ \A q \in Proc : q # p => pc'[q] = pc[q]
    BY <1>4 DEF Testall, TestBarrier
  <2>2. \A q \in Proc : sync'[q] \in Nat /\ sync'[q] >= sync[q]
    <3>1. call[p] \in Nat /\ \A q \in Proc : sync[q] \in Nat
      BY ConstAssumption
    <3>2. /\ sync'[p] = sync[p] \/ (sync'[p] = call[p] /\ sync[p] < call[p])
          /\ \A q \in Proc : q # p => sync'[q] = sync[q]
      BY <1>4 DEF Testall, TestBarrier
    <3>3. sync'[p] \in Nat /\ sync'[p] >= sync[p]
      BY <3>1, <3>2
    <3>4. ASSUME NEW q \in Proc, q # p PROVE sync'[q] \in Nat /\ sync'[q] >= sync[q]
      <4>1. sync'[q] = sync[q] /\ sync[q] \in Nat
        BY <3>1, <3>2, <3>4
      <4>. QED  BY <4>1
    <3>. QED  BY <3>3, <3>4
  <2>3. Past(p)' = Past(p) \/ \A q \in Proc : sync[q] >= Past(p)'
    BY <1>4 DEF Testall, TestBarrier
  <2>4. \A q \in Proc : Past(q)' \in Int /\ (q # p => Past(q)' = Past(q))
    BY <2>1
  <2>. QED  BY <1>1, <2>2, <2>3, <2>4
<1>5. CASE UNCHANGED vars
  BY <1>5 DEF vars, Skew
<1>. QED  BY <1>2, <1>3, <1>4, <1>5 DEF Next, Step, Finished

(* The counters of a rank: what has been entered, and what returned. *)
LEMMA Lockstep ==
  ASSUME Typed, Control, Skew, NEW p \in Proc, NEW q \in Proc
  PROVE  /\ Returned(p) <= sync[q]
         /\ sync[q] <= call[q]
         /\ call[p] <= call[q] + 1
         /\ pc[p] \in {"idle", "probe"} => call[p] <= sync[q]
         /\ Returned(p) \in {call[p] - 1, call[p]}
<1>1. /\ call[p] \in Nat /\ call[q] \in Nat /\ sync[q] \in Nat
      /\ pc[q] \in Locations
  BY ConstAssumption DEF Typed, TypeOK
<1>2. sync[q] <= call[q]
  BY <1>1 DEF Control, Locations
<1>3. sync[q] >= IF pc[p] \in {"idle", "probe"} THEN call[p] ELSE call[p] - 1
  BY DEF Skew
<1>. QED  BY <1>1, <1>2, <1>3 DEF Returned

(* get_tag takes the tags of the calls one after the other. *)
LEMMA NextCallTag ==
  ASSUME NEW p \in Proc, NEW c \in Nat
  PROVE  NextTag(p, CallTag(p, c)) = CallTag(p, c + 1)
<1>1. PICK M \in Nat \ {0} : MaxTag[p] = M
  BY ConstAssumption
<1>2. PICK a \in Nat : a = 125 + c /\ a + 1 = 125 + (c + 1)
  BY SMT
<1>3. ((a % M) + 1) % M = (a + 1) % M
  BY Successor
<1>. QED  BY <1>1, <1>2, <1>3 DEF NextTag, CallTag

(* Calls fewer than max_tag apart have different tags, on all ranks. *)
LEMMA OtherTag ==
  ASSUME SameTagSpace, NEW p \in Proc, NEW q \in Proc, NEW c \in Nat, NEW d \in Nat,
         c < d, d < c + MaxTag[p]
  PROVE  CallTag(p, c) # CallTag(q, d) /\ CallTag(q, c) # CallTag(p, d)
<1>1. PICK M \in Nat \ {0} : MaxTag[p] = M /\ MaxTag[q] = M
  BY ConstAssumption DEF SameTagSpace
<1>2. PICK a \in Nat, b \in Nat : a = 125 + c /\ b = 125 + d
  BY SMT
<1>3. a < b /\ b < a + M
  BY <1>1, <1>2
<1>4. a % M # b % M
  BY <1>3, Apart
<1>. QED  BY <1>1, <1>2, <1>4 DEF CallTag

LEMMA TagByCallStep == Typed /\ TagByCall /\ [Next]_vars => TagByCall'
<1> SUFFICES ASSUME Typed, TagByCall, [Next]_vars PROVE TagByCall'
  OBVIOUS
<1>1. ASSUME NEW p \in Proc, NEW s \in Patterns,
             EnterPersonalized(p, s) \/ EnterNonblocking(p, s)
      PROVE  TagByCall'
  <2>1. Enter(p, s) /\ \A q \in Proc : q # p => pc'[q] = pc[q]
    BY <1>1 DEF EnterPersonalized, EnterNonblocking, Typed, TypeOK
  <2>2. PICK c \in Nat : c = call[p] + 1
    BY ConstAssumption DEF Typed, TypeOK
  <2>3. commTag[p] = CallTag(p, c) /\ NextTag(p, CallTag(p, c)) = CallTag(p, c + 1)
    BY <2>2, NextCallTag DEF TagByCall
  <2>4. /\ call'[p] = c /\ tag'[p] = CallTag(p, c) /\ commTag'[p] = CallTag(p, c + 1)
        /\ \A q \in Proc : q # p =>
             call'[q] = call[q] /\ tag'[q] = tag[q] /\ commTag'[q] = commTag[q]
    BY <2>1, <2>2, <2>3 DEF Enter, Typed, TypeOK
  <2>. QED  BY <2>1, <2>4 DEF TagByCall, CallTag
<1>2. ASSUME NEW p \in Proc,
             Allreduce(p) \/ ProbeRecv(p) \/ Waitall(p) \/ IprobeRecv(p) \/ IprobeNothing(p)
               \/ Testall(p) \/ TestBarrier(p) \/ TestIncomplete(p)
      PROVE  TagByCall'
  <2>1. UNCHANGED <<call, commTag, tag>> /\ pc' = [pc EXCEPT ![p] = pc'[p]] /\ pc[p] # "idle"
    BY <1>2 DEF Allreduce, ProbeRecv, Waitall, IprobeRecv, IprobeNothing,
                Testall, TestBarrier, TestIncomplete, Typed, TypeOK
  <2>. QED  BY <2>1 DEF TagByCall, CallTag, Typed, TypeOK
<1>3. CASE UNCHANGED vars
  BY <1>3 DEF vars, TagByCall, CallTag
<1>. QED  BY <1>1, <1>2, <1>3 DEF Next, Step, Finished
-----------------------------------------------------------------------------
(* The loop of the personalized methods ends exactly when all has arrived. *)
LEMMA AddressedFinite ==
  ASSUME NEW p \in Proc, NEW c \in Calls
  PROVE  IsFiniteSet(Addressed(p, c))
<1> DEFINE Senders == { r \in Proc : p \in DOMAIN sends[r][c] }
           f == [q \in Senders |-> [src |-> q, call |-> c, count |-> sends[q][c][p]]]
<1>1. IsFiniteSet(Senders)
  BY ConstAssumption, FS_Subset
<1>2. f \in Surjection(Senders, Addressed(p, c))
  BY DEF Surjection, Addressed
<1>. QED  BY <1>1, <1>2, FS_Surjection

LEMMA UnitsFinite ==
  ASSUME NEW S, IsFiniteSet(S), NEW c \in Calls
  PROVE  IsFiniteSet(Units(c, S))
<1>1. IsFiniteSet(1 .. MaxCount + 1)
  BY ConstAssumption, FS_Interval
<1>2. IsFiniteSet(S \X (1 .. MaxCount + 1))
  BY <1>1, FS_Product
<1>3. Units(c, S) \subseteq S \X (1 .. MaxCount + 1)
  BY DEF Units
<1>. QED  BY <1>2, <1>3, FS_Subset

LEMMA AllReceived ==
  ASSUME Typed, NEW p \in Proc, call[p] \in Calls, method[call[p]] # "nonblocking",
         got[p][call[p]] \subseteq Addressed(p, call[p]), ~ MoreToReceive(p)
  PROVE  Due(p, call[p]) \subseteq got[p][call[p]]
<1> DEFINE c == call[p]
           A == Addressed(p, c)
           G == got[p][c]
<1>1. IsFiniteSet(A) /\ IsFiniteSet(Units(c, A))
  BY AddressedFinite, UnitsFinite
<1>2. Units(c, G) \subseteq Units(c, A)
  BY DEF Units
<1>3. Units(c, A) = Units(c, G)
  <2>1. Cardinality(Units(c, A)) \in Nat
    BY <1>1, FS_CardinalityType
  <2>2. Cardinality(Units(c, G)) \in Nat
    BY <1>1, <1>2, FS_Subset, FS_CardinalityType
  <2>3. ~ (Cardinality(Units(c, G)) < Cardinality(Units(c, A)))
    BY DEF MoreToReceive
  <2>. QED  BY <1>1, <1>2, <2>1, <2>2, <2>3, FS_Subset
<1>4. ASSUME NEW y \in Due(p, c) PROVE y \in G
  <2>0. y \in A /\ (method[c] = "alltoallv_personalized" => y.count > 0)
    BY DEF Due
  <2>1. PICK q \in Proc : p \in DOMAIN sends[q][c] /\ y.count = sends[q][c][p]
    BY <2>0 DEF Addressed
  <2>2. sends[q][c] \in Patterns \cup {<< >>}
    BY DEF Typed, TypeOK
  <2>3. y.count \in 0 .. MaxCount
    BY <2>1, <2>2, PatternType
  <2>4. method[c] \in Methods
    BY DEF Typed, TypeOK
  <2>5. <<y, 1>> \in Units(c, A)
    <3>1. Weight(c, y) >= 1
      BY <2>0, <2>3, <2>4, ConstAssumption DEF Weight, Methods
    <3>. QED  BY <2>0, <3>1, ConstAssumption DEF Units
  <2>6. <<y, 1>> \in Units(c, G)
    BY <1>3, <2>5
  <2>. QED  BY <2>6 DEF Units
<1>. QED  BY <1>4
-----------------------------------------------------------------------------
(* A wildcard receive matches a message of the receiver's own call. *)
LEMMA OwnCall ==
  ASSUME SameTagSpace, EmptiesApart, IInv,
         NEW p \in Proc, pc[p] \in {"probe", "iprobe", "test"}, NEW m \in Matching(p)
  PROVE  m.call = call[p]
<1>1. /\ m \in flight /\ m \in MessageSet /\ m.dst = p /\ m.tag = tag[p]
      /\ m.src \in Proc /\ m.call \in Calls
  BY DEF Matching, IInv, Ranks, Typed, TypeOK, MessageSet
<1>2. /\ m.tag = CallTag(m.src, m.call) /\ tag[p] = CallTag(p, call[p])
      /\ CallTag(m.src, m.call) = CallTag(p, call[p])
  BY <1>1 DEF IInv, Messages, FlightInv, Ranks, TagByCall
<1>3. /\ m.call \in Nat /\ m.call <= MaxCalls
      /\ call[p] \in Nat /\ call[p] <= MaxCalls /\ call[p] >= 1
      /\ MaxTag[p] \in Nat /\ MaxTag[p] >= 2 /\ MaxCalls \in Nat /\ m.call >= 1
  BY <1>1, ConstAssumption DEF IInv, Ranks, Typed, TypeOK, InCall, Calls, SameTagSpace
<1>4. ASSUME method[m.call] = "nonblocking" PROVE m.call = call[p]
  <2> DEFINE q == m.src
  <2>1. m.call = call[q] /\ sync[q] < m.call
    BY <1>1, <1>4 DEF IInv, Messages, FlightInv
  <2>2. call[q] \in Nat /\ sync[q] \in Nat
    BY <1>1, ConstAssumption DEF IInv, Ranks, Typed, TypeOK
  <2>3. /\ Returned(p) <= sync[q] /\ Returned(p) = call[p] - 1
        /\ call[q] <= call[p] + 1
    BY <1>1, Lockstep DEF IInv, Ranks, Returned
  <2>4. m.call = call[p] \/ m.call = call[p] + 1
    BY <1>3, <2>1, <2>2, <2>3
  <2>5. ASSUME m.call = call[p] + 1 PROVE FALSE
    <3>1. call[p] < m.call /\ m.call < call[p] + MaxTag[p]
      BY <1>3, <2>5
    <3>. QED  BY <1>1, <1>2, <1>3, <3>1, OtherTag
  <2>. QED  BY <2>4, <2>5
<1>5. ASSUME method[m.call] # "nonblocking", ~ Awaited(m) PROVE FALSE
  <2>1. /\ method[m.call] = "alltoallv_personalized" /\ m.count = 0
        /\ m.call <= Returned(p)
    BY <1>1, <1>5 DEF IInv, Messages, FlightInv, Overlooked
  <2>2. ~ NoElementCounts
    BY <1>1, <2>1 DEF NoElementCounts, IInv, Ranks, Typed
  <2>3. ~ NoEmptyMessages
    <3>1. /\ m.dst \in DOMAIN sends[m.src][m.call]
          /\ sends[m.src][m.call][m.dst] = 0
      BY <1>1, <2>1 DEF IInv, Messages, FlightInv
    <3>2. sends[m.src][m.call] \in Patterns \cup {<< >>}
      BY <1>1 DEF IInv, Ranks, Typed, TypeOK
    <3>3. sends[m.src][m.call] \in Patterns
      BY <3>1, <3>2, PatternType
    <3>. QED  BY <3>1, <3>3 DEF NoEmptyMessages
  <2>4. MaxCalls <= MaxTag[p]
    BY <2>2, <2>3 DEF EmptiesApart, TagsLast
  <2>5. Returned(p) = call[p] - 1
    BY DEF Returned
  <2>6. m.call < call[p] /\ call[p] < m.call + MaxTag[p]
    BY <1>3, <2>1, <2>4, <2>5
  <2>. QED  BY <1>1, <1>2, <1>3, <2>6, OtherTag
<1>. QED  BY <1>1, <1>4, <1>5 DEF Awaited

(* Messages of one source to one destination in one call are the same. *)
LEMMA OneMessage ==
  ASSUME IInv, NEW m \in flight, NEW n \in flight,
         m.dst = n.dst, Payload(m) = Payload(n)
  PROVE  m = n
<1>1. m \in MessageSet /\ n \in MessageSet
  BY DEF IInv, Ranks, Typed, TypeOK
<1>2. m.src = n.src /\ m.call = n.call /\ m.count = n.count
  BY DEF Payload
<1>3. m.tag = n.tag
  BY <1>2 DEF IInv, Messages, FlightInv
<1>. QED  BY <1>1, <1>2, <1>3 DEF MessageSet

(* A receive by p in its call keeps the invariants about messages. *)
LEMMA ReceiveStep ==
  ASSUME IInv, NEW p \in Proc, call[p] \in Calls, pc[p] # "idle",
         NEW m \in flight, m.dst = p, m.call = call[p],
         Receive(p, m), UNCHANGED <<method, call, commTag, tag, sync, sends>>,
         pc' = [pc EXCEPT ![p] = pc'[p]],
         pc[p] = "probe" => pc'[p] = "probe",
         (pc[p] \in {"iprobe", "test"} /\ pc'[p] \in {"iprobe", "test"}) \/ pc[p] = "probe"
  PROVE  Messages'
<1> DEFINE c == call[p]
           y == Payload(m)
<1>1. /\ flight' = flight \ {m}
      /\ got'[p][c] = got[p][c] \cup {y}
      /\ \A r \in Proc, k \in Calls : r # p \/ k # c => got'[r][k] = got[r][k]
  BY DEF Receive, IInv, Ranks, Typed, TypeOK
<1>2. m \in MessageSet /\ m.src \in Proc
  BY DEF IInv, Ranks, Typed, TypeOK, MessageSet
<1>3. /\ \A q \in Proc : (pc'[q] = "allreduce" <=> pc[q] = "allreduce")
      /\ \A q \in Proc : (pc'[q] = "idle" <=> pc[q] = "idle")
      /\ \A q \in Proc : pc[q] \in {"allreduce", "probe"} => pc'[q] \in {"allreduce", "probe"}
  BY DEF IInv, Ranks, Typed, TypeOK
<1>4. \A q \in Proc, k \in Calls : Posted(q, k)' <=> Posted(q, k)
  BY <1>3 DEF Posted
<1>5. \A r \in Proc, k \in Calls : Addressed(r, k)' = Addressed(r, k)
  BY DEF Addressed
<1>6. \A q \in Proc : Returned(q)' = Returned(q)
  BY <1>3 DEF Returned
<1>7. FlightInv'
  <2> SUFFICES ASSUME NEW n \in flight, n # m
               PROVE  FlightInv!(n)'
    BY <1>1 DEF FlightInv
  <2>1. n \in MessageSet /\ n.src \in Proc /\ n.dst \in Proc /\ n.call \in Calls
    BY DEF IInv, Ranks, Typed, TypeOK, MessageSet
  <2>2. Payload(n) \notin got[n.dst][n.call]
    BY DEF IInv, Messages, FlightInv
  <2>3. Payload(n) \notin got'[n.dst][n.call]
    BY <1>1, <2>1, <2>2, OneMessage
  <2>4. method[n.call] # "nonblocking" => Awaited(n)' \/ Overlooked(n)'
    BY <1>3, <1>6, <2>1 DEF IInv, Messages, FlightInv, Awaited, Overlooked
  <2>. QED  BY <1>3, <1>4, <2>1, <2>3, <2>4
            DEF IInv, Messages, FlightInv, Payload, CallTag
<1>8. GotInv'
  <2>1. y \in Addressed(p, c) /\ Posted(y.src, c) /\ y.src \in Proc
    BY <1>2 DEF IInv, Messages, FlightInv, Addressed, Payload
  <2> SUFFICES ASSUME NEW r \in Proc, NEW k \in Calls, NEW z \in got'[r][k]
               PROVE  z \in Addressed(r, k)' /\ Posted(z.src, k)'
    BY DEF GotInv
  <2>2. z \in Addressed(r, k) /\ Posted(z.src, k)
    BY <1>1, <2>1 DEF IInv, Messages, GotInv
  <2>3. z.src \in Proc
    BY <2>2 DEF Addressed
  <2>. QED  BY <1>4, <1>5, <2>2, <2>3
<1>9. NothingLost'
  <2> SUFFICES ASSUME NEW r \in Proc, NEW q \in Proc, NEW k \in Calls,
                      Posted(q, k)', r \in DOMAIN sends[q][k]
               PROVE  LET z == [src |-> q, call |-> k, count |-> sends[q][k][r]]
                      IN  z \in got'[r][k] \/ \E n \in flight' : n.dst = r /\ Payload(n) = z
    BY DEF NothingLost, Payload
  <2> DEFINE z == [src |-> q, call |-> k, count |-> sends[q][k][r]]
  <2>1. z \in got[r][k] \/ \E n \in flight : n.dst = r /\ Payload(n) = z
    BY <1>4 DEF IInv, Messages, NothingLost
  <2>2. CASE z \in got[r][k]
    BY <1>1, <2>2
  <2>3. ASSUME NEW n \in flight, n.dst = r, Payload(n) = z
        PROVE  z \in got'[r][k] \/ \E o \in flight' : o.dst = r /\ Payload(o) = z
    <3>1. CASE n = m
      BY <1>1, <2>3, <3>1 DEF Payload
    <3>2. CASE n # m
      BY <1>1, <2>3, <3>2
    <3>. QED  BY <3>1, <3>2
  <2>. QED  BY <2>1, <2>2, <2>3
<1>10. Exact'
  <2> SUFFICES ASSUME NEW r \in Proc, NEW k \in Calls, k <= Returned(r)
               PROVE  Due(r, k) \subseteq got'[r][k] /\ got'[r][k] \subseteq Addressed(r, k)
    BY <1>5, <1>6 DEF Exact, Due
  <2>1. r = p => k # c
    BY ConstAssumption DEF Returned, IInv, Ranks, Typed, TypeOK, Calls
  <2>. QED  BY <1>1, <2>1 DEF IInv, Messages, Exact
<1>. QED  BY <1>7, <1>8, <1>9, <1>10 DEF Messages
-----------------------------------------------------------------------------
(* Steps of one rank that leave messages and sends alone. *)
LEMMA QuietStep ==
  ASSUME IInv, NEW p \in Proc,
         UNCHANGED <<method, call, commTag, tag, sends, flight, got>>,
         pc' = [pc EXCEPT ![p] = pc'[p]],
         pc[p] \notin {"idle", "allreduce"}, pc'[p] # "allreduce",
         \A q \in Proc : q # p => sync'[q] = sync[q],
         \A m \in flight :
           /\ m.src = p /\ method[m.call] = "nonblocking" => sync'[p] < m.call
           /\ m.dst = p /\ method[m.call] # "nonblocking" =>
                (Awaited(m) /\ pc'[p] = "probe") \/ Overlooked(m)',
         pc'[p] = "idle" => /\ Due(p, call[p]) \subseteq got[p][call[p]]
                            /\ got[p][call[p]] \subseteq Addressed(p, call[p])
  PROVE  Messages'
<1>1. \A q \in Proc, k \in Calls : Posted(q, k)' <=> Posted(q, k)
  BY DEF Posted, IInv, Ranks, Typed, TypeOK
<1>2. \A r \in Proc, k \in Calls : Addressed(r, k)' = Addressed(r, k)
  BY DEF Addressed
<1>3. \A r \in Proc, k \in Calls : \A z \in Addressed(r, k) : z.src \in Proc
  BY DEF Addressed
<1>4. \A m \in flight : m \in MessageSet /\ m.src \in Proc /\ m.dst \in Proc /\ m.call \in Calls
  BY DEF IInv, Ranks, Typed, TypeOK, MessageSet
<1>5. FlightInv'
  <2> SUFFICES ASSUME NEW m \in flight PROVE FlightInv!(m)'
    BY DEF FlightInv
  <2>1. m.dst # p => pc'[m.dst] = pc[m.dst] /\ Returned(m.dst)' = Returned(m.dst)
    BY <1>4 DEF IInv, Ranks, Typed, TypeOK, Returned
  <2>2. method[m.call] # "nonblocking" => Awaited(m)' \/ Overlooked(m)'
    <3>1. CASE m.dst = p
      BY <1>4, <3>1 DEF Awaited
    <3>2. CASE m.dst # p
      BY <1>4, <2>1, <3>2 DEF IInv, Messages, FlightInv, Awaited, Overlooked
    <3>. QED  BY <3>1, <3>2
  <2>. QED  BY <1>1, <1>4, <2>1, <2>2 DEF IInv, Messages, FlightInv, Payload, CallTag
<1>6. GotInv'
  BY <1>1, <1>2, <1>3 DEF IInv, Messages, GotInv
<1>7. NothingLost'
  BY <1>1 DEF IInv, Messages, NothingLost, Payload
<1>8. Exact'
  <2> SUFFICES ASSUME NEW r \in Proc, NEW k \in Calls, k <= Returned(r)'
               PROVE  Due(r, k) \subseteq got[r][k] /\ got[r][k] \subseteq Addressed(r, k)
    BY <1>2 DEF Exact, Due
  <2>1. k <= Returned(r) \/ (r = p /\ pc'[p] = "idle" /\ k = call[p])
    BY ConstAssumption DEF Returned, IInv, Ranks, Typed, TypeOK, Calls
  <2>. QED  BY <2>1 DEF IInv, Messages, Exact
<1>. QED  BY <1>5, <1>6, <1>7, <1>8 DEF Messages

LEMMA WaitallStep ==
  ASSUME IInv, NEW p \in Proc, Waitall(p)
  PROVE  Messages'
<1>1. /\ UNCHANGED <<method, call, commTag, tag, sends, flight, got, sync>>
      /\ pc' = [pc EXCEPT ![p] = pc'[p]] /\ pc[p] = "probe" /\ pc'[p] = "idle"
      /\ ~ MoreToReceive(p)
  BY DEF Waitall, IInv, Ranks, Typed, TypeOK
<1>2. call[p] \in Calls /\ method[call[p]] # "nonblocking" /\ call[p] \in Nat
  BY <1>1, ConstAssumption DEF IInv, Ranks, Typed, InCall, Control, Calls
<1>3. got[p][call[p]] \subseteq Addressed(p, call[p])
  BY <1>2 DEF IInv, Messages, GotInv
<1>4. Due(p, call[p]) \subseteq got[p][call[p]]
  BY <1>1, <1>2, <1>3, AllReceived DEF IInv, Ranks
<1>5. ASSUME NEW m \in flight, m.dst = p, method[m.call] # "nonblocking"
      PROVE  Overlooked(m)'
  <2>1. Returned(p) = call[p] - 1 /\ Returned(p)' = call[p]
    BY <1>1, <1>2 DEF Returned, IInv, Ranks, Typed, TypeOK
  <2>0. m.src \in Proc /\ m.call \in Calls /\ m.count \in 0 .. MaxCount
    BY DEF IInv, Ranks, Typed, TypeOK, MessageSet
  <2>2. m.src \in Proc /\ m.call \in Calls /\ m.call \in Nat /\ m.count \in Nat
    BY <2>0, ConstAssumption DEF Calls
  <2>3. CASE Overlooked(m)
    BY <1>1, <1>2, <1>5, <2>1, <2>2, <2>3 DEF Overlooked
  <2>4. CASE Awaited(m)
    <3>1. m.call = call[p] /\ Payload(m) \notin Due(p, call[p])
      BY <1>4, <1>5, <2>4 DEF IInv, Messages, FlightInv, Awaited
    <3>2. Payload(m) \in Addressed(p, call[p])
      BY <1>5, <2>2, <3>1 DEF IInv, Messages, FlightInv, Payload, Addressed
    <3>3. method[call[p]] = "alltoallv_personalized" /\ ~ (m.count > 0)
      BY <3>1, <3>2 DEF Due, Payload
    <3>. QED  BY <1>1, <1>2, <1>5, <2>1, <2>2, <3>1, <3>3 DEF Overlooked
  <2>. QED  BY <1>5, <2>3, <2>4 DEF IInv, Messages, FlightInv
<1>6. ASSUME NEW m \in flight, m.src = p, method[m.call] = "nonblocking"
      PROVE  sync'[p] < m.call
  BY <1>1, <1>6 DEF IInv, Messages, FlightInv
<1>. QED  BY <1>1, <1>3, <1>4, <1>5, <1>6, QuietStep

LEMMA PollStep ==
  ASSUME IInv, NEW p \in Proc,
         IprobeNothing(p) \/ TestIncomplete(p) \/ Testall(p)
  PROVE  Messages'
<1>1. /\ UNCHANGED <<method, call, commTag, tag, sends, flight, got>>
      /\ pc' = [pc EXCEPT ![p] = pc'[p]]
      /\ pc[p] \in {"iprobe", "test"} /\ pc'[p] \in {"iprobe", "test"}
      /\ \A q \in Proc : q # p => sync'[q] = sync[q]
  BY DEF IprobeNothing, TestIncomplete, Testall, IInv, Ranks, Typed, TypeOK
<1>2. ASSUME NEW m \in flight, m.dst = p, method[m.call] # "nonblocking"
      PROVE  Overlooked(m)'
  <2>1. Overlooked(m)
    BY <1>1, <1>2 DEF IInv, Messages, FlightInv, Awaited
  <2>2. Returned(p)' = Returned(p)
    BY <1>1 DEF Returned, IInv, Ranks, Typed, TypeOK
  <2>. QED  BY <1>1, <1>2, <2>1, <2>2 DEF Overlooked
<1>3. ASSUME NEW m \in flight, m.src = p, method[m.call] = "nonblocking"
      PROVE  sync'[p] < m.call
  <2>1. sync[p] < m.call /\ m.call = call[p]
    BY <1>3 DEF IInv, Messages, FlightInv
  <2>2. ~ Testall(p)
    BY <1>3, <2>1 DEF Testall, Unmatched
  <2>3. sync' = sync
    BY <2>2 DEF IprobeNothing, TestIncomplete
  <2>. QED  BY <2>1, <2>3
<1>. QED  BY <1>1, <1>2, <1>3, QuietStep

LEMMA TestBarrierStep ==
  ASSUME IInv, NEW p \in Proc, TestBarrier(p)
  PROVE  Messages'
<1> DEFINE c == call[p]
<1>1. /\ UNCHANGED <<method, call, commTag, tag, sends, flight, got, sync>>
      /\ pc' = [pc EXCEPT ![p] = pc'[p]] /\ pc[p] = "test" /\ pc'[p] = "idle"
      /\ \A q \in Proc : sync[q] >= c
  BY DEF TestBarrier, IInv, Ranks, Typed, TypeOK
<1>2. c \in Calls /\ method[c] = "nonblocking"
  BY <1>1 DEF IInv, Ranks, Typed, InCall, Control
<1>3. ASSUME NEW m \in flight, m.dst = p, method[m.call] # "nonblocking"
      PROVE  Overlooked(m)'
  <2>1. Overlooked(m)
    BY <1>1, <1>3 DEF IInv, Messages, FlightInv, Awaited
  <2>0. m.call \in Calls
    BY DEF IInv, Ranks, Typed, TypeOK, MessageSet
  <2>2. Returned(p) = c - 1 /\ Returned(p)' = c /\ c \in Nat /\ m.call \in Nat
    BY <1>1, <1>2, <2>0, ConstAssumption DEF Returned, IInv, Ranks, Typed, TypeOK, Calls
  <2>. QED  BY <1>1, <1>3, <2>1, <2>2 DEF Overlooked
<1>4. ASSUME NEW m \in flight, m.src = p, method[m.call] = "nonblocking"
      PROVE  sync'[p] < m.call
  BY <1>1, <1>4 DEF IInv, Messages, FlightInv
<1>5. ASSUME NEW q \in Proc, p \in DOMAIN sends[q][c]
      PROVE  [src |-> q, call |-> c, count |-> sends[q][c][p]] \in got[p][c]
  <2> DEFINE y == [src |-> q, call |-> c, count |-> sends[q][c][p]]
  <2>1. c <= call[q]
    <3>1. sync[q] >= c
      BY <1>1
    <3>2. sync[q] <= call[q]
      BY Lockstep DEF IInv, Ranks
    <3>3. c \in Nat /\ sync[q] \in Nat /\ call[q] \in Nat
      BY ConstAssumption DEF IInv, Ranks, Typed, TypeOK
    <3>. QED  BY <3>1, <3>2, <3>3
  <2>2. Posted(q, c)
    BY <1>2, <2>1 DEF Posted, IInv, Ranks, Control
  <2>3. ASSUME NEW m \in flight, m.dst = p, Payload(m) = y PROVE FALSE
    <3>1. m.src = q /\ m.call = c
      BY <2>3 DEF Payload
    <3>2. sync[q] < c
      BY <1>2, <3>1 DEF IInv, Messages, FlightInv
    <3>. QED  BY <1>1, <1>2, <3>2, ConstAssumption DEF IInv, Ranks, Typed, TypeOK, Calls
  <2>. QED  BY <1>2, <1>5, <2>2, <2>3 DEF IInv, Messages, NothingLost
<1>6. got[p][c] = Addressed(p, c)
  <2>1. got[p][c] \subseteq Addressed(p, c)
    BY <1>2 DEF IInv, Messages, GotInv
  <2>2. Addressed(p, c) \subseteq got[p][c]
    BY <1>5 DEF Addressed
  <2>. QED  BY <2>1, <2>2
<1>7. Due(p, c) \subseteq Addressed(p, c)
  BY DEF Due
<1>. QED  BY <1>1, <1>3, <1>4, <1>6, <1>7, QuietStep
-----------------------------------------------------------------------------
(* A rank enters a call: what its earlier calls sent does not change. *)
LEMMA EnterFrame ==
  ASSUME IInv, NEW p \in Proc, NEW s \in Patterns, Enter(p, s),
         pc' = [pc EXCEPT ![p] = pc'[p]], pc'[p] # "idle"
  PROVE  /\ call[p] + 1 \in Calls
         /\ ~ Posted(p, call[p] + 1)
         /\ call'[p] = call[p] + 1 /\ sends'[p][call[p] + 1] = s
         /\ \A q \in Proc : q # p => pc'[q] = pc[q] /\ call'[q] = call[q] /\ tag'[q] = tag[q]
         /\ \A q \in Proc, k \in Calls : Posted(q, k) => Posted(q, k)'
         /\ \A q \in Proc, k \in Calls :
              Posted(q, k)' => Posted(q, k) \/ (q = p /\ k = call[p] + 1 /\ pc'[p] # "allreduce")
         /\ \A q \in Proc, k \in Calls : Posted(q, k) => sends'[q][k] = sends[q][k]
         /\ \A q \in Proc : Returned(q)' = Returned(q)
         /\ \A r \in Proc, k \in Calls : k <= Returned(r) => Addressed(r, k)' = Addressed(r, k)
         /\ \A m \in flight : method[m.call] = "nonblocking" => m.src # p
         /\ \A m \in flight : method[m.call] # "nonblocking" => m.dst # p \/ Overlooked(m)
<1> USE DEF IInv, Ranks, Typed, TypeOK
<1>1. /\ call[p] + 1 \in Calls /\ pc[p] = "idle" /\ call[p] \in Nat
      /\ call'[p] = call[p] + 1 /\ sends'[p][call[p] + 1] = s
      /\ \A q \in Proc : q # p => pc'[q] = pc[q] /\ call'[q] = call[q] /\ tag'[q] = tag[q]
  BY ConstAssumption DEF Enter, Calls
<1>2. \A q \in Proc, k \in Calls :
        sends'[q][k] = IF q = p /\ k = call[p] + 1 THEN s ELSE sends[q][k]
  BY <1>1 DEF Enter
<1>3. ~ Posted(p, call[p] + 1)
  BY <1>1 DEF Posted
<1>4. \A q \in Proc, k \in Calls :
        Posted(q, k)' <=> Posted(q, k) \/ (q = p /\ k = call[p] + 1 /\ pc'[p] # "allreduce")
  <2> SUFFICES ASSUME NEW q \in Proc, NEW k \in Calls
               PROVE  Posted(q, k)' <=>
                        Posted(q, k) \/ (q = p /\ k = call[p] + 1 /\ pc'[p] # "allreduce")
    OBVIOUS
  <2>1. k \in Nat
    BY ConstAssumption DEF Calls
  <2>2. CASE q = p
    BY <1>1, <2>1, <2>2 DEF Posted
  <2>3. CASE q # p
    BY <1>1, <2>3 DEF Posted
  <2>. QED  BY <2>2, <2>3
<1>5. \A q \in Proc : Returned(q)' = Returned(q)
  <2>1. Returned(p)' = Returned(p)
    BY <1>1 DEF Returned
  <2>2. \A q \in Proc : q # p => Returned(q)' = Returned(q)
    BY <1>1 DEF Returned
  <2>. QED  BY <2>1, <2>2
<1>6. \A r \in Proc, k \in Calls : k <= Returned(r) => Addressed(r, k)' = Addressed(r, k)
  <2> SUFFICES ASSUME NEW r \in Proc, NEW k \in Calls, k <= Returned(r)
               PROVE  Addressed(r, k)' = Addressed(r, k)
    OBVIOUS
  <2>1. Returned(r) <= sync[p] /\ sync[p] <= call[p]
    BY Lockstep
  <2>2. k \in Nat /\ Returned(r) \in Int /\ sync[p] \in Nat
    BY ConstAssumption DEF Calls, Returned
  <2>3. k # call[p] + 1
    BY <1>1, <2>1, <2>2
  <2>. QED  BY <1>2, <2>3 DEF Addressed
<1>7. \A m \in flight : method[m.call] = "nonblocking" => m.src # p
  <2> SUFFICES ASSUME NEW m \in flight, method[m.call] = "nonblocking", m.src = p PROVE FALSE
    OBVIOUS
  <2>1. m.call = call[p] /\ sync[p] < m.call
    BY DEF Messages, FlightInv
  <2>. QED  BY <1>1, <2>1 DEF Control
<1>8. \A m \in flight : method[m.call] # "nonblocking" => m.dst # p \/ Overlooked(m)
  BY <1>1 DEF Messages, FlightInv, Awaited
<1>. QED  BY <1>1, <1>2, <1>3, <1>4, <1>5, <1>6, <1>7, <1>8

(* The invariants about messages when a rank posts the messages of a call. *)
LEMMA PostStep ==
  ASSUME IInv, NEW p \in Proc, NEW c \in Calls,
         sends'[p][c] \in Patterns \cup {<< >>},
         ~ Posted(p, c), Posted(p, c)', got' = got, method' = method,
         flight' = flight \cup Outgoing(p, c, CallTag(p, c), sends'[p][c]),
         \A q \in Proc, k \in Calls : Posted(q, k) => Posted(q, k)' /\ sends'[q][k] = sends[q][k],
         \A q \in Proc, k \in Calls : Posted(q, k)' => Posted(q, k) \/ (q = p /\ k = c),
         \A q \in Proc : Returned(q)' = Returned(q),
         \A r \in Proc, k \in Calls : k <= Returned(r) => Addressed(r, k)' = Addressed(r, k),
         \A m \in flight' :
           /\ method[m.call] = "nonblocking" =>
                m.call = call'[m.src] /\ sync'[m.src] < m.call
           /\ method[m.call] # "nonblocking" => Awaited(m)' \/ Overlooked(m)'
  PROVE  Messages'
<1>1. \A m \in flight : m \in MessageSet /\ m.src \in Proc /\ m.dst \in Proc /\ m.call \in Calls
  BY DEF IInv, Ranks, Typed, TypeOK, MessageSet
<1>2. GotInv'
  <2> SUFFICES ASSUME NEW r \in Proc, NEW k \in Calls, NEW z \in got[r][k]
               PROVE  z \in Addressed(r, k)' /\ Posted(z.src, k)'
    BY DEF GotInv
  <2>1. z \in Addressed(r, k) /\ Posted(z.src, k)
    BY DEF IInv, Messages, GotInv
  <2>2. PICK q \in Proc : /\ r \in DOMAIN sends[q][k]
                          /\ z = [src |-> q, call |-> k, count |-> sends[q][k][r]]
    BY <2>1 DEF Addressed
  <2>3. Posted(q, k)' /\ sends'[q][k] = sends[q][k]
    BY <2>1, <2>2
  <2>. QED  BY <2>2, <2>3 DEF Addressed
<1>3. FlightInv'
  <2> SUFFICES ASSUME NEW m \in flight' PROVE FlightInv!(m)'
    BY DEF FlightInv
  <2> SUFFICES /\ Posted(m.src, m.call)'
               /\ m.dst \in DOMAIN sends'[m.src][m.call]
               /\ m.count = sends'[m.src][m.call][m.dst]
               /\ Payload(m) \notin got[m.dst][m.call]
               /\ m.tag = CallTag(m.src, m.call)
    BY DEF Payload, CallTag
  <2>1. CASE m \in flight
    BY <1>1, <2>1 DEF IInv, Messages, FlightInv
  <2>2. CASE m \in Outgoing(p, c, CallTag(p, c), sends'[p][c])
    <3>1. /\ m.src = p /\ m.call = c /\ m.dst \in DOMAIN sends'[p][c]
          /\ m.count = sends'[p][c][m.dst] /\ m.tag = CallTag(p, c)
      BY <2>2 DEF Outgoing
    <3>2. m.dst \in Proc => Payload(m) \notin got[m.dst][c]
      BY <3>1 DEF IInv, Messages, GotInv, Payload
    <3>3. m.dst \in Proc
      BY <3>1, PatternType
    <3>. QED  BY <3>1, <3>2, <3>3
  <2>. QED  BY <2>1, <2>2
<1>4. NothingLost'
  <2> SUFFICES ASSUME NEW r \in Proc, NEW q \in Proc, NEW k \in Calls,
                      Posted(q, k)', r \in DOMAIN sends'[q][k]
               PROVE  LET z == [src |-> q, call |-> k, count |-> sends'[q][k][r]]
                      IN  z \in got[r][k] \/ \E n \in flight' : n.dst = r /\ Payload(n) = z
    BY DEF NothingLost, Payload
  <2>1. CASE Posted(q, k)
    <3>1. sends'[q][k] = sends[q][k]
      BY <2>1
    <3>. QED  BY <2>1, <3>1 DEF IInv, Messages, NothingLost
  <2>2. CASE q = p /\ k = c
    <3> DEFINE n == [src |-> p, dst |-> r, tag |-> CallTag(p, c), call |-> c, count |-> sends'[p][c][r]]
    <3>1. n \in flight'
      BY <2>2 DEF Outgoing
    <3>. QED  BY <2>2, <3>1 DEF Payload
  <2>. QED  BY <2>1, <2>2
<1>5. Exact'
  BY DEF IInv, Messages, Exact, Due
<1>. QED  BY <1>2, <1>3, <1>4, <1>5 DEF Messages

LEMMA EnterPersonalizedStep ==
  ASSUME IInv, NEW p \in Proc, NEW s \in Patterns, EnterPersonalized(p, s)
  PROVE  Messages'
<1>1. /\ Enter(p, s) /\ pc' = [pc EXCEPT ![p] = pc'[p]] /\ pc'[p] = "allreduce"
      /\ UNCHANGED <<method, flight, got>>
      /\ \A q \in Proc : q # p => sync'[q] = sync[q]
  BY DEF EnterPersonalized, IInv, Ranks, Typed, TypeOK
<1>2. /\ \A q \in Proc : q # p => pc'[q] = pc[q] /\ call'[q] = call[q] /\ tag'[q] = tag[q]
      /\ \A q \in Proc, k \in Calls : Posted(q, k)' <=> Posted(q, k)
      /\ \A q \in Proc, k \in Calls : Posted(q, k) => sends'[q][k] = sends[q][k]
      /\ \A q \in Proc : Returned(q)' = Returned(q)
      /\ \A r \in Proc, k \in Calls : k <= Returned(r) => Addressed(r, k)' = Addressed(r, k)
      /\ \A m \in flight : method[m.call] = "nonblocking" => m.src # p
      /\ \A m \in flight : method[m.call] # "nonblocking" => m.dst # p \/ Overlooked(m)
  BY <1>1, EnterFrame
<1>3. \A m \in flight : m \in MessageSet /\ m.src \in Proc /\ m.dst \in Proc /\ m.call \in Calls
  BY DEF IInv, Ranks, Typed, TypeOK, MessageSet
<1>4. FlightInv'
  <2> SUFFICES ASSUME NEW m \in flight PROVE FlightInv!(m)'
    BY <1>1 DEF FlightInv
  <2>1. /\ Posted(m.src, m.call)' /\ sends'[m.src][m.call] = sends[m.src][m.call]
    BY <1>2, <1>3 DEF IInv, Messages, FlightInv
  <2>2. method[m.call] = "nonblocking" =>
          m.call = call'[m.src] /\ sync'[m.src] < m.call
    BY <1>1, <1>2, <1>3 DEF IInv, Messages, FlightInv
  <2>3. method[m.call] # "nonblocking" => Awaited(m)' \/ Overlooked(m)'
    <3>1. CASE Overlooked(m)
      BY <1>1, <1>2, <1>3, <3>1 DEF Overlooked
    <3>2. CASE ~ Overlooked(m)
      BY <1>1, <1>2, <1>3, <3>2 DEF IInv, Messages, FlightInv, Awaited
    <3>. QED  BY <3>1, <3>2
  <2>. QED  BY <1>1, <2>1, <2>2, <2>3 DEF IInv, Messages, FlightInv, Payload, CallTag
<1>5. GotInv'
  <2> SUFFICES ASSUME NEW r \in Proc, NEW k \in Calls, NEW z \in got[r][k]
               PROVE  z \in Addressed(r, k)' /\ Posted(z.src, k)'
    BY <1>1 DEF GotInv
  <2>1. z \in Addressed(r, k) /\ Posted(z.src, k)
    BY DEF IInv, Messages, GotInv
  <2>2. PICK q \in Proc : /\ r \in DOMAIN sends[q][k]
                          /\ z = [src |-> q, call |-> k, count |-> sends[q][k][r]]
    BY <2>1 DEF Addressed
  <2>3. Posted(q, k)' /\ sends'[q][k] = sends[q][k]
    BY <1>2, <2>1, <2>2
  <2>. QED  BY <2>2, <2>3 DEF Addressed
<1>6. NothingLost'
  <2> SUFFICES ASSUME NEW r \in Proc, NEW q \in Proc, NEW k \in Calls,
                      Posted(q, k)', r \in DOMAIN sends'[q][k]
               PROVE  LET z == [src |-> q, call |-> k, count |-> sends'[q][k][r]]
                      IN  z \in got[r][k] \/ \E n \in flight : n.dst = r /\ Payload(n) = z
    BY <1>1 DEF NothingLost, Payload
  <2>1. Posted(q, k) /\ sends'[q][k] = sends[q][k]
    BY <1>2
  <2>. QED  BY <2>1 DEF IInv, Messages, NothingLost
<1>7. Exact'
  BY <1>1, <1>2 DEF IInv, Messages, Exact, Due
<1>. QED  BY <1>4, <1>5, <1>6, <1>7 DEF Messages

LEMMA EnterNonblockingStep ==
  ASSUME IInv, NEW p \in Proc, NEW s \in Patterns, EnterNonblocking(p, s)
  PROVE  Messages'
<1>0. PICK c \in Calls : c = call[p] + 1
  <2>1. call[p] + 1 \in Calls
    BY ConstAssumption DEF EnterNonblocking, Enter, Calls, IInv, Ranks, Typed, TypeOK
  <2>. QED  BY <2>1
<1>1. /\ Enter(p, s) /\ pc' = [pc EXCEPT ![p] = pc'[p]] /\ pc'[p] = "iprobe"
      /\ UNCHANGED <<method, got, sync>> /\ method[c] = "nonblocking"
      /\ flight' = flight \cup Outgoing(p, c, CallTag(p, c), s)
      /\ pc[p] = "idle" /\ call[p] \in Nat
  BY <1>0, ConstAssumption
  DEF EnterNonblocking, Enter, IInv, Ranks, Typed, TypeOK, TagByCall
<1>2. /\ c \in Calls /\ ~ Posted(p, c) /\ call'[p] = c /\ sends'[p][c] = s
      /\ \A q \in Proc : q # p => pc'[q] = pc[q] /\ call'[q] = call[q] /\ tag'[q] = tag[q]
      /\ \A q \in Proc, k \in Calls : Posted(q, k) => Posted(q, k)' /\ sends'[q][k] = sends[q][k]
      /\ \A q \in Proc, k \in Calls : Posted(q, k)' => Posted(q, k) \/ (q = p /\ k = c)
      /\ \A q \in Proc : Returned(q)' = Returned(q)
      /\ \A r \in Proc, k \in Calls : k <= Returned(r) => Addressed(r, k)' = Addressed(r, k)
      /\ \A m \in flight : method[m.call] = "nonblocking" => m.src # p
      /\ \A m \in flight : method[m.call] # "nonblocking" => m.dst # p \/ Overlooked(m)
  BY <1>0, <1>1, EnterFrame
<1>3. Posted(p, c)'
  BY <1>0, <1>1, <1>2 DEF Posted
<1>4. \A m \in flight : m \in MessageSet /\ m.src \in Proc /\ m.dst \in Proc
  BY DEF IInv, Ranks, Typed, TypeOK, MessageSet
<1>5. ASSUME NEW m \in flight'
      PROVE  /\ method[m.call] = "nonblocking" =>
                  m.call = call'[m.src] /\ sync'[m.src] < m.call
             /\ method[m.call] # "nonblocking" => Awaited(m)' \/ Overlooked(m)'
  <2>1. CASE m \in flight
    <3>1. CASE Overlooked(m)
      BY <1>1, <1>2, <1>4, <2>1, <3>1 DEF Overlooked
    <3>2. CASE ~ Overlooked(m)
      BY <1>1, <1>2, <1>4, <2>1, <3>2 DEF IInv, Messages, FlightInv, Awaited
    <3>. QED  BY <3>1, <3>2
  <2>2. CASE m \in Outgoing(p, c, CallTag(p, c), s)
    <3>1. m.src = p /\ m.call = c
      BY <2>2 DEF Outgoing
    <3>2. sync[p] = call[p]
      BY <1>1 DEF IInv, Ranks, Control
    <3>. QED  BY <1>0, <1>1, <1>2, <3>1, <3>2
  <2>. QED  BY <1>1, <2>1, <2>2
<1>6. /\ sends'[p][c] \in Patterns \cup {<< >>}
      /\ flight' = flight \cup Outgoing(p, c, CallTag(p, c), sends'[p][c])
  BY <1>1, <1>2
<1>. QED  BY <1>1, <1>2, <1>3, <1>5, <1>6, PostStep

(* Every rank that still awaits the messages of p's Allreduce is in p's call. *)
LEMMA AllreduceStep ==
  ASSUME IInv, NEW p \in Proc, Allreduce(p)
  PROVE  Messages'
<1> DEFINE c == call[p]
<1>1. /\ pc' = [pc EXCEPT ![p] = "probe"] /\ pc[p] = "allreduce"
      /\ UNCHANGED <<method, call, commTag, tag, sync, sends, got>>
      /\ flight' = flight \cup Outgoing(p, c, CallTag(p, c), sends[p][c])
      /\ \A q \in Proc : sync[q] >= c
  BY DEF Allreduce, IInv, Ranks, TagByCall
<1>2. /\ c \in Calls /\ c \in Nat /\ method[c] # "nonblocking"
      /\ sends[p][c] \in Patterns \cup {<< >>}
  BY <1>1, ConstAssumption DEF IInv, Ranks, Typed, TypeOK, InCall, Control
<1>3. /\ \A q \in Proc : q # p => pc'[q] = pc[q]
      /\ pc'[p] = "probe"
  BY <1>1 DEF IInv, Ranks, Typed, TypeOK
<1>4. ~ Posted(p, c) /\ Posted(p, c)'
  BY <1>1, <1>2, <1>3 DEF Posted
<1>5. \A q \in Proc, k \in Calls : Posted(q, k) => Posted(q, k)'
  BY <1>1, <1>3 DEF Posted
<1>6. \A q \in Proc, k \in Calls : Posted(q, k)' => Posted(q, k) \/ (q = p /\ k = c)
  BY <1>1, <1>3 DEF Posted
<1>7. \A q \in Proc : Returned(q)' = Returned(q)
  BY <1>1, <1>3 DEF Returned
<1>8. \A r \in Proc, k \in Calls : Addressed(r, k)' = Addressed(r, k)
  BY <1>1 DEF Addressed
<1>9. ASSUME NEW d \in DOMAIN sends[p][c]
      PROVE  /\ d \in Proc
             /\ \/ c = call[d] /\ pc[d] \in {"allreduce", "probe"}
                \/ /\ c <= Returned(d) /\ sends[p][c][d] = 0
                   /\ method[c] = "alltoallv_personalized"
  <2>1. d \in Proc /\ sends[p][c][d] \in Nat
    BY <1>2, ConstAssumption, PatternType
  <2>2. call[d] \in Nat /\ sync[d] \in Nat /\ pc[d] \in Locations
    BY <2>1, ConstAssumption DEF IInv, Ranks, Typed, TypeOK
  <2>3. ASSUME c <= Returned(d), ~ (sends[p][c][d] = 0 /\ method[c] = "alltoallv_personalized")
        PROVE  FALSE
    <3> DEFINE y == [src |-> p, call |-> c, count |-> sends[p][c][d]]
    <3>1. y \in Due(d, c)
      BY <2>1, <2>3 DEF Addressed, Due
    <3>2. y \in got[d][c]
      BY <1>2, <2>1, <2>3, <3>1 DEF IInv, Messages, Exact
    <3>3. Posted(p, c)
      BY <1>2, <2>1, <3>2 DEF IInv, Messages, GotInv
    <3>. QED  BY <1>4, <3>3
  <2>4. sync[d] >= c /\ sync[d] <= call[d]
    BY <1>1, <2>1, Lockstep DEF IInv, Ranks
  <2>5. ASSUME ~ (c <= Returned(d)) PROVE c = call[d] /\ pc[d] \in {"allreduce", "probe"}
    <3>1. c = call[d] /\ pc[d] # "idle"
      BY <1>2, <2>2, <2>4, <2>5 DEF Returned
    <3>. QED  BY <1>2, <2>1, <2>2, <3>1 DEF IInv, Ranks, Control, Locations
  <2>. QED  BY <2>1, <2>3, <2>5
<1>10. \A m \in flight : m \in MessageSet /\ m.src \in Proc /\ m.dst \in Proc
  BY DEF IInv, Ranks, Typed, TypeOK, MessageSet
<1>11. ASSUME NEW m \in flight'
       PROVE  /\ method[m.call] = "nonblocking" =>
                   m.call = call'[m.src] /\ sync'[m.src] < m.call
              /\ method[m.call] # "nonblocking" => Awaited(m)' \/ Overlooked(m)'
  <2>1. CASE m \in flight
    BY <1>1, <1>3, <1>7, <1>10, <2>1 DEF IInv, Messages, FlightInv, Awaited, Overlooked
  <2>2. CASE m \in Outgoing(p, c, CallTag(p, c), sends[p][c])
    <3>1. /\ m.src = p /\ m.call = c /\ m.dst \in DOMAIN sends[p][c]
          /\ m.count = sends[p][c][m.dst]
      BY <2>2 DEF Outgoing
    <3>2. m.dst \in Proc
      BY <1>9, <3>1
    <3>. QED  BY <1>1, <1>2, <1>3, <1>7, <1>9, <3>1, <3>2 DEF Awaited, Overlooked
  <2>. QED  BY <1>1, <2>1, <2>2
<1>. QED  BY <1>1, <1>2, <1>4, <1>5, <1>6, <1>7, <1>8, <1>11, PostStep
-----------------------------------------------------------------------------
LEMMA InvInit == Init => IInv
<1> SUFFICES ASSUME Init PROVE IInv
  OBVIOUS
<1>1. Typed
  BY TypedInit
<1>2. Control /\ Skew
  BY DEF Init, Control, Skew
<1>3. TagByCall
  BY DEF Init, TagByCall, CallTag
<1>4. FlightInv /\ GotInv
  BY DEF Init, FlightInv, GotInv
<1>5. NothingLost
  BY DEF Init, NothingLost
<1>6. Exact
  <2>1. \A p \in Proc, c \in Calls : ~ (c <= Returned(p))
    BY ConstAssumption DEF Init, Returned, Calls
  <2>. QED  BY <2>1 DEF Exact
<1>. QED  BY <1>1, <1>2, <1>3, <1>4, <1>5, <1>6 DEF IInv, Ranks, Messages

LEMMA InvStep == SameTagSpace /\ EmptiesApart /\ IInv /\ [Next]_vars => IInv'
<1> SUFFICES ASSUME SameTagSpace, EmptiesApart, IInv, [Next]_vars PROVE IInv'
  OBVIOUS
<1>1. Ranks'
  BY TypedStep, ControlStep, SkewStep, TagByCallStep DEF IInv, Ranks
<1>2. ASSUME NEW p \in Proc, ProbeRecv(p) \/ IprobeRecv(p) PROVE Messages'
  <2>1. PICK m \in Matching(p) : Receive(p, m)
    BY <1>2 DEF ProbeRecv, IprobeRecv
  <2>2. /\ pc[p] \in {"probe", "iprobe"} /\ pc' = [pc EXCEPT ![p] = pc'[p]]
        /\ (pc[p] = "probe" => pc'[p] = "probe") /\ (pc[p] = "iprobe" => pc'[p] = "test")
        /\ UNCHANGED <<method, call, commTag, tag, sync, sends>>
    BY <1>2 DEF ProbeRecv, IprobeRecv, IInv, Ranks, Typed, TypeOK
  <2>3. m \in flight /\ m.dst = p /\ m.call = call[p]
    BY <2>2, OwnCall DEF Matching
  <2>4. call[p] \in Calls
    BY <2>2 DEF IInv, Ranks, Typed, InCall
  <2>. QED  BY <2>1, <2>2, <2>3, <2>4, ReceiveStep
<1>3. ASSUME UNCHANGED vars PROVE Messages'
  BY <1>3 DEF vars, IInv, Messages, FlightInv, GotInv, NothingLost, Exact,
              Posted, Payload, Addressed, Returned,
              Awaited, Overlooked, Due, CallTag
<1>4. Messages'
  BY <1>2, <1>3, EnterPersonalizedStep, EnterNonblockingStep, AllreduceStep,
     WaitallStep, PollStep, TestBarrierStep DEF Next, Step, Finished
<1>. QED  BY <1>1, <1>4 DEF IInv

LEMMA Invariance ==
  ASSUME SameTagSpace, EmptiesApart
  PROVE  Spec => []IInv
<1>1. Init => IInv
  BY InvInit
<1>2. IInv /\ [Next]_vars => IInv'
  BY InvStep
<1>. QED  BY <1>1, <1>2, PTL DEF Spec
-----------------------------------------------------------------------------
(* No wildcard receive ever matches a message of another call, in any mix of *)
(* methods: get_tag is enough, with two tags where no message without        *)
(* elements can be left behind, with a tag for every call where one can.     *)
THEOREM TagsSeparate ==
  ASSUME SameTagSpace, EmptiesApart
  PROVE  Spec => []TagsSeparateCalls
<1>1. IInv => TagsSeparateCalls
  BY OwnCall DEF TagsSeparateCalls
<1>. QED  BY <1>1, Invariance, PTL

(* A rank out of its call has no message with data left to receive from the  *)
(* calls it has made, although others without data may still arrive.         *)
THEOREM LeavesNothing ==
  ASSUME SameTagSpace, EmptiesApart
  PROVE  Spec => []NothingLeftBehind
<1>1. ASSUME IInv PROVE NothingLeftBehind
  <2> SUFFICES ASSUME NEW p \in Proc, pc[p] = "idle", NEW m \in flight, m.dst = p,
                      m.count > 0
               PROVE  m.call > call[p]
    BY DEF NothingLeftBehind
  <2>1. m.src \in Proc /\ m.call \in Calls
    BY <1>1 DEF IInv, Ranks, Typed, TypeOK, MessageSet
  <2>2. method[m.call] = "nonblocking" /\ sync[m.src] < m.call
    BY <1>1 DEF IInv, Messages, FlightInv, Awaited, Overlooked
  <2>3. call[p] <= sync[m.src]
    BY <1>1, <2>1, Lockstep DEF IInv, Ranks
  <2>. QED
    BY <1>1, <2>1, <2>2, <2>3, ConstAssumption DEF IInv, Ranks, Typed, TypeOK, Calls
<1>. QED  BY <1>1, Invariance, PTL

(* A call that has returned delivered messages sent to its rank in that call *)
(* alone, and all of them but for messages without elements that a call      *)
(* counting elements did not wait for.                                       *)
THEOREM ExactDelivery ==
  ASSUME SameTagSpace, EmptiesApart
  PROVE  Spec => []Exact
<1>1. IInv => Exact
  BY DEF IInv, Messages
<1>. QED  BY <1>1, Invariance, PTL

(* No source is missing from the result of a call that counts messages or    *)
(* ends in a barrier, the sources that sent no element included, whatever    *)
(* the calls before it left in flight.                                       *)
THEOREM SourcesReported ==
  ASSUME SameTagSpace, EmptiesApart
  PROVE  Spec => []EmptyMessagesReported
<1>1. ASSUME IInv PROVE EmptyMessagesReported
  <2> SUFFICES ASSUME NEW p \in Proc, NEW c \in Calls,
                      c < call[p] \/ (c = call[p] /\ pc[p] = "idle"),
                      method[c] # "alltoallv_personalized"
               PROVE  got[p][c] = Addressed(p, c)
    BY DEF EmptyMessagesReported
  <2>1. c <= Returned(p)
    BY <1>1, ConstAssumption DEF Returned, IInv, Ranks, Typed, TypeOK, Calls
  <2>2. Due(p, c) = Addressed(p, c)
    BY DEF Due
  <2>. QED  BY <1>1, <2>1, <2>2 DEF IInv, Messages, Exact
<1>. QED  BY <1>1, Invariance, PTL
-----------------------------------------------------------------------------
(* The exchange implements CrsPromise. *)
LEMMA RefineInit == Init => Promise!Init
<1> SUFFICES ASSUME Init PROVE Promise!Init
  OBVIOUS
<1>1. \A p \in Proc : Returned(p) = 0
  BY DEF Init, Returned
<1>2. Calls = Promise!Calls
  BY DEF Calls, Promise!Calls
<1>. QED  BY <1>1, <1>2 DEF Init, Promise!Init

(* The result a rank has returned, and the calls it has returned from. *)
Given(p) == [c \in Calls |-> IF c <= Returned(p) THEN got[p][c] ELSE {}]

LEMMA RefineEnter ==
  ASSUME IInv, NEW p \in Proc, NEW s \in Patterns,
         EnterPersonalized(p, s) \/ EnterNonblocking(p, s)
  PROVE  Promise!Call(p, s)
<1>1. /\ pc[p] = "idle" /\ call[p] < MaxCalls /\ call' = [call EXCEPT ![p] = call[p] + 1]
      /\ sends' = [sends EXCEPT ![p][call[p] + 1] = s] /\ got' = got
      /\ pc' = [pc EXCEPT ![p] = pc'[p]] /\ pc'[p] # "idle"
  BY DEF EnterPersonalized, EnterNonblocking, Enter, IInv, Ranks, Typed, TypeOK
<1>2. \A q \in Proc : Returned(q)' = Returned(q)
  <2>1. call[p] \in Nat
    BY ConstAssumption DEF IInv, Ranks, Typed, TypeOK
  <2>2. Returned(p)' = Returned(p)
    BY <1>1, <2>1 DEF Returned, IInv, Ranks, Typed, TypeOK
  <2>3. \A q \in Proc : q # p => Returned(q)' = Returned(q)
    BY <1>1 DEF Returned, IInv, Ranks, Typed, TypeOK
  <2>. QED  BY <2>2, <2>3
<1>3. Returned(p) = call[p]
  BY <1>1 DEF Returned
<1>. QED  BY <1>1, <1>2, <1>3 DEF Promise!Call

LEMMA RefineReturn ==
  ASSUME IInv, Exact', NEW p \in Proc, Waitall(p) \/ TestBarrier(p)
  PROVE  Promise!Return(p)
<1>0. PICK c \in Calls : c = call[p] /\ c \in Nat
  BY ConstAssumption DEF Waitall, TestBarrier, IInv, Ranks, Typed, InCall, Calls
<1>1. /\ pc' = [pc EXCEPT ![p] = "idle"] /\ pc[p] # "idle"
      /\ UNCHANGED <<call, sends, got, sync>>
      /\ pc[p] = "probe" \/ \A q \in Proc : sync[q] >= c
  BY <1>0 DEF Waitall, TestBarrier
<1>2. /\ Returned(p) = c - 1 /\ Returned(p)' = c
      /\ \A q \in Proc : q # p => Returned(q)' = Returned(q)
  BY <1>0, <1>1 DEF Returned, IInv, Ranks, Typed, TypeOK
<1>3. \A q \in Proc : call[q] >= c
  <2> SUFFICES ASSUME NEW q \in Proc PROVE call[q] >= c
    OBVIOUS
  <2>1. sync[q] >= c /\ sync[q] <= call[q]
    BY <1>0, <1>1, Lockstep DEF IInv, Ranks
  <2>2. sync[q] \in Nat /\ call[q] \in Nat
    BY ConstAssumption DEF IInv, Ranks, Typed, TypeOK
  <2>. QED  BY <1>0, <2>1, <2>2
<1>4. got[p][c] \subseteq Addressed(p, c) /\ Due(p, c) \subseteq got[p][c]
  <2>1. Due(p, c)' \subseteq got'[p][c] /\ got'[p][c] \subseteq Addressed(p, c)'
    BY <1>0, <1>2 DEF Exact
  <2>2. method' = method
    BY DEF Waitall, TestBarrier
  <2>. QED  BY <1>1, <2>1, <2>2 DEF Addressed, Due
<1>5. Addressed(p, c) = Promise!Addressed(p, c)
  BY DEF Addressed, Promise!Addressed
<1>6. [q \in Proc |-> Returned(q)'] = [[q \in Proc |-> Returned(q)] EXCEPT ![p] = c]
  BY <1>2
<1>7. [q \in Proc |-> Given(q)'] = [[q \in Proc |-> Given(q)] EXCEPT ![p][c] = got[p][c]]
  <2>1. \A q \in Proc : q # p => Given(q)' = Given(q)
    BY <1>1, <1>2 DEF Given
  <2>2. Given(p)' = [Given(p) EXCEPT ![c] = got[p][c]]
    <3>1. \A k \in Calls : k \in Nat
      BY ConstAssumption DEF Calls
    <3>2. \A k \in Calls : k # c => (k <= c <=> k <= c - 1)
      BY <1>0, <3>1
    <3>3. Given(p)' = [k \in Calls |-> IF k <= c THEN got[p][k] ELSE {}]
      BY <1>1, <1>2 DEF Given
    <3>4. Given(p) = [k \in Calls |-> IF k <= c - 1 THEN got[p][k] ELSE {}]
      BY <1>2 DEF Given
    <3>5. c <= c
      BY <1>0
    <3>. QED  BY <1>0, <3>2, <3>3, <3>4, <3>5
  <2>. QED  BY <2>1, <2>2
<1>8. Promise!Carrying(Addressed(p, c)) \subseteq got[p][c]
  BY <1>4 DEF Promise!Carrying, Due
<1>9. [q \in Proc |-> Returned(q)][p] = c - 1 /\ c - 1 < c
  BY <1>0, <1>2
<1>10. got[p][c] \in SUBSET Addressed(p, c)
  BY <1>4
<1>. QED
  BY <1>0, <1>1, <1>3, <1>5, <1>6, <1>7, <1>8, <1>9, <1>10
  DEF Promise!Return, Given

LEMMA RefineStutter ==
  ASSUME IInv, NEW p \in Proc,
         Allreduce(p) \/ ProbeRecv(p) \/ IprobeRecv(p) \/ IprobeNothing(p)
           \/ Testall(p) \/ TestIncomplete(p)
  PROVE  UNCHANGED Promise!vars
<1>1. /\ pc[p] # "idle" /\ pc' = [pc EXCEPT ![p] = pc'[p]] /\ pc'[p] # "idle"
      /\ UNCHANGED <<call, sends>>
      /\ got' = got \/ \E m \in flight : got' = [got EXCEPT ![p][call[p]] = @ \cup {Payload(m)}]
  BY DEF Allreduce, ProbeRecv, IprobeRecv, IprobeNothing, Testall, TestIncomplete,
         Receive, Matching, IInv, Ranks, Typed, TypeOK
<1>2. \A q \in Proc : Returned(q)' = Returned(q)
  BY <1>1 DEF Returned, IInv, Ranks, Typed, TypeOK
<1>3. Returned(p) = call[p] - 1 /\ call[p] \in Nat
  BY <1>1, ConstAssumption DEF Returned, IInv, Ranks, Typed, TypeOK
<1>4. \A q \in Proc, c \in Calls : c <= Returned(q) => got'[q][c] = got[q][c]
  <2>1. \A c \in Calls : c <= Returned(p) => c # call[p]
    BY <1>3, ConstAssumption DEF Calls
  <2>2. CASE got' = got
    BY <2>2
  <2>3. ASSUME NEW m \in flight,
               got' = [got EXCEPT ![p][call[p]] = @ \cup {Payload(m)}],
               NEW q \in Proc, NEW c \in Calls, c <= Returned(q)
        PROVE  got'[q][c] = got[q][c]
    <3>1. q \in DOMAIN got /\ c \in DOMAIN got[q]
      BY DEF IInv, Ranks, Typed, TypeOK
    <3>2. CASE q = p
      BY <2>1, <2>3, <3>1, <3>2
    <3>3. CASE q # p
      BY <2>3, <3>1, <3>3
    <3>. QED  BY <3>2, <3>3
  <2>. QED  BY <1>1, <2>2, <2>3
<1>. QED  BY <1>1, <1>2, <1>4 DEF Promise!vars

THEOREM Refinement ==
  ASSUME SameTagSpace, EmptiesApart
  PROVE  Spec => KeepsPromise
<1>1. Init => Promise!Init
  BY RefineInit
<1>2. IInv /\ IInv' /\ [Next]_vars => [Promise!Next]_(Promise!vars)
  <2> SUFFICES ASSUME IInv, IInv', [Next]_vars PROVE [Promise!Next]_(Promise!vars)
    OBVIOUS
  <2>1. Exact'
    BY DEF IInv, Messages
  <2>2. ASSUME UNCHANGED vars PROVE UNCHANGED Promise!vars
    BY <2>2 DEF vars, Promise!vars, Returned
  <2>. QED
    BY <2>1, <2>2, RefineEnter, RefineReturn, RefineStutter
    DEF Next, Step, Finished, Promise!Next
<1>. QED  BY <1>1, <1>2, Invariance, PTL DEF Spec, KeepsPromise, Promise!Spec
=============================================================================
