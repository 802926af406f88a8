---------------------- MODULE NeighborPersistent_proofs ----------------------
(***************************************************************************)
(* Proofs about NeighborPersistent, for every set of ranks and of requests,   *)
(* of either kind, every topology and placement, and all programs that start   *)
(* and wait for each request in turn.  The invariant is about one edge at a     *)
(* time: how often its two ends have launched its step, and what that leaves   *)
(* in its buffers and its channel.                                           *)
(***************************************************************************)
EXTENDS NeighborPersistent, SequenceTheorems, TLAPS

InStart(p, q) == pc[p] = "S" /\ Call(p)[2] = q
InWait(p, q) == pc[p] \in {"R", "L"} /\ Call(p)[2] = q

(* How often p has launched a step of q, and whether it still has to wait for    *)
(* the last one.                                                             *)
Launched(p, q, step) ==
  CASE step = "G" -> IF InStart(p, q) THEN started[p][q] - 1 ELSE started[p][q]
    [] step = "R" -> IF InWait(p, q) THEN done[p][q] + 1 ELSE done[p][q]
    [] OTHER -> started[p][q]
Open(p, q, step) ==
  CASE step = "S" -> InStart(p, q)
    [] step = "G" -> started[p][q] # done[p][q] /\ ~ InStart(p, q) /\ ~ InWait(p, q)
    [] step = "R" -> InWait(p, q) /\ pc[p] = "R"
    [] OTHER -> started[p][q] # done[p][q]

(* How many messages have come over an edge.                                   *)
Got(e) == IF e \in receiving THEN Launched(e.dst, e.req, e.step) - 1
                             ELSE Launched(e.dst, e.req, e.step)

Typed ==
  /\ program \in Programs /\ eager \in BOOLEAN
  /\ pos \in [Proc -> Nat \ {0}]
  /\ pc \in [Proc -> {"call", "S", "R", "L"}]
  /\ started \in [Proc -> [Req -> Nat]] /\ done \in [Proc -> [Req -> Nat]]
  /\ sending \subseteq Edges /\ receiving \subseteq Edges
  /\ DOMAIN sendbuf = Edges /\ DOMAIN recvbuf = Edges /\ DOMAIN channel = Edges
  /\ DOMAIN out = Req /\ \A q \in Req : DOMAIN out[q] = Items[q]

(* The next call of p about q starts it, or waits for it.                       *)
Upcoming(p, q) ==
  \A k \in DOMAIN program[p] :
    /\ k >= pos[p] /\ program[p][k][2] = q
    /\ \A j \in pos[p] .. k - 1 : program[p][j][2] # q
    => program[p][k][1] = IF started[p][q] = done[p][q] THEN "start" ELSE "wait"

Turns(p) ==
  /\ pc[p] # "call" => /\ Running(p)
                       /\ Call(p)[1] = IF pc[p] = "S" THEN "start" ELSE "wait"
                       /\ started[p][Call(p)[2]] # done[p][Call(p)[2]]
  /\ \A q \in Req :
       /\ started[p][q] = done[p][q] \/ started[p][q] = done[p][q] + 1
       /\ pc[p] = "call" \/ Call(p)[2] # q => Upcoming(p, q)

(* The k-th message over an edge carries the data of the k-th Start; no end is     *)
(* more than the channel ahead of the other; what is active is still to be         *)
(* waited for; and unless sends are buffered, the one in the channel is active.    *)
EdgeInv(e) ==
  LET sent == Launched(e.src, e.req, e.step) IN
  /\ e \in sending => Open(e.src, e.req, e.step)
  /\ e \in receiving => Open(e.dst, e.req, e.step)
  /\ sent \in Nat /\ Launched(e.dst, e.req, e.step) \in Nat
  /\ Got(e) \in Nat /\ channel[e] \in Seq([Load[e] -> Nat])
  /\ sent = Got(e) + Len(channel[e])
  /\ \A j \in 1 .. Len(channel[e]) : channel[e][j] = Constantly(e, Got(e) + j)
  /\ sendbuf[e] = Constantly(e, sent) /\ recvbuf[e] = Constantly(e, Got(e))
  /\ ~ eager => Len(channel[e]) = IF e \in sending THEN 1 ELSE 0

(* What the user's buffer holds of a pair.                                     *)
OutInv(q, i) ==
  out[q][i] = IF Kind[q] = "standard" THEN Got(Edge(q, i, "G"))
              ELSE IF Hop(q, i, "R") # << >> /\ pc[i[2]] = "L" /\ Call(i[2])[2] = q
              THEN done[i[2]][q] + 1
              ELSE done[i[2]][q]

IInv ==
  /\ Typed
  /\ \A p \in Proc : Turns(p) /\ (pc[p] = "S" => Kind[Call(p)[2]] # "standard")
  /\ \A e \in Edges : EdgeInv(e)
  /\ \A q \in Req : \A i \in Items[q] : OutInv(q, i)
-----------------------------------------------------------------------------
(* The way of a pair's data.                                                 *)
LEMMA Pairs ==
  ASSUME NEW q \in Req, NEW i \in Items[q]
  PROVE  i = <<i[1], i[2]>> /\ i[1] \in Proc /\ i[2] \in Proc /\ i # << >>
<1>1. i \in Proc \X Proc
  BY NeighborAssumption
<1>2. PICK a \in Proc, b \in Proc : i = <<a, b>>
  BY <1>1
<1>3. i[1] = a /\ i[2] = b /\ i # << >>
  BY <1>2
<1>. QED  BY <1>2, <1>3

LEMMA Standard ==
  ASSUME NEW q \in Req, NEW i \in Items[q], Kind[q] = "standard"
  PROVE  /\ Hop(q, i, "G") = i
         /\ Hop(q, i, "L") = << >> /\ Hop(q, i, "S") = << >> /\ Hop(q, i, "R") = << >>
BY Zenon DEF Hop

LEMMA WithinNode ==
  ASSUME NEW q \in Req, NEW i \in Items[q], Kind[q] # "standard", Node[i[1]] = Node[i[2]]
  PROVE  /\ Hop(q, i, "L") = i
         /\ Hop(q, i, "S") = << >> /\ Hop(q, i, "G") = << >> /\ Hop(q, i, "R") = << >>
<1>1. Kind[q] = "locality"
  BY NeighborAssumption
<1>. QED  BY <1>1, Zenon DEF Hop

LEMMA AcrossNodes ==
  ASSUME NEW q \in Req, NEW i \in Items[q], Kind[q] # "standard", Node[i[1]] # Node[i[2]]
  PROVE  \E a \in Proc, b \in Proc :
           /\ Hop(q, i, "S") = <<i[1], a>> /\ Hop(q, i, "G") = <<a, b>>
           /\ Hop(q, i, "R") = <<b, i[2]>> /\ Hop(q, i, "L") = << >>
<1> DEFINE v == Via[q][Node[i[1]], Node[i[2]]]
<1>1. v.send \in Proc /\ v.recv \in Proc
  BY NeighborAssumption
<1>2. /\ Hop(q, i, "S") = <<i[1], v.send>> /\ Hop(q, i, "G") = <<v.send, v.recv>>
      /\ Hop(q, i, "R") = <<v.recv, i[2]>> /\ Hop(q, i, "L") = << >>
  BY Zenon DEF Hop
<1>. QED  BY <1>1, <1>2

LEMMA HopsArePairs ==
  ASSUME NEW q \in Req, NEW i \in Items[q], NEW s \in Steps, Hop(q, i, s) # << >>
  PROVE  \E a \in Proc, b \in Proc : Hop(q, i, s) = <<a, b>>
<1>1. s \in {"L", "S", "G", "R"}
  BY DEF Steps
<1>2. CASE Kind[q] = "standard"
  BY <1>1, <1>2, Standard, Pairs
<1>3. CASE Kind[q] # "standard" /\ Node[i[1]] = Node[i[2]]
  BY <1>1, <1>3, WithinNode, Pairs
<1>4. CASE Kind[q] # "standard" /\ Node[i[1]] # Node[i[2]]
  BY <1>1, <1>4, AcrossNodes, Pairs
<1>. QED  BY <1>2, <1>3, <1>4

LEMMA Carries ==
  ASSUME NEW q \in Req, NEW i \in Items[q], NEW s \in Steps, NEW a, NEW b, Hop(q, i, s) = <<a, b>>
  PROVE  LET e == Edge(q, i, s) IN
         /\ e \in Edges /\ e = [req |-> q, step |-> s, src |-> a, dst |-> b]
         /\ e.req = q /\ e.step = s /\ e.src = a /\ e.dst = b /\ i \in Load[e]
<1> DEFINE e == Edge(q, i, s)
<1>1. <<a, b>> # << >> /\ <<a, b>>[1] = a /\ <<a, b>>[2] = b
  OBVIOUS
<1>2. e = [req |-> q, step |-> s, src |-> a, dst |-> b]
  BY <1>1 DEF Edge
<1>3. a \in Proc /\ b \in Proc
  BY HopsArePairs, <1>1
<1>4. e \in Edges
  BY <1>2, <1>3 DEF Edges
<1>5. Load[e] = { j \in Items[e.req] : Hop(e.req, j, e.step) = <<e.src, e.dst>> }
  BY <1>4 DEF Load
<1>. QED  BY <1>2, <1>4, <1>5

LEMMA EdgeShape ==
  ASSUME NEW e \in Edges
  PROVE  /\ e.req \in Req /\ e.step \in Steps /\ e.src \in Proc /\ e.dst \in Proc
         /\ \E i \in Items[e.req] : Hop(e.req, i, e.step) = <<e.src, e.dst>>
         /\ Load[e] = { i \in Items[e.req] : Hop(e.req, i, e.step) = <<e.src, e.dst>> }
BY DEF Edges, Load

(* What has brought the data that a rank sends on.                             *)
LEMMA Before ==
  ASSUME NEW e \in Edges, NEW i \in Load[e], e.step \in {"G", "R"}, Kind[e.req] # "standard"
  PROVE  LET f == Edge(e.req, i, IF e.step = "G" THEN "S" ELSE "G") IN
         /\ f \in Edges /\ f.req = e.req /\ f.dst = e.src /\ i \in Load[f]
         /\ f.step = IF e.step = "G" THEN "S" ELSE "G"
<1>1. e.req \in Req /\ i \in Items[e.req] /\ Hop(e.req, i, e.step) = <<e.src, e.dst>>
  BY EdgeShape
<1>2. Node[i[1]] # Node[i[2]]
  BY <1>1, WithinNode
<1>3. PICK a \in Proc, b \in Proc :
        /\ Hop(e.req, i, "S") = <<i[1], a>> /\ Hop(e.req, i, "G") = <<a, b>>
        /\ Hop(e.req, i, "R") = <<b, i[2]>> /\ Hop(e.req, i, "L") = << >>
  BY <1>1, <1>2, AcrossNodes
<1>4. CASE e.step = "G"
  <2>1. e.src = a
    BY <1>1, <1>3, <1>4
  <2>. QED  BY <1>1, <1>3, <1>4, <2>1, Carries DEF Steps
<1>5. CASE e.step = "R"
  <2>1. e.src = b
    BY <1>1, <1>3, <1>5
  <2>. QED  BY <1>1, <1>3, <1>5, <2>1, Carries DEF Steps
<1>. QED  BY <1>4, <1>5
-----------------------------------------------------------------------------
(* What a step of rank p does to the ends of an edge: those in E it launches    *)
(* once more, those in C it has waited for.                                   *)
EndMoves(r, e, p, E, C) ==
  /\ Launched(r, e.req, e.step)' =
       Launched(r, e.req, e.step) + IF r = p /\ e \in E THEN 1 ELSE 0
  /\ r = p /\ e \in E => ~ Open(r, e.req, e.step) /\ Open(r, e.req, e.step)'
  /\ Open(r, e.req, e.step) /\ ~ (r = p /\ e \in C) => Open(r, e.req, e.step)'

(* What it does to its buffers and its channel.                                *)
Touched(e, p, E, datum) ==
  LET S == e \in E /\ e.src = p IN
  /\ sendbuf'[e] = IF S THEN datum ELSE sendbuf[e]
  /\ channel'[e] = IF S THEN Append(channel[e], datum) ELSE channel[e]
  /\ e \in sending' <=> e \in sending \/ (S /\ ~ eager)
  /\ e \in receiving' <=> e \in receiving \/ (e \in E /\ e.dst = p)
  /\ recvbuf'[e] = recvbuf[e]
  /\ eager' <=> eager

LEMMA Appended ==
  ASSUME NEW T, NEW s \in Seq(T), NEW x \in T
  PROVE  /\ Append(s, x) \in Seq(T) /\ Len(s) \in Nat /\ Len(Append(s, x)) = Len(s) + 1
         /\ \A j \in 1 .. Len(s) + 1 : Append(s, x)[j] = IF j = Len(s) + 1 THEN x ELSE s[j]
<1>1. Len(s) \in Nat
  BY LenProperties
<1>. QED  BY <1>1

LEMMA StartallTouches ==
  ASSUME NEW p \in Proc, NEW E \in SUBSET Edges, NEW data, Startall(p, E, data),
         recvbuf' = recvbuf, eager' = eager, NEW e \in Edges
  PROVE  Touched(e, p, E, data[e])
<1>1. /\ sendbuf'[e] = IF e \in E /\ e.src = p THEN data[e] ELSE sendbuf[e]
      /\ channel'[e] = IF e \in E /\ e.src = p THEN Append(channel[e], data[e]) ELSE channel[e]
  BY DEF Startall
<1>2. e \in sending' <=> e \in sending \/ (e \in E /\ e.src = p /\ ~ eager)
  BY DEF Startall
<1>3. e \in receiving' <=> e \in receiving \/ (e \in E /\ e.dst = p)
  BY DEF Startall
<1>. QED  BY <1>1, <1>2, <1>3 DEF Touched

LEMMA EdgeKeeps ==
  ASSUME NEW e \in Edges, EdgeInv(e), NEW p \in Proc, NEW E, NEW C, NEW datum,
         Touched(e, p, E, datum),
         EndMoves(e.src, e, p, E, C), EndMoves(e.dst, e, p, E, C),
         e \in C /\ e.src = p => e \notin sending,
         e \in C /\ e.dst = p => e \notin receiving,
         e \in E /\ e.src = p => datum = Constantly(e, Launched(e.src, e.req, e.step) + 1)
  PROVE  EdgeInv(e)' /\ Got(e)' = Got(e)
<1> DEFINE sent == Launched(e.src, e.req, e.step)
           had == Launched(e.dst, e.req, e.step)
<1>a. PICK a \in {0, 1} : a = 1 <=> e \in E /\ e.src = p
  OBVIOUS
<1>b. PICK b \in {0, 1} : b = 1 <=> e \in E /\ e.dst = p
  OBVIOUS
<1>1. /\ sent' = sent + a
      /\ a = 1 => ~ Open(e.src, e.req, e.step) /\ Open(e.src, e.req, e.step)'
      /\ Open(e.src, e.req, e.step) /\ ~ (e.src = p /\ e \in C) => Open(e.src, e.req, e.step)'
      /\ had' = had + b
      /\ b = 1 => ~ Open(e.dst, e.req, e.step) /\ Open(e.dst, e.req, e.step)'
      /\ Open(e.dst, e.req, e.step) /\ ~ (e.dst = p /\ e \in C) => Open(e.dst, e.req, e.step)'
  BY <1>a, <1>b DEF EndMoves
<1>2. /\ e \in sending => Open(e.src, e.req, e.step)
      /\ e \in receiving => Open(e.dst, e.req, e.step)
      /\ sent \in Nat /\ had \in Nat /\ Got(e) \in Nat /\ channel[e] \in Seq([Load[e] -> Nat])
      /\ sent = Got(e) + Len(channel[e])
      /\ \A j \in 1 .. Len(channel[e]) : channel[e][j] = Constantly(e, Got(e) + j)
      /\ sendbuf[e] = Constantly(e, sent) /\ recvbuf[e] = Constantly(e, Got(e))
      /\ ~ eager => Len(channel[e]) = IF e \in sending THEN 1 ELSE 0
  BY DEF EdgeInv
<1>3. /\ sendbuf'[e] = IF a = 1 THEN datum ELSE sendbuf[e]
      /\ channel'[e] = IF a = 1 THEN Append(channel[e], datum) ELSE channel[e]
      /\ e \in sending' <=> e \in sending \/ (a = 1 /\ ~ eager)
      /\ e \in receiving' <=> e \in receiving \/ b = 1
      /\ recvbuf'[e] = recvbuf[e]
      /\ eager' <=> eager
  BY <1>a, <1>b DEF Touched
<1>. HIDE DEF sent, had
<1>4. /\ e \in sending' => Open(e.src, e.req, e.step)'
      /\ e \in receiving' => Open(e.dst, e.req, e.step)'
  BY <1>1, <1>2, <1>3
<1>5. sent' \in Nat /\ had' \in Nat
  BY <1>1, <1>2
<1>6. Got(e)' = Got(e)
  <2>1. Got(e) = (IF e \in receiving THEN had - 1 ELSE had)
        /\ Got(e)' = IF e \in receiving' THEN had' - 1 ELSE had'
    BY DEF Got, had
  <2>2. CASE b = 1
    BY <2>1, <2>2, <1>1, <1>2, <1>3
  <2>3. CASE b = 0
    BY <2>1, <2>3, <1>1, <1>2, <1>3
  <2>. QED  BY <2>2, <2>3
<1>7. a = 1 => datum = Constantly(e, sent + 1) /\ Constantly(e, sent + 1) \in [Load[e] -> Nat]
  <2>1. a = 1 => datum = Constantly(e, sent + 1)
    BY <1>a DEF sent
  <2>2. sent + 1 \in Nat
    BY <1>2
  <2>. QED  BY <2>1, <2>2 DEF Constantly
<1>8. /\ channel'[e] \in Seq([Load[e] -> Nat])
      /\ Len(channel[e]) \in Nat
      /\ Len(channel'[e]) = Len(channel[e]) + a
      /\ \A j \in 1 .. Len(channel'[e]) :
           channel'[e][j] = IF a = 1 /\ j = Len(channel[e]) + 1 THEN datum ELSE channel[e][j]
  <2>1. Len(channel[e]) \in Nat
    BY <1>2, LenProperties
  <2>2. CASE a = 1
    <3>1. datum \in [Load[e] -> Nat]
      BY <1>7, <2>2
    <3>2. /\ Append(channel[e], datum) \in Seq([Load[e] -> Nat])
          /\ Len(Append(channel[e], datum)) = Len(channel[e]) + 1
          /\ \A j \in 1 .. Len(channel[e]) + 1 :
               Append(channel[e], datum)[j] = IF j = Len(channel[e]) + 1 THEN datum ELSE channel[e][j]
      BY <1>2, <3>1, Appended
    <3>. QED  BY <1>3, <2>1, <2>2, <3>2
  <2>3. CASE a = 0
    <3>1. channel'[e] = channel[e]
      BY <1>3, <2>3
    <3>. QED  BY <1>2, <2>1, <2>3, <3>1
  <2>. QED  BY <2>2, <2>3
<1>9. sent' = Got(e)' + Len(channel'[e])
  BY <1>1, <1>2, <1>6, <1>8
<1>10. \A j \in 1 .. Len(channel'[e]) : channel'[e][j] = Constantly(e, Got(e)' + j)
  <2>. SUFFICES ASSUME NEW j \in 1 .. Len(channel'[e])
                PROVE  channel'[e][j] = Constantly(e, Got(e) + j)
    BY <1>6
  <2>1. CASE a = 1 /\ j = Len(channel[e]) + 1
    <3>1. sent + 1 = Got(e) + j
      BY <1>2, <1>8, <2>1
    <3>. QED  BY <1>7, <1>8, <2>1, <3>1
  <2>2. CASE ~ (a = 1 /\ j = Len(channel[e]) + 1)
    <3>1. j \in 1 .. Len(channel[e])
      BY <1>8, <2>2
    <3>. QED  BY <1>2, <1>8, <2>2, <3>1
  <2>. QED  BY <2>1, <2>2
<1>11. sendbuf'[e] = Constantly(e, sent') /\ recvbuf'[e] = Constantly(e, Got(e)')
  <2>1. CASE a = 1
    BY <1>1, <1>2, <1>3, <1>6, <1>7, <2>1
  <2>2. CASE a = 0
    <3>1. sent' = sent
      BY <1>1, <1>2, <2>2
    <3>. QED  BY <1>2, <1>3, <1>6, <2>2, <3>1
  <2>. QED  BY <2>1, <2>2
<1>12. ~ eager' => Len(channel'[e]) = IF e \in sending' THEN 1 ELSE 0
  BY <1>1, <1>2, <1>3, <1>8
<1>. QED
  BY <1>2, <1>4, <1>5, <1>6, <1>8, <1>9, <1>10, <1>11, <1>12 DEF EdgeInv, sent, had
-----------------------------------------------------------------------------
(* The call a rank is in.                                                     *)
LEMMA Programmed ==
  ASSUME Typed, NEW p \in Proc
  PROVE  /\ DOMAIN program[p] = 1 .. Len(program[p]) /\ Len(program[p]) \in Nat
         /\ \A k \in DOMAIN program[p] :
              program[p][k][1] \in {"start", "wait"} /\ program[p][k][2] \in Req
<1>1. program[p] \in Seq({"start", "wait"} \X Req)
  BY NeighborAssumption DEF Typed
<1>2. DOMAIN program[p] = 1 .. Len(program[p]) /\ Len(program[p]) \in Nat
  BY <1>1, LenProperties
<1>3. \A k \in 1 .. Len(program[p]) : program[p][k] \in {"start", "wait"} \X Req
  BY <1>1, ElementOfSeq
<1>. QED  BY <1>2, <1>3

LEMMA CallTyped ==
  ASSUME Typed, NEW p \in Proc, Running(p)
  PROVE  pos[p] \in DOMAIN program[p] /\ Call(p)[1] \in {"start", "wait"} /\ Call(p)[2] \in Req
<1>1. pos[p] \in Nat /\ pos[p] >= 1 /\ pos[p] <= Len(program[p])
  BY DEF Typed, Running
<1>. QED  BY <1>1, Programmed DEF Call

LEMMA CallTurn ==
  ASSUME Typed, NEW p \in Proc, Turns(p), Running(p)
  PROVE  LET q == Call(p)[2] IN
         /\ q \in Req /\ started[p][q] \in Nat /\ done[p][q] \in Nat
         /\ started[p][q] = done[p][q] \/ started[p][q] = done[p][q] + 1
         /\ pc[p] = "call" => (Call(p)[1] = "start" <=> started[p][q] = done[p][q])
         /\ pc[p] # "call" => started[p][q] = done[p][q] + 1
         /\ Call(p)[1] \in {"start", "wait"}
<1> DEFINE q == Call(p)[2]
<1>1. pos[p] \in DOMAIN program[p] /\ q \in Req /\ Call(p)[1] \in {"start", "wait"}
  BY CallTyped
<1>2. started[p][q] \in Nat /\ done[p][q] \in Nat
  BY <1>1 DEF Typed
<1>3. started[p][q] = done[p][q] \/ started[p][q] = done[p][q] + 1
  BY <1>1 DEF Turns
<1>4. ASSUME pc[p] = "call"
      PROVE  Call(p)[1] = IF started[p][q] = done[p][q] THEN "start" ELSE "wait"
  <2>1. Upcoming(p, q)
    BY <1>1, <1>4 DEF Turns
  <2>2. pos[p] \in Nat
    BY DEF Typed
  <2>3. \A j \in pos[p] .. pos[p] - 1 : program[p][j][2] # q
    BY <2>2
  <2>. QED  BY <1>1, <2>1, <2>2, <2>3 DEF Upcoming, Call
<1>5. pc[p] # "call" => started[p][q] # done[p][q]
  BY DEF Turns
<1>. QED  BY <1>1, <1>2, <1>3, <1>4, <1>5

(* A step of one rank in one request leaves the ends of the others alone.         *)
LEMMA SameEnd ==
  ASSUME NEW r, NEW q,
         started'[r][q] = started[r][q], done'[r][q] = done[r][q],
         InStart(r, q)' <=> InStart(r, q), InWait(r, q)' <=> InWait(r, q),
         (InWait(r, q) /\ pc[r] = "R")' <=> InWait(r, q) /\ pc[r] = "R",
         NEW s
  PROVE  Launched(r, q, s)' = Launched(r, q, s) /\ (Open(r, q, s)' <=> Open(r, q, s))
<1>1. Launched(r, q, s)' = Launched(r, q, s)
  BY Zenon DEF Launched
<1>2. Open(r, q, s)' <=> Open(r, q, s)
  BY Zenon DEF Open
<1>. QED  BY <1>1, <1>2

LEMMA OthersStay ==
  ASSUME NEW p \in Proc, Typed, Typed', program' = program,
         \A r \in Proc : r # p =>
           /\ pos'[r] = pos[r] /\ pc'[r] = pc[r]
           /\ started'[r] = started[r] /\ done'[r] = done[r],
         \A q \in Req : q # Call(p)[2] =>
           started'[p][q] = started[p][q] /\ done'[p][q] = done[p][q],
         pc'[p] = "call" \/ Call(p)' = Call(p),
         NEW r \in Proc, NEW q \in Req, ~ (r = p /\ q = Call(p)[2]), NEW s
  PROVE  Launched(r, q, s)' = Launched(r, q, s) /\ (Open(r, q, s)' <=> Open(r, q, s))
<1>1. started'[r][q] = started[r][q] /\ done'[r][q] = done[r][q]
  OBVIOUS
<1>2. CASE r # p
  <2>1. Call(r)' = Call(r) /\ pc'[r] = pc[r]
    BY <1>2 DEF Call
  <2>. QED  BY <1>1, <2>1, SameEnd DEF InStart, InWait
<1>3. CASE r = p /\ q # Call(p)[2]
  <2>1. ~ InStart(p, q) /\ ~ InWait(p, q)
    BY <1>3 DEF InStart, InWait
  <2>2. ~ InStart(p, q)' /\ ~ InWait(p, q)'
    BY <1>3 DEF InStart, InWait
  <2>. QED  BY <1>1, <1>3, <2>1, <2>2, SameEnd
<1>. QED  BY <1>2, <1>3

LEMMA StaysPut ==
  ASSUME NEW r, NEW e, NEW p, NEW E, NEW C, ~ (r = p /\ e \in E),
         Launched(r, e.req, e.step) \in Nat,
         Launched(r, e.req, e.step)' = Launched(r, e.req, e.step),
         Open(r, e.req, e.step)' <=> Open(r, e.req, e.step)
  PROVE  EndMoves(r, e, p, E, C)
BY DEF EndMoves
-----------------------------------------------------------------------------
LEMMA StartallTyped ==
  ASSUME Typed, NEW p, NEW E, NEW data, E \subseteq Edges, Startall(p, E, data)
  PROVE  /\ sending' \subseteq Edges /\ receiving' \subseteq Edges
         /\ DOMAIN sendbuf' = Edges /\ DOMAIN channel' = Edges
BY DEF Typed, Startall

LEMMA MineIsEdges ==
  ASSUME NEW p, NEW q, NEW S
  PROVE  Mine(p, q, S) \subseteq Edges
BY DEF Mine

LEMMA TypedStep ==
  ASSUME Typed, \A p \in Proc : Turns(p), Next
  PROVE  Typed'
<1>1. ASSUME NEW p \in Proc, Start(p)
      PROVE  Typed'
  <2> DEFINE q == Call(p)[2]
  <2>1. PICK E : E \subseteq Edges /\ Startall(p, E, [e \in E |-> Constantly(e, started[p][q] + 1)])
    BY <1>1, MineIsEdges DEF Start
  <2>2. /\ sending' \subseteq Edges /\ receiving' \subseteq Edges
        /\ DOMAIN sendbuf' = Edges /\ DOMAIN channel' = Edges
    BY <2>1, StartallTyped
  <2>3. q \in Req
    BY <1>1, CallTyped DEF Start, About
  <2>4. started' \in [Proc -> [Req -> Nat]]
    BY <1>1, <2>3 DEF Start, Typed
  <2>5. pos' \in [Proc -> Nat \ {0}] /\ pc' \in [Proc -> {"call", "S", "R", "L"}]
    <3>1. Return(p) \/ (pc' = [pc EXCEPT ![p] = "S"] /\ pos' = pos)
      BY <1>1 DEF Start
    <3>2. CASE Return(p)
      BY <3>2 DEF Typed, Return
    <3>3. CASE pc' = [pc EXCEPT ![p] = "S"] /\ pos' = pos
      BY <3>3 DEF Typed
    <3>. QED  BY <3>1, <3>2, <3>3
  <2>. QED  BY <1>1, <2>2, <2>4, <2>5 DEF Start, Typed
<1>2. ASSUME NEW p \in Proc, StartGlobal(p)
      PROVE  Typed'
  <2>1. PICK E, data : E \subseteq Edges /\ Startall(p, E, data)
    BY <1>2, MineIsEdges DEF StartGlobal
  <2>2. /\ sending' \subseteq Edges /\ receiving' \subseteq Edges
        /\ DOMAIN sendbuf' = Edges /\ DOMAIN channel' = Edges
    BY <2>1, StartallTyped
  <2>3. pos' \in [Proc -> Nat \ {0}] /\ pc' \in [Proc -> {"call", "S", "R", "L"}]
    BY <1>2 DEF StartGlobal, Typed, Return
  <2>. QED  BY <1>2, <2>2, <2>3 DEF StartGlobal, Typed
<1>3. ASSUME NEW p \in Proc, WaitGlobal(p)
      PROVE  Typed'
  <2>1. PICK E, data : E \subseteq Edges /\ Startall(p, E, data)
    BY <1>3, MineIsEdges DEF WaitGlobal
  <2>2. /\ sending' \subseteq Edges /\ receiving' \subseteq Edges
        /\ DOMAIN sendbuf' = Edges /\ DOMAIN channel' = Edges
    BY <2>1, StartallTyped
  <2>. QED  BY <1>3, <2>2 DEF WaitGlobal, Typed
<1>4. ASSUME NEW q, NEW p, NEW s, Unpack(p, q, s)
      PROVE  DOMAIN out' = Req /\ \A q2 \in Req : DOMAIN out'[q2] = Items[q2]
  BY <1>4 DEF Unpack, Typed
<1>5. ASSUME NEW p \in Proc, WaitLocalR(p)
      PROVE  Typed'
  <2>1. DOMAIN out' = Req /\ \A q2 \in Req : DOMAIN out'[q2] = Items[q2]
    BY <1>4, <1>5 DEF WaitLocalR
  <2>. QED  BY <1>5, <2>1 DEF WaitLocalR, Typed
<1>6. ASSUME NEW p \in Proc, WaitLocalL(p)
      PROVE  Typed'
  <2>1. DOMAIN out' = Req /\ \A q2 \in Req : DOMAIN out'[q2] = Items[q2]
    BY <1>4, <1>6 DEF WaitLocalL
  <2>2. Call(p)[2] \in Req
    BY <1>6, CallTyped DEF WaitLocalL, Turns
  <2>3. done' \in [Proc -> [Req -> Nat]]
    BY <1>6, <2>2 DEF WaitLocalL, Typed
  <2>4. pos' \in [Proc -> Nat \ {0}] /\ pc' \in [Proc -> {"call", "S", "R", "L"}]
    BY <1>6 DEF WaitLocalL, Typed, Return
  <2>. QED  BY <1>6, <2>1, <2>3, <2>4 DEF WaitLocalL, Typed
<1>7. ASSUME NEW e \in Edges, Deliver(e)
      PROVE  Typed'
  <2>1. DOMAIN recvbuf' = Edges /\ DOMAIN channel' = Edges
        /\ sending' \subseteq Edges /\ receiving' \subseteq Edges
    BY <1>7 DEF Deliver, Typed
  <2>2. DOMAIN out' = Req /\ \A q2 \in Req : DOMAIN out'[q2] = Items[q2]
    BY <1>7 DEF Deliver, Typed
  <2>. QED  BY <1>7, <2>1, <2>2 DEF Deliver, Typed
<1>8. CASE Finished
  BY <1>8 DEF Finished, vars, Typed
<1>. QED  BY <1>1, <1>2, <1>3, <1>5, <1>6, <1>7, <1>8 DEF Next, Step, RankStep
-----------------------------------------------------------------------------
(* Each rank goes on starting and waiting for each request in turn.             *)
LEMMA UpcomingOther ==
  ASSUME Typed, NEW p \in Proc, Running(p), NEW q \in Req, q # Call(p)[2], Upcoming(p, q),
         program' = program, pos'[p] = pos[p] + 1,
         started'[p][q] = started[p][q], done'[p][q] = done[p][q]
  PROVE  Upcoming(p, q)'
<1>. SUFFICES ASSUME NEW k \in DOMAIN program[p], k >= pos[p] + 1, program[p][k][2] = q,
                     \A j \in pos[p] + 1 .. k - 1 : program[p][j][2] # q
              PROVE  program[p][k][1] = IF started[p][q] = done[p][q] THEN "start" ELSE "wait"
  BY Zenon DEF Upcoming
<1>1. k \in Nat /\ pos[p] \in Nat
  BY Programmed DEF Typed
<1>2. \A j \in pos[p] .. k - 1 : j = pos[p] \/ j \in pos[p] + 1 .. k - 1
  BY <1>1
<1>3. \A j \in pos[p] .. k - 1 : program[p][j][2] # q
  BY <1>2 DEF Call
<1>4. k >= pos[p]
  BY <1>1
<1>. QED  BY <1>3, <1>4, Zenon DEF Upcoming

LEMMA UpcomingAfter ==
  ASSUME Typed, NEW p \in Proc, Running(p), NEW q \in Req, q = Call(p)[2],
         program' = program, pos'[p] = pos[p] + 1,
         Call(p)[1] = IF started'[p][q] = done'[p][q] THEN "wait" ELSE "start"
  PROVE  Upcoming(p, q)'
<1>. SUFFICES ASSUME NEW k \in DOMAIN program[p], k >= pos[p] + 1, program[p][k][2] = q,
                     \A j \in pos[p] + 1 .. k - 1 : program[p][j][2] # q
              PROVE  program[p][k][1] = IF started'[p][q] = done'[p][q] THEN "start" ELSE "wait"
  BY Zenon DEF Upcoming
<1>1. k \in Nat /\ pos[p] \in Nat /\ pos[p] >= 1 /\ pos[p] \in 1 .. k - 1
  BY Programmed DEF Typed
<1>2. program[p][pos[p]][1] # program[p][k][1]
  <2>1. program \in Programs
    BY DEF Typed
  <2>2. program[p][pos[p]][2] = program[p][k][2]
    BY DEF Call
  <2>3. \A l \in pos[p] + 1 .. k - 1 : program[p][l][2] # program[p][k][2]
    OBVIOUS
  <2>. QED  BY <1>1, <2>1, <2>2, <2>3, ProgramAssumption
<1>3. program[p][k][1] \in {"start", "wait"} /\ Call(p)[1] = program[p][pos[p]][1]
  BY Programmed DEF Call
<1>. QED  BY <1>2, <1>3

LEMMA TurnsStay ==
  ASSUME NEW r, Turns(r), program' = program, pos'[r] = pos[r], pc'[r] = pc[r],
         started'[r] = started[r], done'[r] = done[r]
  PROVE  Turns(r)'
<1>1. \A q \in Req : Upcoming(r, q)' <=> Upcoming(r, q)
  BY Zenon DEF Upcoming
<1>2. Call(r)' = Call(r) /\ (Running(r)' <=> Running(r))
  BY DEF Call, Running
<1>. QED  BY <1>1, <1>2, Zenon DEF Turns

LEMMA TurnsReturn ==
  ASSUME Typed, NEW p \in Proc, Turns(p), Running(p), program' = program,
         pos'[p] = pos[p] + 1, pc'[p] = "call",
         \A q \in Req \ {Call(p)[2]} :
           started'[p][q] = started[p][q] /\ done'[p][q] = done[p][q],
         LET q == Call(p)[2] IN
         /\ started'[p][q] = done'[p][q] \/ started'[p][q] = done'[p][q] + 1
         /\ Call(p)[1] = IF started'[p][q] = done'[p][q] THEN "wait" ELSE "start"
  PROVE  Turns(p)'
<1>1. ASSUME NEW q \in Req, q # Call(p)[2]
      PROVE  /\ started'[p][q] = done'[p][q] \/ started'[p][q] = done'[p][q] + 1
             /\ Upcoming(p, q)'
  <2>1. started[p][q] = done[p][q] \/ started[p][q] = done[p][q] + 1
    BY DEF Turns
  <2>2. Upcoming(p, q)
    BY <1>1 DEF Turns
  <2>. QED  BY <1>1, <2>1, <2>2, UpcomingOther
<1>2. ASSUME NEW q \in Req, q = Call(p)[2]
      PROVE  /\ started'[p][q] = done'[p][q] \/ started'[p][q] = done'[p][q] + 1
             /\ Upcoming(p, q)'
  BY <1>2, UpcomingAfter
<1>. QED  BY <1>1, <1>2 DEF Turns

LEMMA TurnsEnter ==
  ASSUME Typed, NEW p \in Proc, Turns(p), Running(p), program' = program,
         pos'[p] = pos[p], pc'[p] \in {"S", "R", "L"},
         Call(p)[1] = IF pc'[p] = "S" THEN "start" ELSE "wait",
         \A q \in Req \ {Call(p)[2]} : started'[p][q] = started[p][q],
         done'[p] = done[p],
         started'[p][Call(p)[2]] = done[p][Call(p)[2]] + 1,
         done[p][Call(p)[2]] \in Nat
  PROVE  Turns(p)'
<1>1. Call(p)' = Call(p) /\ Running(p)'
  BY DEF Call, Running
<1>2. ASSUME NEW q \in Req, q # Call(p)[2]
      PROVE  /\ started'[p][q] = done'[p][q] \/ started'[p][q] = done'[p][q] + 1
             /\ Upcoming(p, q)'
  <2>1. started[p][q] = done[p][q] \/ started[p][q] = done[p][q] + 1
    BY DEF Turns
  <2>2. Upcoming(p, q)
    BY <1>2 DEF Turns
  <2>3. Upcoming(p, q)'
    BY <1>2, <2>2, Zenon DEF Upcoming
  <2>. QED  BY <1>2, <2>1, <2>3
<1>. QED  BY <1>1, <1>2 DEF Turns

LEMMA TurnsStep ==
  ASSUME Typed, \A p \in Proc : Turns(p), Next, NEW r \in Proc
  PROVE  Turns(r)'
<1>1. ASSUME NEW p \in Proc, Start(p)
      PROVE  Turns(r)'
  <2> DEFINE q == Call(p)[2]
  <2>1. /\ Running(p) /\ pc[p] = "call" /\ Call(p)[1] = "start" /\ q \in Req
        /\ started[p][q] = done[p][q] /\ done[p][q] \in Nat
    BY <1>1, CallTurn DEF Start, About
  <2>2. /\ program' = program /\ done' = done
        /\ started' = [started EXCEPT ![p][q] = @ + 1]
        /\ Return(p) \/ (pc' = [pc EXCEPT ![p] = "S"] /\ pos' = pos)
    BY <1>1 DEF Start
  <2>3. /\ started'[p][q] = done[p][q] + 1
        /\ \A q2 \in Req \ {q} : started'[p][q2] = started[p][q2]
        /\ \A p2 \in Proc \ {p} : started'[p2] = started[p2]
    BY <2>1, <2>2 DEF Typed
  <2>4. CASE r # p
    <3>1. pos'[r] = pos[r] /\ pc'[r] = pc[r]
      BY <2>2, <2>4 DEF Typed, Return
    <3>. QED  BY <2>2, <2>3, <2>4, <3>1, TurnsStay
  <2>5. CASE r = p /\ Return(p)
    <3>1. pos'[p] = pos[p] + 1 /\ pc'[p] = "call"
      BY <2>5 DEF Typed, Return
    <3>. QED  BY <2>1, <2>2, <2>3, <2>5, <3>1, TurnsReturn
  <2>6. CASE r = p /\ pc' = [pc EXCEPT ![p] = "S"] /\ pos' = pos
    <3>1. pos'[p] = pos[p] /\ pc'[p] = "S"
      BY <2>6 DEF Typed
    <3>. QED  BY <2>1, <2>2, <2>3, <2>6, <3>1, TurnsEnter
  <2>. QED  BY <2>2, <2>4, <2>5, <2>6
<1>2. ASSUME NEW p \in Proc, StartGlobal(p)
      PROVE  Turns(r)'
  <2>1. /\ program' = program /\ done' = done /\ started' = started /\ Return(p)
        /\ pc[p] = "S"
    BY <1>2 DEF StartGlobal
  <2>2. /\ pos'[p] = pos[p] + 1 /\ pc'[p] = "call"
        /\ \A p2 \in Proc \ {p} : pos'[p2] = pos[p2] /\ pc'[p2] = pc[p2]
    BY <2>1 DEF Typed, Return
  <2>3. CASE r # p
    BY <2>1, <2>2, <2>3, TurnsStay
  <2>4. CASE r = p
    <3>1. Running(p) /\ Call(p)[1] = "start"
      BY <2>1 DEF Turns
    <3>. QED  BY <2>1, <2>2, <2>4, <3>1, CallTurn, TurnsReturn
  <2>. QED  BY <2>3, <2>4
<1>3. ASSUME NEW p \in Proc, WaitGlobal(p) \/ WaitLocalR(p)
      PROVE  Turns(r)'
  <2>1. /\ program' = program /\ done' = done /\ started' = started /\ pos' = pos
        /\ \/ About(p, "wait") /\ pc' = [pc EXCEPT ![p] = "R"]
           \/ pc[p] = "R" /\ pc' = [pc EXCEPT ![p] = "L"]
    BY <1>3 DEF WaitGlobal, WaitLocalR
  <2>2. /\ pc'[p] \in {"R", "L"}
        /\ \A p2 \in Proc \ {p} : pos'[p2] = pos[p2] /\ pc'[p2] = pc[p2]
    BY <2>1 DEF Typed
  <2>3. CASE r # p
    BY <2>1, <2>2, <2>3, TurnsStay
  <2>4. CASE r = p
    <3>1. Running(p) /\ Call(p)[1] = "wait"
      BY <2>1 DEF Turns, About
    <3>2. /\ started[p][Call(p)[2]] = done[p][Call(p)[2]] + 1
          /\ done[p][Call(p)[2]] \in Nat
      BY <2>1, <3>1, CallTurn DEF About
    <3>. QED  BY <2>1, <2>2, <2>4, <3>1, <3>2, TurnsEnter
  <2>. QED  BY <2>3, <2>4
<1>4. ASSUME NEW p \in Proc, WaitLocalL(p)
      PROVE  Turns(r)'
  <2> DEFINE q == Call(p)[2]
  <2>1. /\ program' = program /\ started' = started /\ Return(p) /\ pc[p] = "L"
        /\ done' = [done EXCEPT ![p][q] = @ + 1]
    BY <1>4 DEF WaitLocalL
  <2>2. /\ pos'[p] = pos[p] + 1 /\ pc'[p] = "call"
        /\ \A p2 \in Proc \ {p} : pos'[p2] = pos[p2] /\ pc'[p2] = pc[p2]
    BY <2>1 DEF Typed, Return
  <2>3. Running(p) /\ Call(p)[1] = "wait"
    BY <2>1 DEF Turns
  <2>4. q \in Req /\ started[p][q] = done[p][q] + 1 /\ done[p][q] \in Nat
    BY <2>1, <2>3, CallTurn
  <2>5. /\ done'[p][q] = done[p][q] + 1
        /\ \A q2 \in Req \ {q} : done'[p][q2] = done[p][q2]
        /\ \A p2 \in Proc \ {p} : done'[p2] = done[p2]
    BY <2>1, <2>4 DEF Typed
  <2>6. CASE r # p
    BY <2>1, <2>2, <2>5, <2>6, TurnsStay
  <2>7. CASE r = p
    BY <2>1, <2>2, <2>3, <2>4, <2>5, <2>7, TurnsReturn
  <2>. QED  BY <2>6, <2>7
<1>5. ASSUME NEW e \in Edges, Deliver(e)
      PROVE  Turns(r)'
  BY <1>5, TurnsStay DEF Deliver
<1>6. CASE Finished
  BY <1>6, TurnsStay DEF Finished, vars
<1>. QED  BY <1>1, <1>2, <1>3, <1>4, <1>5, <1>6 DEF Next, Step, RankStep
-----------------------------------------------------------------------------
LEMMA Steps4 ==
  ASSUME NEW p, NEW q
  PROVE  /\ Launched(p, q, "L") = started[p][q] /\ Launched(p, q, "S") = started[p][q]
         /\ Launched(p, q, "G") = IF InStart(p, q) THEN started[p][q] - 1 ELSE started[p][q]
         /\ Launched(p, q, "R") = IF InWait(p, q) THEN done[p][q] + 1 ELSE done[p][q]
         /\ Open(p, q, "L") <=> started[p][q] # done[p][q]
         /\ Open(p, q, "S") <=> InStart(p, q)
         /\ Open(p, q, "G") <=> /\ started[p][q] # done[p][q]
                                /\ ~ InStart(p, q) /\ ~ InWait(p, q)
         /\ Open(p, q, "R") <=> InWait(p, q) /\ pc[p] = "R"
BY Zenon DEF Launched, Open

LEMMA Steps4Next ==
  ASSUME NEW p, NEW q
  PROVE  /\ Launched(p, q, "L")' = started'[p][q] /\ Launched(p, q, "S")' = started'[p][q]
         /\ Launched(p, q, "G")' = IF InStart(p, q)' THEN started'[p][q] - 1 ELSE started'[p][q]
         /\ Launched(p, q, "R")' = IF InWait(p, q)' THEN done'[p][q] + 1 ELSE done'[p][q]
         /\ Open(p, q, "L")' <=> started'[p][q] # done'[p][q]
         /\ Open(p, q, "S")' <=> InStart(p, q)'
         /\ Open(p, q, "G")' <=> /\ started'[p][q] # done'[p][q]
                                 /\ ~ InStart(p, q)' /\ ~ InWait(p, q)'
         /\ Open(p, q, "R")' <=> InWait(p, q)' /\ pc'[p] = "R"
BY Zenon DEF Launched, Open

(* Which edges a step launches, and which it has waited for.                     *)
AtStart(p) ==
  Mine(p, Call(p)[2], IF Mine(p, Call(p)[2], {"S"}) = {} THEN {"L", "G"} ELSE {"L", "S"})
AtCall(p, step) == Mine(p, Call(p)[2], {step})

LEMMA StartEnds ==
  ASSUME Typed, Typed', NEW p \in Proc, Turns(p), Start(p),
         NEW e \in Edges, EdgeInv(e), NEW r \in {e.src, e.dst}
  PROVE  EndMoves(r, e, p, AtStart(p), {})
<1> DEFINE q == Call(p)[2]
           S == Mine(p, q, {"S"})
<1>1. /\ Running(p) /\ pc[p] = "call" /\ q \in Req
      /\ started[p][q] = done[p][q] /\ done[p][q] \in Nat
  BY CallTurn DEF Start, About
<1>2. /\ program' = program /\ done' = done /\ eager' = eager
      /\ started' = [started EXCEPT ![p][q] = @ + 1]
      /\ IF S = {} THEN Return(p) ELSE pc' = [pc EXCEPT ![p] = "S"] /\ pos' = pos
  BY DEF Start
<1>3. /\ started'[p][q] = started[p][q] + 1
      /\ \A q2 \in Req \ {q} : started'[p][q2] = started[p][q2]
      /\ \A p2 \in Proc \ {p} : started'[p2] = started[p2]
  BY <1>1, <1>2 DEF Typed
<1>4. \A p2 \in Proc \ {p} : pos'[p2] = pos[p2] /\ pc'[p2] = pc[p2]
  <2>1. CASE S = {}
    BY <1>2, <2>1 DEF Typed, Return
  <2>2. CASE S # {}
    BY <1>2, <2>2 DEF Typed
  <2>. QED  BY <2>1, <2>2
<1>5. /\ S = {} => pc'[p] = "call"
      /\ S # {} => pc'[p] = "S" /\ Call(p)' = Call(p)
  BY <1>2 DEF Typed, Return, Call
<1>6. e.req \in Req /\ r \in Proc /\ e.step \in {"L", "S", "G", "R"}
  BY EdgeShape DEF Steps
<1>7. Launched(r, e.req, e.step) \in Nat
  BY DEF EdgeInv
<1>8. CASE ~ (r = p /\ e.req = q)
  <2>1. e \notin AtStart(p) \/ r # p
    BY <1>8 DEF AtStart, Mine
  <2>2. /\ Launched(r, e.req, e.step)' = Launched(r, e.req, e.step)
        /\ Open(r, e.req, e.step)' <=> Open(r, e.req, e.step)
    <3>. HIDE DEF S
    <3>. QED  BY <1>2, <1>3, <1>4, <1>5, <1>6, <1>8, OthersStay
  <2>. QED  BY <1>7, <2>1, <2>2, StaysPut
<1>9. CASE r = p /\ e.req = q
  <2>1. \A T : e \in Mine(p, e.req, T) <=> e.step \in T
    BY <1>9 DEF Mine
  <2>2. e \in AtStart(p) <=> e.step \in (IF S = {} THEN {"L", "G"} ELSE {"L", "S"})
    BY <1>9, <2>1 DEF AtStart
  <2>3. e.step = "S" => S # {}
    BY <1>9, <2>1
  <2>4. /\ ~ InStart(p, e.req) /\ ~ InWait(p, e.req) /\ ~ InWait(p, e.req)'
        /\ InStart(p, e.req)' <=> S # {}
    BY <1>1, <1>5, <1>9 DEF InStart, InWait
  <2>5. /\ started'[p][e.req] = started[p][e.req] + 1 /\ started[p][e.req] = done[p][e.req]
        /\ done'[p][e.req] = done[p][e.req] /\ done[p][e.req] \in Nat
    BY <1>1, <1>2, <1>3, <1>9
  <2>. HIDE DEF q, S
  <2>6. CASE e.step = "L"
    BY <1>9, <2>2, <2>4, <2>5, <2>6, Steps4, Steps4Next DEF EndMoves
  <2>7. CASE e.step = "S"
    BY <1>9, <2>2, <2>3, <2>4, <2>5, <2>7, Steps4, Steps4Next DEF EndMoves
  <2>8. CASE e.step = "G" /\ S = {}
    BY <1>9, <2>2, <2>4, <2>5, <2>8, Steps4, Steps4Next DEF EndMoves
  <2>9. CASE e.step = "G" /\ S # {}
    BY <1>9, <2>2, <2>4, <2>5, <2>9, Steps4, Steps4Next DEF EndMoves
  <2>10. CASE e.step = "R"
    BY <1>9, <2>2, <2>4, <2>5, <2>10, Steps4, Steps4Next DEF EndMoves
  <2>. QED  BY <1>6, <2>6, <2>7, <2>8, <2>9, <2>10
<1>. QED  BY <1>8, <1>9

LEMMA StartGlobalEnds ==
  ASSUME Typed, Typed', NEW p \in Proc, Turns(p), StartGlobal(p),
         NEW e \in Edges, EdgeInv(e), NEW r \in {e.src, e.dst}
  PROVE  EndMoves(r, e, p, AtCall(p, "G"), AtCall(p, "S"))
<1> DEFINE q == Call(p)[2]
<1>1. /\ Running(p) /\ pc[p] = "S" /\ q \in Req
      /\ started[p][q] = done[p][q] + 1 /\ done[p][q] \in Nat
  <2>1. pc[p] = "S" /\ Running(p)
    BY DEF StartGlobal, Turns
  <2>. QED  BY <2>1, CallTurn
<1>2. program' = program /\ done' = done /\ started' = started /\ Return(p)
  BY DEF StartGlobal
<1>3. /\ pc'[p] = "call"
      /\ \A p2 \in Proc \ {p} : pos'[p2] = pos[p2] /\ pc'[p2] = pc[p2]
  BY <1>2 DEF Typed, Return
<1>4. e.req \in Req /\ r \in Proc /\ e.step \in {"L", "S", "G", "R"}
  BY EdgeShape DEF Steps
<1>5. Launched(r, e.req, e.step) \in Nat
  BY DEF EdgeInv
<1>6. CASE ~ (r = p /\ e.req = q)
  <2>1. e \notin AtCall(p, "G") \/ r # p
    BY <1>6 DEF AtCall, Mine
  <2>2. /\ Launched(r, e.req, e.step)' = Launched(r, e.req, e.step)
        /\ Open(r, e.req, e.step)' <=> Open(r, e.req, e.step)
    BY <1>2, <1>3, <1>4, <1>6, OthersStay
  <2>. QED  BY <1>5, <2>1, <2>2, StaysPut
<1>7. CASE r = p /\ e.req = q
  <2>1. \A s : e \in AtCall(p, s) <=> e.step = s
    BY <1>7 DEF AtCall, Mine
  <2>2. InStart(p, e.req) /\ ~ InWait(p, e.req) /\ ~ InWait(p, e.req)' /\ ~ InStart(p, e.req)'
    BY <1>1, <1>3, <1>7 DEF InStart, InWait
  <2>3. /\ started'[p][e.req] = started[p][e.req] /\ started[p][e.req] = done[p][e.req] + 1
        /\ done'[p][e.req] = done[p][e.req] /\ done[p][e.req] \in Nat
    BY <1>1, <1>2, <1>7
  <2>. HIDE DEF q
  <2>4. CASE e.step = "L"
    BY <1>7, <2>1, <2>2, <2>3, <2>4, Steps4, Steps4Next DEF EndMoves
  <2>5. CASE e.step = "S"
    BY <1>7, <2>1, <2>2, <2>3, <2>5, Steps4, Steps4Next DEF EndMoves
  <2>6. CASE e.step = "G"
    BY <1>7, <2>1, <2>2, <2>3, <2>6, Steps4, Steps4Next DEF EndMoves
  <2>7. CASE e.step = "R"
    BY <1>7, <2>1, <2>2, <2>3, <2>7, Steps4, Steps4Next DEF EndMoves
  <2>. QED  BY <1>4, <2>4, <2>5, <2>6, <2>7
<1>. QED  BY <1>6, <1>7

LEMMA WaitGlobalEnds ==
  ASSUME Typed, Typed', NEW p \in Proc, Turns(p), WaitGlobal(p),
         NEW e \in Edges, EdgeInv(e), NEW r \in {e.src, e.dst}
  PROVE  EndMoves(r, e, p, AtCall(p, "R"), AtCall(p, "G"))
<1> DEFINE q == Call(p)[2]
<1>1. /\ Running(p) /\ pc[p] = "call" /\ q \in Req
      /\ started[p][q] = done[p][q] + 1 /\ done[p][q] \in Nat
  <2>1. pc[p] = "call" /\ Running(p) /\ Call(p)[1] = "wait"
    BY DEF WaitGlobal, About
  <2>. QED  BY <2>1, CallTurn
<1>2. /\ program' = program /\ done' = done /\ started' = started /\ pos' = pos
      /\ pc' = [pc EXCEPT ![p] = "R"]
  BY DEF WaitGlobal
<1>3. /\ pc'[p] = "R" /\ Call(p)' = Call(p)
      /\ \A p2 \in Proc \ {p} : pos'[p2] = pos[p2] /\ pc'[p2] = pc[p2]
  BY <1>2 DEF Typed, Call
<1>4. e.req \in Req /\ r \in Proc /\ e.step \in {"L", "S", "G", "R"}
  BY EdgeShape DEF Steps
<1>5. Launched(r, e.req, e.step) \in Nat
  BY DEF EdgeInv
<1>6. CASE ~ (r = p /\ e.req = q)
  <2>1. e \notin AtCall(p, "R") \/ r # p
    BY <1>6 DEF AtCall, Mine
  <2>2. /\ Launched(r, e.req, e.step)' = Launched(r, e.req, e.step)
        /\ Open(r, e.req, e.step)' <=> Open(r, e.req, e.step)
    BY <1>2, <1>3, <1>4, <1>6, OthersStay
  <2>. QED  BY <1>5, <2>1, <2>2, StaysPut
<1>7. CASE r = p /\ e.req = q
  <2>1. \A s : e \in AtCall(p, s) <=> e.step = s
    BY <1>7 DEF AtCall, Mine
  <2>2. ~ InStart(p, e.req) /\ ~ InWait(p, e.req) /\ InWait(p, e.req)' /\ ~ InStart(p, e.req)'
    BY <1>1, <1>3, <1>7 DEF InStart, InWait
  <2>3. /\ started'[p][e.req] = started[p][e.req]
        /\ started[p][e.req] = done[p][e.req] + 1
        /\ done'[p][e.req] = done[p][e.req] /\ done[p][e.req] \in Nat
    BY <1>1, <1>2, <1>7
  <2>. HIDE DEF q
  <2>4. CASE e.step = "L"
    BY <1>7, <2>1, <2>2, <2>3, <2>4, Steps4, Steps4Next DEF EndMoves
  <2>5. CASE e.step = "S"
    BY <1>7, <2>1, <2>2, <2>3, <2>5, Steps4, Steps4Next DEF EndMoves
  <2>6. CASE e.step = "G"
    BY <1>7, <2>1, <2>2, <2>3, <2>6, Steps4, Steps4Next DEF EndMoves
  <2>7. CASE e.step = "R"
    BY <1>3, <1>7, <2>1, <2>2, <2>3, <2>7, Steps4, Steps4Next DEF EndMoves
  <2>. QED  BY <1>4, <2>4, <2>5, <2>6, <2>7
<1>. QED  BY <1>6, <1>7

LEMMA WaitLocalEnds ==
  ASSUME Typed, Typed', NEW p \in Proc, Turns(p), NEW s \in {"R", "L"},
         s = "R" => WaitLocalR(p), s = "L" => WaitLocalL(p),
         NEW e \in Edges, EdgeInv(e), NEW r \in {e.src, e.dst}
  PROVE  EndMoves(r, e, p, {}, AtCall(p, s))
<1> DEFINE q == Call(p)[2]
<1>1. /\ Running(p) /\ pc[p] = s /\ q \in Req
      /\ started[p][q] = done[p][q] + 1 /\ done[p][q] \in Nat
  <2>1. pc[p] = s /\ Running(p)
    BY DEF WaitLocalR, WaitLocalL, Turns
  <2>. QED  BY <2>1, CallTurn
<1>2. /\ program' = program /\ started' = started
      /\ s = "R" => pos' = pos /\ done' = done /\ pc' = [pc EXCEPT ![p] = "L"]
      /\ s = "L" => Return(p) /\ done' = [done EXCEPT ![p][q] = @ + 1]
  BY DEF WaitLocalR, WaitLocalL
<1>3. /\ s = "R" => pc'[p] = "L" /\ Call(p)' = Call(p)
      /\ s = "L" => pc'[p] = "call"
      /\ \A p2 \in Proc \ {p} : pos'[p2] = pos[p2] /\ pc'[p2] = pc[p2]
  BY <1>2 DEF Typed, Call, Return
<1>4. /\ s = "R" => done'[p][q] = done[p][q]
      /\ s = "L" => done'[p][q] = done[p][q] + 1
      /\ \A q2 \in Req \ {q} : done'[p][q2] = done[p][q2]
      /\ \A p2 \in Proc \ {p} : done'[p2] = done[p2]
  <2>1. CASE s = "R"
    BY <1>2, <2>1
  <2>2. CASE s = "L"
    BY <1>1, <1>2, <2>2 DEF Typed
  <2>. QED  BY <2>1, <2>2
<1>5. e.req \in Req /\ r \in Proc /\ e.step \in {"L", "S", "G", "R"}
  BY EdgeShape DEF Steps
<1>6. Launched(r, e.req, e.step) \in Nat
  BY DEF EdgeInv
<1>7. CASE ~ (r = p /\ e.req = q)
  <2>1. /\ Launched(r, e.req, e.step)' = Launched(r, e.req, e.step)
        /\ Open(r, e.req, e.step)' <=> Open(r, e.req, e.step)
    BY <1>2, <1>3, <1>4, <1>5, <1>7, OthersStay
  <2>. QED  BY <1>6, <2>1, StaysPut
<1>8. CASE r = p /\ e.req = q
  <2>1. e \in AtCall(p, s) <=> e.step = s
    BY <1>8 DEF AtCall, Mine
  <2>2. /\ ~ InStart(p, e.req) /\ InWait(p, e.req) /\ ~ InStart(p, e.req)'
        /\ InWait(p, e.req)' <=> s = "R"
        /\ pc[p] = s /\ (s = "R" => pc'[p] = "L")
    BY <1>1, <1>3, <1>8 DEF InStart, InWait
  <2>3. /\ started'[p][e.req] = started[p][e.req]
        /\ started[p][e.req] = done[p][e.req] + 1
        /\ done'[p][e.req] = IF s = "R" THEN done[p][e.req] ELSE done[p][e.req] + 1
        /\ done[p][e.req] \in Nat
    BY <1>1, <1>2, <1>4, <1>8
  <2>. HIDE DEF q
  <2>4. CASE e.step = "L"
    BY <1>8, <2>1, <2>2, <2>3, <2>4, Steps4, Steps4Next DEF EndMoves
  <2>5. CASE e.step = "S"
    BY <1>8, <2>1, <2>2, <2>3, <2>5, Steps4, Steps4Next DEF EndMoves
  <2>6. CASE e.step = "G"
    BY <1>8, <2>1, <2>2, <2>3, <2>6, Steps4, Steps4Next DEF EndMoves
  <2>7. CASE e.step = "R"
    BY <1>8, <2>1, <2>2, <2>3, <2>7, Steps4, Steps4Next DEF EndMoves
  <2>. QED  BY <1>5, <2>4, <2>5, <2>6, <2>7
<1>. QED  BY <1>7, <1>8
-----------------------------------------------------------------------------
(* A rank sends on what the previous step has brought it in this exchange.        *)
LEMMA Forwarded ==
  ASSUME Typed, \A f \in Edges : EdgeInv(f), NEW p \in Proc, Turns(p),
         NEW e \in Edges, e.src = p, e.req = Call(p)[2], NEW s,
         \/ e.step = "G" /\ s = "S" /\ pc[p] = "S" /\ Kind[e.req] # "standard"
         \/ e.step = "R" /\ s = "G" /\ About(p, "wait"),
         Complete(p, AtCall(p, s))
  PROVE  [i \in Load[e] |-> Received(e.req, i, s)]
           = Constantly(e, Launched(p, e.req, e.step) + 1)
<1>1. /\ e.req \in Req /\ Load[e] = { i \in Items[e.req] : Hop(e.req, i, e.step) = <<e.src, e.dst>> }
      /\ e.step \in {"G", "R"} /\ s = IF e.step = "G" THEN "S" ELSE "G"
  BY EdgeShape
<1>2. Kind[e.req] # "standard"
  <2>1. PICK i \in Items[e.req] : Hop(e.req, i, e.step) = <<e.src, e.dst>>
    BY EdgeShape
  <2>2. Hop(e.req, i, e.step) # << >>
    BY <2>1
  <2>3. CASE e.step = "R"
    BY <1>1, <2>2, <2>3, Standard
  <2>. QED  BY <2>3
<1>3. /\ started[p][e.req] = done[p][e.req] + 1 /\ done[p][e.req] \in Nat
      /\ s = "S" => InStart(p, e.req)
      /\ s = "G" => ~ InStart(p, e.req) /\ ~ InWait(p, e.req)
  <2>1. Running(p)
    BY DEF About, Turns
  <2>2. CASE s = "S"
    BY <2>1, <2>2, CallTurn DEF InStart
  <2>3. CASE s = "G"
    <3>1. pc[p] = "call" /\ Call(p)[1] = "wait"
      BY <2>3 DEF About
    <3>. QED  BY <2>1, <2>3, <3>1, CallTurn DEF InStart, InWait
  <2>. QED  BY <1>1, <2>2, <2>3
<1>4. Launched(p, e.req, e.step) + 1 = started[p][e.req] /\ Launched(p, e.req, s) = started[p][e.req]
  <2>1. CASE s = "S"
    BY <1>1, <1>3, <2>1, Steps4
  <2>2. CASE s = "G"
    BY <1>1, <1>3, <2>2, Steps4
  <2>. QED  BY <1>1, <2>1, <2>2
<1>5. ASSUME NEW i \in Load[e]
      PROVE  Received(e.req, i, s) = started[p][e.req]
  <2>1. PICK f \in Edges : /\ f = Edge(e.req, i, s) /\ f.req = e.req /\ f.dst = p /\ i \in Load[f]
                           /\ f.step = s
    BY <1>1, <1>2, Before
  <2>2. f \in AtCall(p, s)
    BY <2>1 DEF AtCall, Mine
  <2>3. f \notin receiving
    BY <2>1, <2>2 DEF Complete
  <2>4. Got(f) = started[p][e.req]
    BY <1>4, <2>1, <2>3 DEF Got
  <2>5. recvbuf[f] = Constantly(f, Got(f))
    BY DEF EdgeInv
  <2>. QED  BY <2>1, <2>4, <2>5 DEF Received, Constantly
<1>. QED  BY <1>4, <1>5 DEF Constantly

LEMMA AggregationOnly ==
  ASSUME NEW p, NEW q \in Req, Mine(p, q, {"S"}) # {}
  PROVE  Kind[q] # "standard"
<1>1. PICK e \in Edges : e.req = q /\ e.step = "S"
  BY DEF Mine
<1>2. PICK i \in Items[q] : Hop(q, i, "S") = <<e.src, e.dst>>
  BY <1>1, EdgeShape
<1>3. Hop(q, i, "S") # << >>
  BY <1>2
<1>. QED  BY <1>3, Standard
-----------------------------------------------------------------------------
(* No step disturbs an edge.                                                  *)
LEMMA Delivered ==
  ASSUME Typed, NEW e \in Edges, EdgeInv(e), Deliver(e)
  PROVE  /\ EdgeInv(e)' /\ Got(e)' = Got(e) + 1
         /\ (IF eager THEN Head(channel[e]) ELSE sendbuf[e]) = Constantly(e, Got(e) + 1)
<1> DEFINE sent == Launched(e.src, e.req, e.step)
           had == Launched(e.dst, e.req, e.step)
           n == Len(channel[e])
           data == IF eager THEN Head(channel[e]) ELSE sendbuf[e]
<1>1. /\ sent \in Nat /\ had \in Nat /\ Got(e) \in Nat /\ channel[e] \in Seq([Load[e] -> Nat])
      /\ sent = Got(e) + n
      /\ \A j \in 1 .. n : channel[e][j] = Constantly(e, Got(e) + j)
      /\ sendbuf[e] = Constantly(e, sent) /\ recvbuf[e] = Constantly(e, Got(e))
      /\ ~ eager => n = IF e \in sending THEN 1 ELSE 0
  BY DEF EdgeInv
<1>2. /\ e \in receiving /\ channel[e] # << >>
      /\ recvbuf'[e] = data /\ channel'[e] = Tail(channel[e])
      /\ e \notin receiving' /\ e \notin sending'
      /\ program' = program /\ pos' = pos /\ pc' = pc /\ started' = started /\ done' = done
      /\ sendbuf' = sendbuf /\ (eager' <=> eager)
  BY DEF Deliver, Typed
<1>3. sent' = sent /\ had' = had
  BY <1>2 DEF Launched, InStart, InWait, Call
<1>4. Got(e) = had - 1 /\ Got(e)' = had'
  BY <1>2 DEF Got
<1>5. Got(e)' = Got(e) + 1
  BY <1>1, <1>3, <1>4
<1>6. /\ n \in Nat /\ n >= 1 /\ Tail(channel[e]) \in Seq([Load[e] -> Nat])
      /\ Len(Tail(channel[e])) = n - 1
      /\ \A j \in 1 .. n - 1 : Tail(channel[e])[j] = channel[e][j + 1]
      /\ Head(channel[e]) = channel[e][1]
  <2>1. n \in Nat \ {0}
    BY <1>1, <1>2, EmptySeq
  <2>2. /\ Tail(channel[e]) \in Seq([Load[e] -> Nat]) /\ Len(Tail(channel[e])) = n - 1
        /\ \A j \in 1 .. Len(Tail(channel[e])) : Tail(channel[e])[j] = channel[e][j + 1]
    BY <1>1, <1>2, HeadTailProperties
  <2>3. Head(channel[e]) = channel[e][1]
    OBVIOUS
  <2>. QED  BY <2>1, <2>2, <2>3
<1>7. data = Constantly(e, Got(e) + 1)
  <2>1. CASE eager
    BY <1>1, <1>6, <2>1
  <2>2. CASE ~ eager
    BY <1>1, <1>6, <2>2
  <2>. QED  BY <2>1, <2>2
<1>. HIDE DEF sent, had, n, data
<1>8. \A j \in 1 .. Len(channel'[e]) : channel'[e][j] = Constantly(e, Got(e)' + j)
  <2>. SUFFICES ASSUME NEW j \in 1 .. n - 1
                PROVE  channel[e][j + 1] = Constantly(e, Got(e) + 1 + j)
    BY <1>2, <1>5, <1>6
  <2>1. j + 1 \in 1 .. n /\ Got(e) + (j + 1) = Got(e) + 1 + j
    BY <1>1, <1>6
  <2>. QED  BY <1>1, <2>1
<1>9. sent' = Got(e)' + Len(channel'[e])
  <2>1. sent = Got(e) + n /\ n \in Nat /\ Got(e) \in Nat
    BY <1>1, <1>6
  <2>2. Len(channel'[e]) = n - 1
    BY <1>2, <1>6
  <2>. QED  BY <1>3, <1>5, <2>1, <2>2
<1>10. recvbuf'[e] = Constantly(e, Got(e)') /\ sendbuf'[e] = Constantly(e, sent')
  BY <1>1, <1>2, <1>3, <1>5, <1>7
<1>11. ~ eager' => Len(channel'[e]) = IF e \in sending' THEN 1 ELSE 0
  <2>1. Len(channel'[e]) = n - 1 /\ n \in Nat /\ n >= 1
    BY <1>2, <1>6
  <2>2. ~ eager => n = 1
    BY <1>1, <2>1
  <2>3. e \notin sending'
    BY <1>2
  <2>4. ~ eager' => ~ eager
    BY <1>2, Zenon
  <2>. QED  BY <2>1, <2>2, <2>3, <2>4
<1>12. EdgeInv(e)'
  BY <1>1, <1>2, <1>3, <1>5, <1>6, <1>8, <1>9, <1>10, <1>11 DEF EdgeInv, sent, had
<1>. QED  BY <1>5, <1>7, <1>12 DEF data

LEMMA EdgeUntouched ==
  ASSUME NEW e \in Edges, EdgeInv(e),
         pos' = pos, pc' = pc, program' = program, started' = started, done' = done,
         sendbuf'[e] = sendbuf[e], recvbuf'[e] = recvbuf[e], channel'[e] = channel[e],
         e \in sending' <=> e \in sending, e \in receiving' <=> e \in receiving, eager' <=> eager
  PROVE  EdgeInv(e)' /\ Got(e)' = Got(e)
<1>1. ASSUME NEW r, NEW q, NEW s
      PROVE  Launched(r, q, s)' = Launched(r, q, s) /\ (Open(r, q, s)' <=> Open(r, q, s))
  BY SameEnd DEF InStart, InWait, Call
<1>2. Got(e)' = Got(e)
  BY <1>1 DEF Got
<1>. QED  BY <1>1, <1>2 DEF EdgeInv

LEMMA RankKeepsEdges ==
  ASSUME IInv, NEW e \in Edges, NEW p \in Proc, RankStep(p)
  PROVE  EdgeInv(e)' /\ Got(e)' = Got(e)
<1>1. /\ Typed /\ (\A r \in Proc : Turns(r)) /\ EdgeInv(e) /\ \A f \in Edges : EdgeInv(f)
      /\ \A r \in Proc : pc[r] = "S" => Kind[Call(r)[2]] # "standard"
  BY DEF IInv
<1>2. Typed'
  <2>1. Next
    BY DEF Next, Step
  <2>. QED  BY <1>1, <2>1, TypedStep
<1>3. e.src \in {e.src, e.dst} /\ e.dst \in {e.src, e.dst}
  OBVIOUS
<1>4. ASSUME Start(p)
      PROVE  EdgeInv(e)' /\ Got(e)' = Got(e)
  <2> DEFINE data == [f \in AtStart(p) |-> Constantly(f, started[p][Call(p)[2]] + 1)]
  <2>1. /\ Startall(p, AtStart(p), data) /\ recvbuf' = recvbuf /\ eager' = eager
        /\ pc[p] = "call"
    BY <1>4 DEF Start, AtStart, About
  <2>2. AtStart(p) \subseteq Edges
    BY MineIsEdges DEF AtStart
  <2>3. Touched(e, p, AtStart(p), data[e])
    BY <2>1, <2>2, StartallTouches
  <2>4. EndMoves(e.src, e, p, AtStart(p), {}) /\ EndMoves(e.dst, e, p, AtStart(p), {})
    BY <1>1, <1>2, <1>3, <1>4, StartEnds
  <2>5. ASSUME e \in AtStart(p), e.src = p
        PROVE  data[e] = Constantly(e, Launched(e.src, e.req, e.step) + 1)
    <3>1. e.req = Call(p)[2] /\ e.step \in {"L", "S", "G"}
      BY <2>5 DEF AtStart, Mine
    <3>2. ~ InStart(p, e.req)
      BY <2>1 DEF InStart
    <3>3. Launched(p, e.req, e.step) = started[p][e.req]
      BY <3>1, <3>2, Steps4
    <3>. QED  BY <2>5, <3>1, <3>3
  <2>. HIDE DEF data
  <2>. QED  BY <1>1, <2>3, <2>4, <2>5, EdgeKeeps
<1>5. ASSUME StartGlobal(p)
      PROVE  EdgeInv(e)' /\ Got(e)' = Got(e)
  <2> DEFINE E == AtCall(p, "G")
             data == Forward({ f \in E : f.src = p }, "S")
  <2>1. /\ Startall(p, E, data) /\ recvbuf' = recvbuf /\ eager' = eager
        /\ Complete(p, AtCall(p, "S")) /\ pc[p] = "S"
    BY <1>5 DEF StartGlobal, AtCall
  <2>2. E \subseteq Edges
    BY MineIsEdges DEF AtCall
  <2>3. Touched(e, p, E, data[e])
    BY <2>1, <2>2, StartallTouches
  <2>4. EndMoves(e.src, e, p, E, AtCall(p, "S")) /\ EndMoves(e.dst, e, p, E, AtCall(p, "S"))
    BY <1>1, <1>2, <1>3, <1>5, StartGlobalEnds
  <2>5. ASSUME e \in E, e.src = p
        PROVE  data[e] = Constantly(e, Launched(e.src, e.req, e.step) + 1)
    <3>1. e.req = Call(p)[2] /\ e.step = "G"
      BY <2>5 DEF AtCall, Mine
    <3>2. data[e] = [i \in Load[e] |-> Received(e.req, i, "S")]
      BY <2>5 DEF Forward
    <3>. QED  BY <1>1, <2>1, <2>5, <3>1, <3>2, Forwarded
  <2>6. /\ e \in AtCall(p, "S") /\ e.src = p => e \notin sending
        /\ e \in AtCall(p, "S") /\ e.dst = p => e \notin receiving
    BY <2>1 DEF Complete
  <2>. HIDE DEF data, E
  <2>. QED  BY <1>1, <2>3, <2>4, <2>5, <2>6, EdgeKeeps
<1>6. ASSUME WaitGlobal(p)
      PROVE  EdgeInv(e)' /\ Got(e)' = Got(e)
  <2> DEFINE E == AtCall(p, "R")
             data == Forward({ f \in E : f.src = p }, "G")
  <2>1. /\ Startall(p, E, data) /\ recvbuf' = recvbuf /\ eager' = eager
        /\ Complete(p, AtCall(p, "G")) /\ About(p, "wait")
    BY <1>6 DEF WaitGlobal, AtCall
  <2>2. E \subseteq Edges
    BY MineIsEdges DEF AtCall
  <2>3. Touched(e, p, E, data[e])
    BY <2>1, <2>2, StartallTouches
  <2>4. EndMoves(e.src, e, p, E, AtCall(p, "G")) /\ EndMoves(e.dst, e, p, E, AtCall(p, "G"))
    BY <1>1, <1>2, <1>3, <1>6, WaitGlobalEnds
  <2>5. ASSUME e \in E, e.src = p
        PROVE  data[e] = Constantly(e, Launched(e.src, e.req, e.step) + 1)
    <3>1. e.req = Call(p)[2] /\ e.step = "R"
      BY <2>5 DEF AtCall, Mine
    <3>2. data[e] = [i \in Load[e] |-> Received(e.req, i, "G")]
      BY <2>5 DEF Forward
    <3>. QED  BY <1>1, <2>1, <2>5, <3>1, <3>2, Forwarded
  <2>6. /\ e \in AtCall(p, "G") /\ e.src = p => e \notin sending
        /\ e \in AtCall(p, "G") /\ e.dst = p => e \notin receiving
    BY <2>1 DEF Complete
  <2>. HIDE DEF data, E
  <2>. QED  BY <1>1, <2>3, <2>4, <2>5, <2>6, EdgeKeeps
<1>7. ASSUME NEW s \in {"R", "L"},
             s = "R" => WaitLocalR(p), s = "L" => WaitLocalL(p)
      PROVE  EdgeInv(e)' /\ Got(e)' = Got(e)
  <2>1. /\ Complete(p, AtCall(p, s)) /\ eager' = eager
        /\ UNCHANGED <<sendbuf, recvbuf, channel, sending, receiving>>
    BY <1>7 DEF WaitLocalR, WaitLocalL, AtCall
  <2>2. Touched(e, p, {}, << >>)
    BY <2>1 DEF Touched
  <2>3. EndMoves(e.src, e, p, {}, AtCall(p, s)) /\ EndMoves(e.dst, e, p, {}, AtCall(p, s))
    BY <1>1, <1>2, <1>3, <1>7, WaitLocalEnds
  <2>4. /\ e \in AtCall(p, s) /\ e.src = p => e \notin sending
        /\ e \in AtCall(p, s) /\ e.dst = p => e \notin receiving
    BY <2>1 DEF Complete
  <2>. QED  BY <1>1, <2>2, <2>3, <2>4, EdgeKeeps
<1>8. ASSUME WaitLocalR(p) \/ WaitLocalL(p)
       PROVE  EdgeInv(e)' /\ Got(e)' = Got(e)
  <2>1. WaitLocalR(p) => EdgeInv(e)' /\ Got(e)' = Got(e)
    <3>. "R" \in {"R", "L"} /\ "R" # "L"
      OBVIOUS
    <3>. QED  BY <1>7
  <2>2. WaitLocalL(p) => EdgeInv(e)' /\ Got(e)' = Got(e)
    <3>. "L" \in {"R", "L"} /\ "R" # "L"
      OBVIOUS
    <3>. QED  BY <1>7
  <2>. QED  BY <1>8, <2>1, <2>2
<1>. QED  BY <1>4, <1>5, <1>6, <1>8 DEF RankStep

LEMMA DeliverKeepsEdges ==
  ASSUME Typed, NEW f \in Edges, Deliver(f), NEW e \in Edges, EdgeInv(e)
  PROVE  EdgeInv(e)' /\ Got(e)' = IF e = f THEN Got(e) + 1 ELSE Got(e)
<1>1. CASE e = f
  BY <1>1, Delivered
<1>2. CASE e # f
  <2>1. /\ pos' = pos /\ pc' = pc /\ program' = program /\ started' = started /\ done' = done
        /\ sendbuf' = sendbuf /\ eager' = eager
        /\ e \in sending' <=> e \in sending
        /\ e \in receiving' <=> e \in receiving
    BY <1>2 DEF Deliver
  <2>2. recvbuf'[e] = recvbuf[e] /\ channel'[e] = channel[e]
    BY <1>2 DEF Deliver, Typed
  <2>. QED  BY <1>2, <2>1, <2>2, EdgeUntouched
<1>. QED  BY <1>1, <1>2
-----------------------------------------------------------------------------
(* What a rank's user buffer holds.                                           *)
LEMMA OutStays ==
  ASSUME NEW q, NEW i, OutInv(q, i), out'[q][i] = out[q][i],
         done'[i[2]][q] = done[i[2]][q],
         (pc[i[2]] = "L" /\ Call(i[2])[2] = q)' <=> pc[i[2]] = "L" /\ Call(i[2])[2] = q,
         Kind[q] = "standard" => Got(Edge(q, i, "G"))' = Got(Edge(q, i, "G"))
  PROVE  OutInv(q, i)'
<1>1. CASE Kind[q] = "standard"
  BY <1>1, Zenon DEF OutInv
<1>2. CASE Kind[q] # "standard" /\ pc[i[2]] = "L" /\ Call(i[2])[2] = q
  BY <1>2, Zenon DEF OutInv
<1>3. CASE Kind[q] # "standard" /\ ~ (pc[i[2]] = "L" /\ Call(i[2])[2] = q)
  BY <1>3, Zenon DEF OutInv
<1>. QED  BY <1>1, <1>2, <1>3

LEMMA StandardEdge ==
  ASSUME NEW q \in Req, NEW i \in Items[q], Kind[q] = "standard"
  PROVE  LET e == Edge(q, i, "G") IN
         /\ e \in Edges /\ e.req = q /\ e.step = "G" /\ e.src = i[1] /\ e.dst = i[2]
         /\ \A f \in Edges : f.req = q => (i \in Load[f] <=> f = e)
<1> DEFINE e == Edge(q, i, "G")
<1>1. Hop(q, i, "G") = <<i[1], i[2]>> /\ "G" \in Steps
  BY Standard, Pairs DEF Steps
<1>2. e \in Edges /\ e.req = q /\ e.step = "G" /\ e.src = i[1] /\ e.dst = i[2] /\ i \in Load[e]
  BY <1>1, Carries
<1>3. ASSUME NEW f \in Edges, f.req = q, i \in Load[f]
      PROVE  f = e
  <2>1. Hop(q, i, f.step) = <<f.src, f.dst>> /\ f.step \in {"L", "S", "G", "R"}
    BY <1>3, EdgeShape DEF Steps
  <2>2. Hop(q, i, f.step) # << >>
    BY <2>1
  <2>3. f.step = "G"
    BY <2>1, <2>2, Standard
  <2>4. f = [req |-> f.req, step |-> f.step, src |-> f.src, dst |-> f.dst]
    BY DEF Edges
  <2>5. f.src = i[1] /\ f.dst = i[2]
    BY <1>1, <2>1, <2>3
  <2>6. e = [req |-> q, step |-> "G", src |-> i[1], dst |-> i[2]]
    BY <1>1 DEF Edge
  <2>. QED  BY <1>3, <2>3, <2>4, <2>5, <2>6
<1>. QED  BY <1>2, <1>3

(* What p has received for a pair whose step it has waited for.                   *)
LEMMA Arrived ==
  ASSUME Typed, NEW e \in Edges, EdgeInv(e), e \notin receiving, NEW i \in Load[e]
  PROVE  recvbuf[e][i] = Launched(e.dst, e.req, e.step)
BY DEF EdgeInv, Got, Constantly

LEMMA OutRank ==
  ASSUME IInv, NEW p \in Proc, RankStep(p), NEW q \in Req, NEW i \in Items[q]
  PROVE  OutInv(q, i)'
<1> DEFINE d == i[2]
           mine == q = Call(p)[2] /\ d = p
<1>1. /\ Typed /\ OutInv(q, i) /\ Turns(p) /\ \A e \in Edges : EdgeInv(e)
      /\ d \in Proc
  BY Pairs DEF IInv
<1>2. Kind[q] = "standard" => Got(Edge(q, i, "G"))' = Got(Edge(q, i, "G"))
  BY StandardEdge, RankKeepsEdges
<1>3. CASE Start(p) \/ StartGlobal(p) \/ WaitGlobal(p)
  <2>1. out' = out /\ done' = done /\ program' = program
    BY <1>3 DEF Start, StartGlobal, WaitGlobal
  <2>2. /\ pc[p] # "L" /\ pc'[p] # "L"
        /\ \A r \in Proc \ {p} : pc'[r] = pc[r] /\ pos'[r] = pos[r]
    <3>1. CASE Start(p)
      <4>1. /\ pc[p] = "call"
            /\ Return(p) \/ (pc' = [pc EXCEPT ![p] = "S"] /\ pos' = pos)
        BY <3>1 DEF Start, About
      <4>. QED  BY <1>1, <4>1 DEF Typed, Return
    <3>2. CASE StartGlobal(p)
      BY <1>1, <3>2 DEF StartGlobal, Typed, Return
    <3>3. CASE WaitGlobal(p)
      BY <1>1, <3>3 DEF WaitGlobal, About, Typed
    <3>. QED  BY <1>3, <3>1, <3>2, <3>3
  <2>3. (pc[d] = "L" /\ Call(d)[2] = q)' <=> pc[d] = "L" /\ Call(d)[2] = q
    BY <1>1, <2>1, <2>2 DEF Call
  <2>. QED  BY <1>1, <1>2, <2>1, <2>3, OutStays
<1>4. CASE WaitLocalR(p)
  <2>1. /\ pc[p] = "R" /\ Complete(p, AtCall(p, "R")) /\ Unpack(p, Call(p)[2], "R")
        /\ pc' = [pc EXCEPT ![p] = "L"] /\ program' = program /\ pos' = pos /\ done' = done
    BY <1>4 DEF WaitLocalR, AtCall
  <2>2. \A r \in Proc : Call(r)' = Call(r) /\ pc'[r] = IF r = p THEN "L" ELSE pc[r]
    BY <1>1, <2>1 DEF Typed, Call
  <2>3. out'[q][i] = IF mine /\ Hop(q, i, "R") # << >> THEN Received(q, i, "R") ELSE out[q][i]
    BY <1>1, <2>1 DEF Unpack, Typed
  <2>4. CASE mine /\ Hop(q, i, "R") # << >>
    <3>1. Kind[q] # "standard"
      BY <2>4, Standard
    <3>2. PICK b \in Proc : Hop(q, i, "R") = <<b, d>>
      <4>1. Node[i[1]] # Node[i[2]]
        BY <2>4, <3>1, WithinNode
      <4>. QED  BY <3>1, <4>1, AcrossNodes
    <3>3. PICK e \in Edges : /\ e = Edge(q, i, "R") /\ e.req = q /\ e.step = "R" /\ e.dst = p
                             /\ i \in Load[e]
      <4>1. "R" \in Steps
        BY DEF Steps
      <4>. QED  BY <2>4, <3>2, <4>1, Carries
    <3>4. e \in AtCall(p, "R")
      BY <2>4, <3>3 DEF AtCall, Mine
    <3>5. e \notin receiving
      BY <2>1, <3>3, <3>4 DEF Complete
    <3>6. InWait(p, q)
      BY <2>1, <2>4 DEF InWait
    <3>7. Received(q, i, "R") = done[p][q] + 1
      <4>1. recvbuf[e][i] = Launched(p, q, "R")
        BY <1>1, <3>3, <3>5, Arrived
      <4>2. Launched(p, q, "R") = done[p][q] + 1
        BY <3>6, Steps4
      <4>. QED  BY <3>3, <4>1, <4>2 DEF Received
    <3>8. (out[q][i])' = done[p][q] + 1 /\ done' = done /\ pc'[d] = "L" /\ Call(d)'[2] = q
      BY <2>1, <2>2, <2>3, <2>4, <3>7
    <3>. QED  BY <2>4, <3>1, <3>8 DEF OutInv
  <2>5. CASE mine /\ Hop(q, i, "R") = << >>
    <3>1. (out[q][i])' = out[q][i] /\ done' = done
      BY <2>1, <2>3, <2>5
    <3>. QED  BY <1>1, <1>2, <2>5, <3>1, Zenon DEF OutInv
  <2>6. CASE ~ mine
    <3>1. out'[q][i] = out[q][i]
      BY <2>3, <2>6
    <3>2. (pc[d] = "L" /\ Call(d)[2] = q)' <=> pc[d] = "L" /\ Call(d)[2] = q
      BY <1>1, <2>2, <2>6
    <3>. QED  BY <1>1, <1>2, <2>1, <3>1, <3>2, OutStays
  <2>. QED  BY <2>4, <2>5, <2>6
<1>5. CASE WaitLocalL(p)
  <2>1. /\ pc[p] = "L" /\ Complete(p, AtCall(p, "L")) /\ Unpack(p, Call(p)[2], "L")
        /\ Return(p) /\ program' = program /\ done' = [done EXCEPT ![p][Call(p)[2]] = @ + 1]
        /\ started' = started
    BY <1>5 DEF WaitLocalL, AtCall
  <2>2. \A r \in Proc : IF r = p THEN pc'[r] = "call" ELSE Call(r)' = Call(r) /\ pc'[r] = pc[r]
    BY <1>1, <2>1 DEF Typed, Call, Return
  <2>3. out'[q][i] = IF mine /\ Hop(q, i, "L") # << >> THEN Received(q, i, "L") ELSE out[q][i]
    BY <1>1, <2>1 DEF Unpack, Typed
  <2>4. ASSUME mine
        PROVE  /\ started[p][q] = done[p][q] + 1 /\ done'[p][q] = done[p][q] + 1
               /\ pc'[d] = "call"
    <3>1. Running(p)
      BY <1>1, <2>1 DEF Turns
    <3>2. started[p][q] = done[p][q] + 1 /\ done[p][q] \in Nat
      BY <1>1, <2>1, <2>4, <3>1, CallTurn
    <3>. QED  BY <1>1, <2>1, <2>2, <2>4, <3>2 DEF Typed
  <2>5. CASE mine /\ Kind[q] = "standard"
    <3>1. (out[q][i])' = out[q][i]
      BY <2>3, <2>5, Standard
    <3>. QED  BY <1>1, <1>2, <2>5, <3>1, Zenon DEF OutInv
  <2>6. CASE mine /\ Kind[q] # "standard" /\ Node[i[1]] = Node[i[2]]
    <3>1. Hop(q, i, "L") = <<i[1], i[2]>> /\ Hop(q, i, "R") = << >> /\ "L" \in Steps
      BY <2>6, WithinNode, Pairs DEF Steps
    <3>2. PICK e \in Edges : /\ e = Edge(q, i, "L") /\ e.req = q /\ e.step = "L" /\ e.dst = p
                             /\ i \in Load[e]
      BY <2>6, <3>1, Carries
    <3>3. e \in AtCall(p, "L")
      BY <2>6, <3>2 DEF AtCall, Mine
    <3>4. e \notin receiving
      BY <2>1, <3>2, <3>3 DEF Complete
    <3>5. Received(q, i, "L") = started[p][q]
      <4>1. recvbuf[e][i] = Launched(p, q, "L")
        BY <1>1, <3>2, <3>4, Arrived
      <4>. QED  BY <3>2, <4>1, Steps4 DEF Received
    <3>6. Hop(q, i, "L") # << >>
      BY <3>1
    <3>7. (out[q][i])' = (done[d][q])'
      BY <2>3, <2>4, <2>6, <3>5, <3>6
    <3>. QED  BY <2>6, <3>1, <3>7, Zenon DEF OutInv
  <2>7. CASE mine /\ Kind[q] # "standard" /\ Node[i[1]] # Node[i[2]]
    <3>1. Hop(q, i, "L") = << >> /\ Hop(q, i, "R") # << >>
      BY <2>7, AcrossNodes
    <3>2. out[q][i] = done[p][q] + 1
      BY <1>1, <2>1, <2>7, <3>1, Zenon DEF OutInv
    <3>3. (out[q][i])' = (done[d][q])' /\ pc'[d] # "L"
      BY <2>3, <2>4, <2>7, <3>1, <3>2
    <3>. QED  BY <2>7, <3>3, Zenon DEF OutInv
  <2>8. CASE ~ mine
    <3>1. out'[q][i] = out[q][i]
      BY <2>3, <2>8
    <3>2. (pc[d] = "L" /\ Call(d)[2] = q)' <=> pc[d] = "L" /\ Call(d)[2] = q
      <4>1. CASE d = p
        BY <2>2, <2>8, <4>1
      <4>2. CASE d # p
        BY <1>1, <2>2, <4>2
      <4>. QED  BY <4>1, <4>2
    <3>3. done'[d][q] = done[d][q]
      BY <1>1, <2>1, <2>8 DEF Typed
    <3>. QED  BY <1>1, <1>2, <3>1, <3>2, <3>3, OutStays
  <2>. QED  BY <2>5, <2>6, <2>7, <2>8
<1>. QED  BY <1>3, <1>4, <1>5 DEF RankStep

LEMMA OutDelivered ==
  ASSUME IInv, NEW f \in Edges, Deliver(f), NEW q \in Req, NEW i \in Items[q]
  PROVE  OutInv(q, i)'
<1> DEFINE data == IF eager THEN Head(channel[f]) ELSE sendbuf[f]
<1>1. /\ Typed /\ OutInv(q, i) /\ (\A e \in Edges : EdgeInv(e)) /\ i[2] \in Proc
  BY Pairs DEF IInv
<1>2. /\ program' = program /\ pos' = pos /\ pc' = pc /\ done' = done
      /\ out' = IF Kind[f.req] = "standard"
                THEN [out EXCEPT ![f.req] =
                        [j \in Items[f.req] |-> IF j \in Load[f] THEN data[j] ELSE @[j]]]
                ELSE out
  BY DEF Deliver
<1>. HIDE DEF data
<1>3. (pc[i[2]] = "L" /\ Call(i[2])[2] = q)' <=> pc[i[2]] = "L" /\ Call(i[2])[2] = q
  BY <1>2 DEF Call
<1>4. CASE Kind[q] # "standard"
  <2>1. out'[q] = out[q]
    BY <1>1, <1>2, <1>4 DEF Typed
  <2>. QED  BY <1>1, <1>2, <1>3, <1>4, <2>1, OutStays
<1>5. CASE Kind[q] = "standard"
  <2> DEFINE e == Edge(q, i, "G")
  <2>1. e \in Edges /\ e.req = q /\ \A g \in Edges : g.req = q => (i \in Load[g] <=> g = e)
    BY <1>5, StandardEdge
  <2>2. Got(e)' = IF e = f THEN Got(e) + 1 ELSE Got(e)
    BY <1>1, <2>1, DeliverKeepsEdges
  <2>3. out'[q][i] = IF e = f THEN data[i] ELSE out[q][i]
    BY <1>1, <1>2, <1>5, <2>1 DEF Typed
  <2>4. CASE e = f
    <3>1. data = Constantly(f, Got(f) + 1)
      BY <1>1, Delivered DEF data
    <3>2. (out[q][i])' = Got(e)'
      BY <2>1, <2>2, <2>3, <2>4, <3>1 DEF Constantly
    <3>. QED  BY <1>5, <3>2 DEF OutInv
  <2>5. CASE e # f
    BY <1>1, <1>2, <1>3, <2>2, <2>3, <2>5, OutStays
  <2>. QED  BY <2>4, <2>5
<1>. QED  BY <1>4, <1>5
-----------------------------------------------------------------------------
(* The invariant holds at the start and is kept.                               *)
LEMMA IInvInit == Init => IInv
<1>. SUFFICES ASSUME Init
              PROVE  IInv
  OBVIOUS
<1>1. Typed
  BY DEF Init, Typed
<1>2. ASSUME NEW p \in Proc, NEW q \in Req
      PROVE  ~ InStart(p, q) /\ ~ InWait(p, q) /\ started[p][q] = 0 /\ done[p][q] = 0
  BY <1>2 DEF Init, InStart, InWait
<1>3. ASSUME NEW p \in Proc
      PROVE  Turns(p) /\ pc[p] = "call"
  <2>1. pc[p] = "call" /\ pos[p] = 1
    BY DEF Init
  <2>2. ASSUME NEW q \in Req
        PROVE  Upcoming(p, q)
    <3>. SUFFICES ASSUME NEW k \in DOMAIN program[p], program[p][k][2] = q,
                         \A j \in 1 .. k - 1 : program[p][j][2] # q
                  PROVE  program[p][k][1] = "start"
      BY <1>2, <2>1 DEF Upcoming
    <3>1. program \in Programs
      BY DEF Init
    <3>. QED  BY <3>1, ProgramAssumption
  <2>. QED  BY <1>2, <2>1, <2>2 DEF Turns
<1>4. ASSUME NEW e \in Edges
      PROVE  EdgeInv(e) /\ Got(e) = 0
  <2>1. e.req \in Req /\ e.src \in Proc /\ e.dst \in Proc /\ e.step \in {"L", "S", "G", "R"}
    BY EdgeShape DEF Steps
  <2>2. ASSUME NEW p \in Proc
        PROVE  Launched(p, e.req, e.step) = 0
    <3>1. ~ InStart(p, e.req) /\ ~ InWait(p, e.req) /\ started[p][e.req] = 0 /\ done[p][e.req] = 0
      BY <1>2, <2>1
    <3>2. CASE e.step = "L"
      BY <3>1, <3>2, Steps4
    <3>3. CASE e.step = "S"
      BY <3>1, <3>3, Steps4
    <3>4. CASE e.step = "G"
      BY <3>1, <3>4, Steps4
    <3>5. CASE e.step = "R"
      BY <3>1, <3>5, Steps4
    <3>. QED  BY <2>1, <3>2, <3>3, <3>4, <3>5
  <2>3. /\ e \notin sending /\ e \notin receiving /\ channel[e] = << >>
        /\ sendbuf[e] = Constantly(e, 0) /\ recvbuf[e] = Constantly(e, 0)
    BY DEF Init
  <2>4. Got(e) = 0
    BY <2>1, <2>2, <2>3 DEF Got
  <2>5. << >> \in Seq([Load[e] -> Nat]) /\ Len(<< >>) = 0
    BY EmptySeq
  <2>. QED  BY <2>1, <2>2, <2>3, <2>4, <2>5 DEF EdgeInv
<1>5. ASSUME NEW q \in Req, NEW i \in Items[q]
      PROVE  OutInv(q, i)
  <2>1. out[q][i] = 0 /\ pc[i[2]] = "call" /\ done[i[2]][q] = 0
    BY Pairs DEF Init
  <2>2. CASE Kind[q] = "standard"
    <3>1. Edge(q, i, "G") \in Edges
      BY <2>2, StandardEdge
    <3>. QED  BY <1>4, <2>1, <2>2, <3>1, Zenon DEF OutInv
  <2>3. CASE Kind[q] # "standard"
    BY <2>1, <2>3 DEF OutInv
  <2>. QED  BY <2>2, <2>3
<1>. QED  BY <1>1, <1>3, <1>4, <1>5 DEF IInv

LEMMA IInvStep == IInv /\ [Next]_vars => IInv'
<1>. SUFFICES ASSUME IInv, [Next]_vars
              PROVE  IInv'
  OBVIOUS
<1>1. /\ Typed /\ (\A p \in Proc : Turns(p)) /\ (\A e \in Edges : EdgeInv(e))
      /\ \A q \in Req : \A i \in Items[q] : OutInv(q, i)
      /\ \A p \in Proc : pc[p] = "S" => Kind[Call(p)[2]] # "standard"
  BY DEF IInv
<1>2. ASSUME UNCHANGED vars
      PROVE  IInv'
  <2>1. \A e \in Edges : EdgeInv(e)' /\ Got(e)' = Got(e)
    BY <1>1, <1>2, EdgeUntouched DEF vars
  <2>2. Typed'
    BY <1>1, <1>2 DEF Typed, vars
  <2>3. \A p \in Proc : Turns(p)'
    BY <1>1, <1>2, TurnsStay DEF vars
  <2>4. ASSUME NEW q \in Req, NEW i \in Items[q]
        PROVE  OutInv(q, i)'
    <3>1. Kind[q] = "standard" => Got(Edge(q, i, "G"))' = Got(Edge(q, i, "G"))
      BY <2>1, StandardEdge
    <3>. QED  BY <1>1, <1>2, <3>1, OutStays DEF vars, Call
  <2>5. \A p \in Proc : (pc[p] = "S" => Kind[Call(p)[2]] # "standard")'
    BY <1>1, <1>2 DEF vars, Call
  <2>. QED  BY <2>1, <2>2, <2>3, <2>4, <2>5 DEF IInv
<1>3. ASSUME Step
      PROVE  IInv'
  <2>1. Next
    BY <1>3 DEF Next
  <2>2. Typed'
    BY <1>1, <2>1, TypedStep
  <2>3. \A p \in Proc : Turns(p)'
    BY <1>1, <2>1, TurnsStep
  <2>4. ASSUME NEW e \in Edges
        PROVE  EdgeInv(e)'
    BY <1>1, <1>3, RankKeepsEdges, DeliverKeepsEdges DEF Step
  <2>5. ASSUME NEW q \in Req, NEW i \in Items[q]
        PROVE  OutInv(q, i)'
    BY <1>3, OutRank, OutDelivered DEF Step
  <2>6. ASSUME NEW r \in Proc, (pc[r] = "S")'
        PROVE  (Kind[Call(r)[2]] # "standard")'
    <3>1. CASE pc[r] = "S" /\ pc'[r] = pc[r] /\ Call(r)' = Call(r)
      BY <1>1, <3>1
    <3>2. ASSUME NEW p \in Proc, RankStep(p), r # p
          PROVE  pc'[r] = pc[r] /\ Call(r)' = Call(r)
      <4>1. program' = program
        BY <3>2 DEF RankStep, Start, StartGlobal, WaitGlobal, WaitLocalR, WaitLocalL
      <4>2. pc'[r] = pc[r] /\ pos'[r] = pos[r]
        BY <1>1, <3>2 DEF RankStep, Start, StartGlobal, WaitGlobal, WaitLocalR, WaitLocalL,
                          Typed, Return
      <4>. QED  BY <4>1, <4>2 DEF Call
    <3>3. CASE RankStep(r)
      <4>1. CASE Start(r)
        <5>1. Mine(r, Call(r)[2], {"S"}) # {} /\ pos' = pos /\ program' = program
          <6>1. CASE Return(r)
            BY <1>1, <2>6, <6>1 DEF Return, Typed
          <6>2. CASE ~ Return(r)
            BY <4>1, <6>2 DEF Start
          <6>. QED  BY <6>1, <6>2
        <5>2. Call(r)[2] \in Req
          BY <1>1, <4>1, CallTyped DEF Start, About
        <5>. QED  BY <5>1, <5>2, AggregationOnly DEF Call
      <4>2. CASE StartGlobal(r) \/ WaitLocalL(r)
        BY <1>1, <2>6, <4>2 DEF StartGlobal, WaitLocalL, Return, Typed
      <4>3. CASE WaitGlobal(r) \/ WaitLocalR(r)
        BY <1>1, <2>6, <4>3 DEF WaitGlobal, WaitLocalR, Typed
      <4>. QED  BY <3>3, <4>1, <4>2, <4>3 DEF RankStep
    <3>4. ASSUME NEW f \in Edges, Deliver(f)
          PROVE  pc'[r] = pc[r] /\ Call(r)' = Call(r)
      BY <3>4 DEF Deliver, Call
    <3>. QED  BY <1>3, <2>6, <3>1, <3>2, <3>3, <3>4 DEF Step
  <2>. QED  BY <2>2, <2>3, <2>4, <2>5, <2>6 DEF IInv
<1>. QED  BY <1>2, <1>3 DEF Next, Finished
-----------------------------------------------------------------------------
(* The types of NeighborPersistent, for every topology, placement and program      *)
(* (neighbor_start.c, neighbor_wait.c).                                       *)
THEOREM TypeCorrect == Spec => []TypeOK
<1>1. IInv => TypeOK
  <2>. SUFFICES ASSUME IInv
                PROVE  TypeOK
    OBVIOUS
  <2>1. Typed
    BY DEF IInv
  <2>2. ASSUME NEW p \in Proc, NEW q \in Req
        PROVE  started[p][q] - done[p][q] \in 0 .. 1
    <3>1. started[p][q] = done[p][q] \/ started[p][q] = done[p][q] + 1
      BY DEF IInv, Turns
    <3>2. started[p][q] \in Nat /\ done[p][q] \in Nat
      BY <2>1 DEF Typed
    <3>. QED  BY <3>1, <3>2
  <2>3. ASSUME NEW e \in Edges
        PROVE  DOMAIN sendbuf[e] = Load[e] /\ DOMAIN recvbuf[e] = Load[e]
    BY DEF IInv, EdgeInv, Constantly
  <2>4. pos \in [Proc -> Nat]
    BY <2>1 DEF Typed
  <2>. QED  BY <2>1, <2>2, <2>3, <2>4 DEF Typed, TypeOK
<1>. QED  BY <1>1, IInvInit, IInvStep, PTL DEF Spec

(* Whatever its neighbors do, a rank that starts or waits for a request finds the  *)
(* persistent sends and receives it is about to restart complete: each has been   *)
(* waited for in the previous exchange (neighbor_start.c, neighbor_wait.c).      *)
THEOREM RestartsIdle == Spec => []IdleWhenRestarted
<1>1. IInv => IdleWhenRestarted
  <2>. SUFFICES ASSUME IInv, NEW p \in Proc
                PROVE  LET mine(S) == Mine(p, Call(p)[2], S) IN
                       /\ About(p, "start") => Complete(p, mine(Steps))
                       /\ Running(p) /\ pc[p] = "S" => Complete(p, mine({"G", "R"}))
                       /\ About(p, "wait") => Complete(p, mine({"S", "R"}))
    BY DEF IdleWhenRestarted
  <2> DEFINE q == Call(p)[2]
  <2>1. Typed /\ Turns(p) /\ \A e \in Edges : EdgeInv(e)
    BY DEF IInv
  <2>2. ASSUME NEW S, \A s \in S \cap Steps : ~ Open(p, q, s)
        PROVE  Complete(p, Mine(p, q, S))
    <3>. SUFFICES ASSUME NEW e \in Mine(p, q, S)
                  PROVE  ~ (e.src = p /\ e \in sending) /\ ~ (e.dst = p /\ e \in receiving)
      BY DEF Complete
    <3>1. e \in Edges /\ e.req = q /\ e.step \in S /\ e.step \in Steps
      BY EdgeShape DEF Mine
    <3>2. /\ e \in sending => Open(e.src, e.req, e.step)
          /\ e \in receiving => Open(e.dst, e.req, e.step)
      BY <2>1, <3>1 DEF EdgeInv
    <3>. QED  BY <2>2, <3>1, <3>2
  <2>3. ASSUME About(p, "start"), NEW s \in Steps
        PROVE  ~ Open(p, q, s)
    <3>1. started[p][q] = done[p][q] /\ pc[p] = "call"
      BY <2>1, <2>3, CallTurn DEF About
    <3>2. ~ InStart(p, q) /\ ~ InWait(p, q)
      BY <3>1 DEF InStart, InWait
    <3>. QED  BY <3>1, <3>2, Steps4 DEF Steps
  <2>4. ASSUME pc[p] = "S"
        PROVE  ~ Open(p, q, "G") /\ ~ Open(p, q, "R")
    <3>1. InStart(p, q) /\ ~ InWait(p, q)
      BY <2>4 DEF InStart, InWait
    <3>. QED  BY <3>1, Steps4
  <2>5. ASSUME About(p, "wait")
        PROVE  ~ Open(p, q, "S") /\ ~ Open(p, q, "R")
    <3>1. ~ InStart(p, q) /\ ~ InWait(p, q)
      BY <2>5 DEF InStart, InWait, About
    <3>. QED  BY <3>1, Steps4
  <2>. HIDE DEF q
  <2>6. About(p, "start") => Complete(p, Mine(p, q, Steps))
    BY <2>2, <2>3
  <2>7. pc[p] = "S" => Complete(p, Mine(p, q, {"G", "R"}))
    BY <2>2, <2>4
  <2>8. About(p, "wait") => Complete(p, Mine(p, q, {"S", "R"}))
    BY <2>2, <2>5
  <2>. QED  BY <2>6, <2>7, <2>8 DEF q
<1>. QED  BY <1>1, IInvInit, IInvStep, PTL DEF Spec

LEMMA OwnIterationInv == IInv => OwnIteration
<1>. SUFFICES ASSUME IInv, NEW p \in Proc, NEW q \in Req, started[p][q] = done[p][q],
                     NEW i \in Items[q], i[2] = p
              PROVE  out[q][i] = done[p][q]
  BY DEF OwnIteration
<1>1. Typed /\ Turns(p) /\ OutInv(q, i) /\ \A e \in Edges : EdgeInv(e)
  BY DEF IInv
<1>2. ~ InStart(p, q) /\ ~ InWait(p, q)
  BY <1>1 DEF Turns, InStart, InWait
<1>3. CASE Kind[q] = "standard"
  <2>1. PICK e \in Edges : e = Edge(q, i, "G") /\ e.req = q /\ e.step = "G" /\ e.dst = p
    BY <1>3, StandardEdge
  <2>2. ~ Open(p, q, "G") /\ Launched(p, q, "G") = started[p][q]
    BY <1>2, Steps4
  <2>3. e \notin receiving
    BY <1>1, <2>1, <2>2 DEF EdgeInv
  <2>4. Got(e) = started[p][q]
    BY <2>1, <2>2, <2>3 DEF Got
  <2>. QED  BY <1>1, <1>3, <2>1, <2>4 DEF OutInv
<1>4. CASE Kind[q] # "standard"
  <2>1. ~ (pc[p] = "L" /\ Call(p)[2] = q)
    BY <1>2 DEF InWait
  <2>. QED  BY <1>1, <1>4, <2>1 DEF OutInv
<1>. QED  BY <1>3, <1>4

(* A Wait that returned leaves in the user's buffer the data of this exchange    *)
(* from every neighbor: none of the reused buffers holds that of another one,      *)
(* however far neighbors run ahead and whichever requests are open together        *)
(* (neighbor_wait.c).                                                        *)
THEOREM ReceivesOwnIteration == Spec => []OwnIteration
BY OwnIterationInv, IInvInit, IInvStep, PTL DEF Spec
-----------------------------------------------------------------------------
(* How far the other ranks must be when a Wait returns.                          *)
LEMMA SentBefore ==
  ASSUME NEW e \in Edges, EdgeInv(e)
  PROVE  /\ Launched(e.src, e.req, e.step) \in Nat /\ Got(e) \in Nat
         /\ Got(e) <= Launched(e.src, e.req, e.step)
<1>1. /\ Launched(e.src, e.req, e.step) \in Nat /\ Got(e) \in Nat
      /\ channel[e] \in Seq([Load[e] -> Nat])
      /\ Launched(e.src, e.req, e.step) = Got(e) + Len(channel[e])
  BY DEF EdgeInv
<1>2. Len(channel[e]) \in Nat
  BY <1>1, LenProperties
<1>. QED  BY <1>1, <1>2

LEMMA GotBefore ==
  ASSUME Typed, NEW f \in Edges, EdgeInv(f), Turns(f.dst), NEW s,
         \/ f.step = "S" /\ s = "G"
         \/ f.step = "G" /\ s = "R"
  PROVE  Launched(f.dst, f.req, s) \in Int /\ Launched(f.dst, f.req, s) <= Got(f)
<1> DEFINE p == f.dst
           q == f.req
<1>1. q \in Req /\ p \in Proc
  BY EdgeShape
<1>2. /\ started[p][q] \in Nat /\ done[p][q] \in Nat
      /\ started[p][q] = done[p][q] \/ started[p][q] = done[p][q] + 1
  <2>1. started[p][q] \in Nat /\ done[p][q] \in Nat
    BY <1>1 DEF Typed
  <2>2. started[p][q] = done[p][q] \/ started[p][q] = done[p][q] + 1
    BY <1>1 DEF Turns
  <2>. QED  BY <2>1, <2>2
<1>3. InWait(p, q) => started[p][q] # done[p][q] /\ ~ InStart(p, q)
  BY DEF Turns, InWait, InStart
<1>4. f \in receiving => Open(p, q, f.step)
  BY DEF EdgeInv
<1>5. InStart(p, q) => started[p][q] # done[p][q]
  BY DEF Turns, InStart
<1>6. Got(f) = IF f \in receiving THEN Launched(p, q, f.step) - 1 ELSE Launched(p, q, f.step)
  BY DEF Got
<1>. HIDE DEF p, q
<1>7. CASE f.step = "S" /\ s = "G"
  BY <1>2, <1>4, <1>6, <1>7, Steps4 DEF p, q
<1>8. CASE f.step = "G" /\ s = "R"
  BY <1>2, <1>3, <1>4, <1>5, <1>6, <1>8, Steps4 DEF p, q
<1>. QED  BY <1>7, <1>8

LEMMA SourceStarted ==
  ASSUME IInv, NEW p \in Proc, WaitLocalL(p), NEW q \in Req, q = Call(p)[2],
         NEW i \in Items[q], i[2] = p
  PROVE  started[i[1]][q] >= started[p][q]
<1>1. Typed /\ (\A r \in Proc : Turns(r)) /\ (\A e \in Edges : EdgeInv(e))
  BY DEF IInv
<1>2. pc[p] = "L" /\ Complete(p, AtCall(p, "L"))
  BY DEF WaitLocalL, AtCall
<1>3. ~ InStart(p, q) /\ InWait(p, q)
  BY <1>2 DEF InStart, InWait
<1>4. started[p][q] = done[p][q] + 1 /\ done[p][q] \in Nat /\ i[1] \in Proc
  <2>1. Running(p)
    BY <1>1, <1>2 DEF Turns
  <2>. QED  BY <1>1, <1>2, <2>1, CallTurn, Pairs
<1>5. started[i[1]][q] \in Nat
  BY <1>1, <1>4 DEF Typed
<1>6. /\ ~ Open(p, q, "G") /\ ~ Open(p, q, "R")
      /\ Launched(p, q, "G") = started[p][q] /\ Launched(p, q, "R") = started[p][q]
      /\ Launched(p, q, "L") = started[p][q]
  BY <1>2, <1>3, <1>4, Steps4
<1>7. CASE Kind[q] = "standard"
  <2>1. PICK e \in Edges : /\ e.req = q /\ e.step = "G" /\ e.src = i[1] /\ e.dst = p
    BY <1>7, StandardEdge
  <2>2. Got(e) = started[p][q]
    BY <1>1, <1>6, <2>1 DEF Got, EdgeInv
  <2>3. started[p][q] <= Launched(i[1], q, "G")
    BY <1>1, <2>1, <2>2, SentBefore
  <2>4. Launched(i[1], q, "G") <= started[i[1]][q]
    BY <1>5, Steps4
  <2>5. Launched(i[1], q, "G") \in Int
    BY <1>5, Steps4
  <2>. QED  BY <1>4, <1>5, <2>3, <2>4, <2>5
<1>8. CASE Kind[q] # "standard" /\ Node[i[1]] = Node[i[2]]
  <2>1. Hop(q, i, "L") = <<i[1], i[2]>> /\ "L" \in Steps
    BY <1>8, WithinNode, Pairs DEF Steps
  <2>2. PICK e \in Edges : e.req = q /\ e.step = "L" /\ e.src = i[1] /\ e.dst = p
    BY <2>1, Carries
  <2>3. e \in AtCall(p, "L")
    BY <2>2 DEF AtCall, Mine
  <2>4. Got(e) = started[p][q]
    BY <1>2, <1>6, <2>2, <2>3 DEF Got, Complete
  <2>5. started[p][q] <= Launched(i[1], q, "L")
    BY <1>1, <2>2, <2>4, SentBefore
  <2>. QED  BY <1>4, <1>5, <2>5, Steps4
<1>9. CASE Kind[q] # "standard" /\ Node[i[1]] # Node[i[2]]
  <2>1. PICK a \in Proc, b \in Proc :
          /\ Hop(q, i, "S") = <<i[1], a>> /\ Hop(q, i, "G") = <<a, b>>
          /\ Hop(q, i, "R") = <<b, i[2]>>
    BY <1>9, AcrossNodes
  <2>2. "S" \in Steps /\ "G" \in Steps /\ "R" \in Steps
    BY DEF Steps
  <2>3. PICK eR \in Edges : eR.req = q /\ eR.step = "R" /\ eR.src = b /\ eR.dst = p
    BY <2>1, <2>2, Carries
  <2>4. PICK eG \in Edges : eG.req = q /\ eG.step = "G" /\ eG.src = a /\ eG.dst = b
    BY <2>1, <2>2, Carries
  <2>5. PICK eS \in Edges : eS.req = q /\ eS.step = "S" /\ eS.src = i[1] /\ eS.dst = a
    BY <2>1, <2>2, Carries
  <2>6. Got(eR) = started[p][q]
    BY <1>1, <1>6, <2>3 DEF Got, EdgeInv
  <2>7. Got(eR) <= Launched(b, q, "R") /\ Launched(b, q, "R") \in Nat
    BY <1>1, <2>3, SentBefore
  <2>8. Launched(b, q, "R") <= Got(eG)
    BY <1>1, <2>4, GotBefore
  <2>9. Got(eG) \in Nat /\ Got(eG) <= Launched(a, q, "G") /\ Launched(a, q, "G") \in Nat
    BY <1>1, <2>4, SentBefore
  <2>10. Launched(a, q, "G") <= Got(eS)
    BY <1>1, <2>5, GotBefore
  <2>11. Got(eS) \in Nat /\ Got(eS) <= Launched(i[1], q, "S")
    BY <1>1, <2>5, SentBefore
  <2>12. Launched(i[1], q, "S") = started[i[1]][q]
    BY Steps4
  <2>. QED  BY <1>4, <1>5, <2>6, <2>7, <2>8, <2>9, <2>10, <2>11, <2>12
<1>. QED  BY <1>7, <1>8, <1>9

(* What the user may see of the buffers is what the promise says it holds.        *)
Held == [q \in Req |-> [i \in Items[q] |->
           IF started[i[2]][q] = done[i[2]][q] THEN out[q][i] ELSE done[i[2]][q]]]

LEMMA HeldIsDone == IInv => Held = [q \in Req |-> [i \in Items[q] |-> done[i[2]][q]]]
<1>. SUFFICES ASSUME IInv, NEW q \in Req, NEW i \in Items[q], started[i[2]][q] = done[i[2]][q]
              PROVE  out[q][i] = done[i[2]][q]
  BY DEF Held
<1>. QED  BY OwnIterationInv, Pairs DEF OwnIteration

LEMMA StepKeepsPromise ==
  ASSUME IInv, IInv', [Next]_vars
  PROVE  [Promise!Next]_Promise!vars
<1>1. /\ Typed /\ (\A p \in Proc : Turns(p))
      /\ Held = [q \in Req |-> [i \in Items[q] |-> done[i[2]][q]]]
      /\ Held' = [q \in Req |-> [i \in Items[q] |-> done'[i[2]][q]]]
  <2>1. (IInv => Held = [q \in Req |-> [i \in Items[q] |-> done[i[2]][q]]])'
    BY HeldIsDone, PTL
  <2>. QED  BY <2>1, HeldIsDone DEF IInv
<1>2. started' = started /\ done' = done => Held' = Held
  BY <1>1
<1>3. ASSUME NEW p \in Proc, Start(p)
      PROVE  Promise!Next
  <2>1. PICK q \in Req : q = Call(p)[2] /\ started[p][q] = done[p][q]
    BY <1>1, <1>3, CallTurn DEF Start, About
  <2>2. started' = [started EXCEPT ![p][q] = @ + 1] /\ done' = done
    BY <1>3, <2>1 DEF Start
  <2>3. Held' = Held
    BY <1>1, <2>2
  <2>4. Promise!Start(p, q)
    BY <2>1, <2>2, <2>3 DEF Promise!Start, Held
  <2>. QED  BY <2>4 DEF Promise!Next
<1>4. ASSUME NEW p \in Proc, WaitLocalL(p)
      PROVE  Promise!Next
  <2>1. Running(p) /\ pc[p] = "L"
    BY <1>1, <1>4 DEF WaitLocalL, Turns
  <2>2. PICK q \in Req : /\ q = Call(p)[2] /\ started[p][q] = done[p][q] + 1
                         /\ done[p][q] \in Nat
    BY <1>1, <2>1, CallTurn
  <2>3. done' = [done EXCEPT ![p][q] = @ + 1] /\ started' = started
    BY <1>4, <2>2 DEF WaitLocalL
  <2>4. \A i \in Items[q] : i[2] = p => started[i[1]][q] >= started[p][q]
    BY <1>4, <2>2, SourceStarted
  <2>5. Held' = [Held EXCEPT ![q] = [i \in Items[q] |-> IF i[2] = p THEN started[p][q] ELSE @[i]]]
    <3>1. ASSUME NEW q2 \in Req, NEW i \in Items[q2]
          PROVE  done'[i[2]][q2] =
                   IF q2 = q /\ i[2] = p THEN started[p][q] ELSE done[i[2]][q2]
      BY <1>1, <2>2, <2>3, Pairs DEF Typed
    <3>2. Held' = [q2 \in Req |-> [i \in Items[q2] |->
                     IF q2 = q /\ i[2] = p THEN started[p][q] ELSE done[i[2]][q2]]]
      BY <1>1, <3>1
    <3>. QED  BY <1>1, <3>2
  <2>6. Promise!Complete(p, q)
    <3>1. started[p][q] > done[p][q]
      BY <2>2
    <3>. QED  BY <2>3, <2>4, <2>5, <3>1, Zenon DEF Promise!Complete, Held
  <2>. QED  BY <2>6 DEF Promise!Next
<1>5. ASSUME \/ \E p \in Proc : StartGlobal(p) \/ WaitGlobal(p) \/ WaitLocalR(p)
             \/ \E e \in Edges : Deliver(e)
             \/ UNCHANGED vars
      PROVE  UNCHANGED Promise!vars
  <2>1. started' = started /\ done' = done
    BY <1>5 DEF StartGlobal, WaitGlobal, WaitLocalR, Deliver, vars
  <2>. QED  BY <1>2, <2>1 DEF Promise!vars, Held
<1>. QED  BY <1>3, <1>4, <1>5 DEF Next, Step, RankStep, Finished

(* The persistent exchange implements its promise: the k-th Wait of a rank returns *)
(* the data of the k-th Start of each of its sources and not before they have      *)
(* made it, for every topology, placement of the aggregating ranks and program,     *)
(* with and without buffered sends (MPIL_Start, MPIL_Wait).                      *)
THEOREM Refinement == Spec => KeepsPromise
<1>1. Init => Promise!Init
  <2>. SUFFICES ASSUME Init
                PROVE  Promise!Init
    OBVIOUS
  <2>1. Held = [q \in Req |-> [i \in Items[q] |-> 0]]
    BY Pairs DEF Init, Held
  <2>. QED  BY <2>1 DEF Init, Promise!Init, Held
<1>2. IInv /\ IInv' /\ [Next]_vars => [Promise!Next]_Promise!vars
  BY StepKeepsPromise
<1>. QED  BY <1>1, <1>2, IInvInit, IInvStep, PTL DEF Spec, KeepsPromise, Promise!Spec
=============================================================================
