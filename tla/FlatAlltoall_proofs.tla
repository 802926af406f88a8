------------------------- MODULE FlatAlltoall_proofs -------------------------
(***************************************************************************)
(* Proofs about FlatAlltoall, for every number of ranks, nb_stride, tag       *)
(* space and sequence of calls.  The invariant is about one rank at a time:    *)
(* how its array of requests is used depends on no other rank.                *)
(***************************************************************************)
EXTENDS FlatAlltoall, TLAPS

IsOp(r) == r.kind \in {"send", "recv"}

(* The exchanges a call can have to make.                                     *)
ExchangeLists ==
  {<<"pairwise">>, <<"nonblocking">>, <<"pairwise", "nonblocking">>, <<"batch">>, <<"batch_async">>}

Exchanging(p) == pc[p] \in {"step", "waitall", "waitanySend", "waitanyRecv"}
Locations == {"idle", "pmpi", "step", "waitall", "waitanySend", "waitanyRecv"}

Typed ==
  /\ n \in Nat \ {0}
  /\ pc \in [Proc -> Locations]
  /\ step \in [Proc -> 0 .. n]
  /\ slot \in [Proc -> [send : Nat, recv : Nat]]
  /\ DOMAIN requests = Proc /\ DOMAIN active = Proc /\ DOMAIN todo = Proc

(* A rank between two exchanges has nothing under way; in one, it has one of   *)
(* the lists above still to make, and batch_async is only used for more ranks   *)
(* than nb_stride.                                                           *)
Control(p) ==
  /\ ~ Exchanging(p) => active[p] = {}
  /\ Exchanging(p) => /\ todo[p] \in ExchangeLists
                      /\ Exchange(p) = "batch_async" => Stride < n
  /\ pc[p] = "step" => step[p] < n

(* The operations under way are those in the array, none is there twice, and    *)
(* they are of the steps made.                                               *)
Recorded(p) ==
  /\ \A op \in active[p] : IsOp(op) /\ \E k \in DOMAIN requests[p] : requests[p][k] = op
  /\ \A k \in DOMAIN requests[p] : IsOp(requests[p][k]) => requests[p][k] \in active[p]
  /\ \A j, k \in DOMAIN requests[p] :
       IsOp(requests[p][j]) /\ requests[p][j] = requests[p][k] => j = k
  /\ \A k \in DOMAIN requests[p] :
       /\ requests[p][k].kind = "send" =>
            \E i \in 0 .. step[p] - 1 : requests[p][k].peer = SendProc(p, i)
       /\ requests[p][k].kind = "recv" =>
            \E i \in 0 .. step[p] - 1 : requests[p][k].peer = RecvProc(p, i)

(* Which entries can hold an operation, by exchange.                          *)
Pairwise(p) ==
  /\ pc[p] \in {"step", "waitall"}
  /\ DOMAIN requests[p] = 0 .. 1
  /\ pc[p] = "step" => /\ slot[p] = [send |-> 0, recv |-> 1]
                       /\ \A k \in 0 .. 1 : ~ IsOp(requests[p][k])
  /\ pc[p] = "waitall" => \A k \in 0 .. 1 : IsOp(requests[p][k])

Nonblocking(p) ==
  /\ pc[p] \in {"step", "waitall"} /\ (pc[p] = "waitall" => step[p] = n)
  /\ DOMAIN requests[p] = 0 .. 2 * n - 1
  /\ slot[p] = [send |-> step[p], recv |-> n + step[p]]
  /\ \A k \in 0 .. 2 * n - 1 :
       IsOp(requests[p][k]) <=> k < step[p] \/ (n <= k /\ k < n + step[p])

Batch(p) ==
  /\ pc[p] \in {"step", "waitall"}
  /\ DOMAIN requests[p] = 0 .. 2 * Stride - 1
  /\ slot[p].recv = slot[p].send + 1
  /\ slot[p].send = IF pc[p] = "waitall" /\ step[p] % Stride = 0
                    THEN 2 * Stride ELSE 2 * (step[p] % Stride)
  /\ pc[p] = "waitall" /\ step[p] % Stride # 0 => step[p] = n
  /\ \A k \in 0 .. 2 * Stride - 1 : IsOp(requests[p][k]) <=> k < slot[p].send

BatchAsync(p) ==
  /\ DOMAIN requests[p] = 0 .. 2 * Stride - 1
  /\ step[p] < Stride =>
       /\ pc[p] = "step"
       /\ slot[p] = [send |-> step[p], recv |-> Stride + step[p]]
       /\ \A k \in 0 .. 2 * Stride - 1 :
            IsOp(requests[p][k]) <=> k < step[p] \/ (Stride <= k /\ k < Stride + step[p])
  /\ step[p] >= Stride => \A k \in 0 .. 2 * Stride - 1 : requests[p][k] # Garbage
  /\ step[p] >= Stride /\ pc[p] \in {"step", "waitanyRecv"} =>
       slot[p].send \in 0 .. Stride - 1 /\ ~ IsOp(requests[p][slot[p].send])
  /\ step[p] >= Stride /\ pc[p] = "step" =>
       slot[p].recv \in Stride .. 2 * Stride - 1 /\ ~ IsOp(requests[p][slot[p].recv])
  /\ pc[p] = "waitall" => step[p] = n

Layout(p) ==
  Exchanging(p) =>
    /\ Exchange(p) = "pairwise" => Pairwise(p)
    /\ Exchange(p) = "nonblocking" => Nonblocking(p)
    /\ Exchange(p) = "batch" => Batch(p)
    /\ Exchange(p) = "batch_async" => BatchAsync(p)

RankInv(p) == Control(p) /\ Recorded(p) /\ Layout(p)
IInv == Typed /\ \A p \in Proc : RankInv(p)
-----------------------------------------------------------------------------
(* Arithmetic: the remainder of a loop variable, and the two partners of a      *)
(* step.                                                                     *)
LEMMA ModStep ==
  ASSUME NEW i \in Nat, NEW s \in Nat \ {0}
  PROVE  /\ i % s \in 0 .. s - 1
         /\ (i + 1) % s = IF (i % s) + 1 = s THEN 0 ELSE (i % s) + 1
<1>1. i = (s * (i \div s)) + (i % s) /\ i % s \in 0 .. s - 1
  OBVIOUS
<1>2. i + 1 = (s * ((i + 1) \div s)) + ((i + 1) % s) /\ (i + 1) % s \in 0 .. s - 1
  OBVIOUS
<1>3. PICK a \in Int : a = i \div s
  OBVIOUS
<1>4. PICK b \in Int : b = (i + 1) \div s
  OBVIOUS
<1>5. PICK r \in 0 .. s - 1 : r = i % s
  BY <1>1
<1>6. PICK t \in 0 .. s - 1 : t = (i + 1) % s
  BY <1>2
<1>7. s * (b - a) = r + 1 - t
  <2>1. (s * a) + r + 1 = (s * b) + t
    BY <1>1, <1>2, <1>3, <1>4, <1>5, <1>6
  <2>. QED  BY <2>1
<1>8. b = a \/ b = a + 1
  BY <1>7
<1>9. CASE b = a
  BY <1>5, <1>6, <1>7, <1>9
<1>10. CASE b = a + 1
  BY <1>5, <1>6, <1>7, <1>10
<1>. QED  BY <1>8, <1>9, <1>10

LEMMA Partners ==
  ASSUME n \in Nat \ {0}, NEW p \in Proc, NEW i \in 0 .. n - 1, NEW j \in 0 .. n - 1
  PROVE  /\ SendProc(p, i) = SendProc(p, j) => i = j
         /\ RecvProc(p, i) = RecvProc(p, j) => i = j
BY DEF SendProc, RecvProc, Proc

LEMMA OneIsNatural == n \in Sizes => n \in Nat \ {0}
BY FlatAssumption

(* What a call has to do.                                                    *)
LEMMA Methods ==
  ASSUME n \in Nat \ {0}, NEW c
  PROVE  LET x == MethodOf(c).exchanges IN
         /\ x = <<"pmpi">> \/ x \in ExchangeLists
         /\ Head(x) = "batch_async" => Stride < n
<1> DEFINE x == MethodOf(c).exchanges
<1>1. x \in {<<"pmpi">>, <<"pairwise">>, <<"nonblocking">>, AlltoallvNonblocking, AlltoallvBatch,
             AlltoallvBatchAsync}
  <2>1. Alltoall(program[c][2]).exchanges \in {<<"pmpi">>, <<"pairwise">>, <<"nonblocking">>}
    BY DEF Alltoall, Method, Pmpi, GpuAwareAlltoall, CopyToCpuAlltoall
  <2>2. Alltoallv(program[c][2]).exchanges \in
          {<<"pmpi">>, <<"pairwise">>, AlltoallvNonblocking, AlltoallvBatch, AlltoallvBatchAsync}
    BY DEF Alltoallv, Method, Pmpi, GpuAwareAlltoallv, CopyToCpuAlltoallv
  <2>. QED  BY <2>1, <2>2 DEF MethodOf
<1>2. Stride \in Nat \ {0}
  BY FlatAssumption
<1>. QED
  BY <1>1, <1>2 DEF AlltoallvNonblocking, AlltoallvBatch, AlltoallvBatchAsync, ExchangeLists
-----------------------------------------------------------------------------
(* The tables of the four exchanges, entry by entry.                          *)
LEMMA AfterTable ==
  ASSUME NEW i
  PROVE  /\ AfterStep("pairwise", i) = "waitall"
         /\ AfterStep("nonblocking", i) = IF i + 1 = n THEN "waitall" ELSE "step"
         /\ AfterStep("batch", i) = IF (i + 1) % Stride = 0 THEN "waitall"
                                    ELSE IF i + 1 = n THEN "waitall" ELSE "step"
         /\ AfterStep("batch_async", i) = IF i + 1 >= Stride THEN "waitanySend"
                                          ELSE IF i + 1 = n THEN "waitall" ELSE "step"
BY Zenon DEF AfterStep

LEMMA NextTable ==
  ASSUME NEW s
  PROVE  /\ NextSlots("pairwise", s) = [send |-> s.send + 0, recv |-> s.recv + 0]
         /\ NextSlots("nonblocking", s) = [send |-> s.send + 1, recv |-> s.recv + 1]
         /\ NextSlots("batch", s) = [send |-> s.send + 2, recv |-> s.recv + 2]
         /\ NextSlots("batch_async", s) = [send |-> s.send + 1, recv |-> s.recv + 1]
BY Zenon DEF NextSlots

LEMMA NextType ==
  ASSUME NEW s \in [send : Nat, recv : Nat],
         NEW e \in {"pairwise", "nonblocking", "batch", "batch_async"}
  PROVE  NextSlots(e, s) \in [send : Nat, recv : Nat]
<1>1. NextSlots("pairwise", s) = [send |-> s.send + 0, recv |-> s.recv + 0]
  BY NextTable
<1>2. NextSlots("nonblocking", s) = [send |-> s.send + 1, recv |-> s.recv + 1]
  BY NextTable
<1>3. NextSlots("batch", s) = [send |-> s.send + 2, recv |-> s.recv + 2]
  BY NextTable
<1>4. NextSlots("batch_async", s) = [send |-> s.send + 1, recv |-> s.recv + 1]
  BY NextTable
<1>. QED  BY <1>1, <1>2, <1>3, <1>4

LEMMA StartTables ==
  /\ FirstSlots("pairwise") = [send |-> 0, recv |-> 1]
  /\ FirstSlots("nonblocking") = [send |-> 0, recv |-> n]
  /\ FirstSlots("batch") = [send |-> 0, recv |-> 1]
  /\ FirstSlots("batch_async") = [send |-> 0, recv |-> Stride]
  /\ FirstSlots("pmpi") = [send |-> 0, recv |-> 1]
  /\ NumRequests("pairwise") = 2
  /\ NumRequests("nonblocking") = 2 * n
  /\ NumRequests("batch") = 2 * Stride
  /\ NumRequests("batch_async") = 2 * Stride
  /\ NumRequests("pmpi") = 0
BY Zenon DEF FirstSlots, NumRequests

(* What a rank does leaves the invariant of the others alone.                  *)
LEMMA Others ==
  ASSUME IInv, NEW q \in Proc, n' = n,
         pc'[q] = pc[q], step'[q] = step[q], slot'[q] = slot[q], todo'[q] = todo[q],
         requests'[q] = requests[q], active'[q] = active[q]
  PROVE  RankInv(q)'
<1>. /\ RankInv(q) /\ Exchange(q)' = Exchange(q) /\ Exchanging(q)' = Exchanging(q)
  BY DEF IInv, Exchange, Exchanging
<1>1. Control(q)'
  BY DEF RankInv, Control
<1>2. Recorded(q)'
  BY DEF RankInv, Recorded, SendProc, RecvProc
<1>3. Layout(q)'
  BY DEF RankInv, Layout, Pairwise, Nonblocking, Batch, BatchAsync
<1>. QED  BY <1>1, <1>2, <1>3 DEF RankInv
-----------------------------------------------------------------------------
LEMMA Initially == Init => IInv
<1> SUFFICES ASSUME Init PROVE IInv
  OBVIOUS
<1>1. n \in Nat \ {0}
  BY OneIsNatural DEF Init
<1>2. Typed
  <2>1. slot = [p \in Proc |-> [send |-> 0, recv |-> 1]]
    BY StartTables DEF Init
  <2>. QED  BY <1>1, <2>1 DEF Init, Typed, Locations
<1>3. ASSUME NEW p \in Proc PROVE RankInv(p)
  <2>1. pc[p] = "idle" /\ active[p] = {} /\ requests[p] = << >>
    BY DEF Init
  <2>2. DOMAIN requests[p] = {} /\ ~ Exchanging(p)
    BY <2>1 DEF Exchanging
  <2>. QED  BY <2>1, <2>2 DEF RankInv, Control, Recorded, Layout
<1>. QED  BY <1>2, <1>3 DEF IInv

(* The head of an exchange establishes the invariant of its rank.              *)
LEMMA Begins ==
  ASSUME Typed, n' = n, NEW p \in Proc, NEW x, Begin(p, x),
         x = <<"pmpi">> \/ x \in ExchangeLists, Head(x) = "batch_async" => Stride < n,
         DOMAIN active' = Proc, active'[p] = {}
  PROVE  Typed' /\ RankInv(p)'
<1> DEFINE e == Head(x)
<1>1. /\ todo'[p] = x /\ step'[p] = 0 /\ slot'[p] = FirstSlots(e)
      /\ pc'[p] = (IF e = "pmpi" THEN "pmpi" ELSE "step")
      /\ requests'[p] = Allocated(e) /\ active'[p] = {}
  BY DEF Begin, Typed
<1>2. e \in {"pmpi", "pairwise", "nonblocking", "batch", "batch_async"}
  BY DEF ExchangeLists
<1>3. n \in Nat \ {0} /\ Stride \in Nat \ {0}
  BY FlatAssumption DEF Typed
<1>4. FirstSlots(e) \in [send : Nat, recv : Nat]
  BY <1>2, <1>3, StartTables
<1>5. Typed'
  <2>1. Proc' = Proc
    BY DEF Proc
  <2>2. pc' \in [Proc -> Locations]
    BY DEF Typed, Begin, Locations
  <2>3. step' \in [Proc -> 0 .. n]
    BY <1>3 DEF Typed, Begin
  <2>4. slot' \in [Proc -> [send : Nat, recv : Nat]]
    BY <1>4 DEF Typed, Begin
  <2>5. DOMAIN requests' = Proc /\ DOMAIN todo' = Proc
    BY DEF Typed, Begin
  <2>. QED  BY <1>3, <2>1, <2>2, <2>3, <2>4, <2>5 DEF Typed
<1>6. /\ DOMAIN requests'[p] = 0 .. NumRequests(e) - 1
      /\ \A k \in DOMAIN requests'[p] : requests'[p][k] = Garbage /\ ~ IsOp(requests'[p][k])
  BY <1>1 DEF Allocated, Garbage, IsOp
<1>7. Exchanging(p)' = (e # "pmpi") /\ Exchange(p)' = e
  BY <1>1, <1>2 DEF Exchanging, Exchange
<1>8. Control(p)'
  <2>1. e # "pmpi" => todo'[p] \in ExchangeLists
    BY <1>1
  <2>2. pc'[p] = "step" => step'[p] < n'
    BY <1>1, <1>3
  <2>. QED  BY <1>1, <1>7, <2>1, <2>2 DEF Control
<1>9. Recorded(p)'
  BY <1>1, <1>6 DEF Recorded, IsOp
<1>10. Layout(p)'
  <2>1. CASE e = "pairwise"
    <3>1. pc'[p] = "step" /\ slot'[p] = [send |-> 0, recv |-> 1]
      BY <2>1, <1>1, StartTables
    <3>2. DOMAIN requests'[p] = 0 .. 2 - 1
      BY <2>1, <1>6, StartTables
    <3>3. DOMAIN requests'[p] = 0 .. 1
      BY <3>2
    <3>. QED  BY <2>1, <3>1, <3>3, <1>6, <1>7 DEF Layout, Pairwise
  <2>2. CASE e = "nonblocking"
    BY <2>2, <1>1, <1>3, <1>6, <1>7, StartTables DEF Layout, Nonblocking
  <2>3. CASE e = "batch"
    <3>1. 0 % Stride = 0
      BY <1>3
    <3>. QED  BY <3>1, <2>3, <1>1, <1>3, <1>6, <1>7, StartTables DEF Layout, Batch
  <2>4. CASE e = "batch_async"
    BY <2>4, <1>1, <1>3, <1>6, <1>7, StartTables DEF Layout, BatchAsync
  <2>5. CASE e = "pmpi"
    BY <2>5, <1>7 DEF Layout
  <2>. QED  BY <1>2, <2>1, <2>2, <2>3, <2>4, <2>5
<1>. QED  BY <1>5, <1>8, <1>9, <1>10 DEF RankInv

LEMMA CallKeeps ==
  ASSUME IInv, NEW p \in Proc, Call(p)
  PROVE  Typed' /\ RankInv(p)'
<1>1. Typed /\ n' = n /\ n \in Nat \ {0}
  BY DEF IInv, Typed, Call
<1>2. active[p] = {}
  BY DEF IInv, RankInv, Control, Exchanging, Call
<1>3. DOMAIN active' = Proc /\ active'[p] = {}
  BY <1>1, <1>2 DEF Call, Typed
<1>. QED  BY <1>1, <1>3, Begins, Methods DEF Call
-----------------------------------------------------------------------------
(* The loop stores its two operations in entries that hold none.               *)
LEMMA SlotsFree ==
  ASSUME IInv, NEW p \in Proc, pc[p] = "step"
  PROVE  /\ slot[p].send \in DOMAIN requests[p] /\ slot[p].recv \in DOMAIN requests[p]
         /\ slot[p].send # slot[p].recv
         /\ ~ IsOp(requests[p][slot[p].send]) /\ ~ IsOp(requests[p][slot[p].recv])
<1>1. /\ n \in Nat \ {0} /\ Stride \in Nat \ {0} /\ step[p] \in 0 .. n /\ step[p] < n
      /\ todo[p] \in ExchangeLists /\ slot[p] \in [send : Nat, recv : Nat] /\ Layout(p)
      /\ Exchanging(p) /\ (Exchange(p) = "batch_async" => Stride < n)
  BY FlatAssumption DEF IInv, Typed, RankInv, Control, Exchanging
<1>2. Exchange(p) \in {"pairwise", "nonblocking", "batch", "batch_async"}
  BY <1>1 DEF Exchange, ExchangeLists
<1>3. CASE Exchange(p) = "pairwise"
  BY <1>1, <1>3 DEF Layout, Pairwise
<1>4. CASE Exchange(p) = "nonblocking"
  <2>1. /\ DOMAIN requests[p] = 0 .. 2 * n - 1
        /\ slot[p].send = step[p] /\ slot[p].recv = n + step[p]
        /\ \A k \in 0 .. 2 * n - 1 :
             IsOp(requests[p][k]) <=> k < step[p] \/ (n <= k /\ k < n + step[p])
    BY <1>1, <1>4 DEF Layout, Nonblocking
  <2>2. PICK i \in 0 .. n - 1 : i = step[p]
    BY <1>1
  <2>3. /\ i \in 0 .. 2 * n - 1 /\ n + i \in 0 .. 2 * n - 1 /\ i # n + i
        /\ ~ (i < i \/ (n <= i /\ i < n + i)) /\ ~ (n + i < i \/ (n <= n + i /\ n + i < n + i))
    BY <1>1
  <2>. QED  BY <2>1, <2>2, <2>3
<1>5. CASE Exchange(p) = "batch"
  <2>1. PICK r \in 0 .. Stride - 1 : r = step[p] % Stride
    BY <1>1, ModStep
  <2>2. /\ DOMAIN requests[p] = 0 .. 2 * Stride - 1
        /\ slot[p].recv = slot[p].send + 1 /\ slot[p].send = 2 * r
        /\ \A k \in 0 .. 2 * Stride - 1 : IsOp(requests[p][k]) <=> k < slot[p].send
    BY <1>1, <1>5, <2>1 DEF Layout, Batch
  <2>3. 2 * r \in 0 .. 2 * Stride - 1 /\ 2 * r + 1 \in 0 .. 2 * Stride - 1
    BY <1>1
  <2>. QED  BY <2>2, <2>3
<1>6. CASE Exchange(p) = "batch_async"
  <2>1. CASE step[p] < Stride
    <3>1. /\ DOMAIN requests[p] = 0 .. 2 * Stride - 1
          /\ slot[p].send = step[p] /\ slot[p].recv = Stride + step[p]
          /\ \A k \in 0 .. 2 * Stride - 1 :
               IsOp(requests[p][k]) <=> k < step[p] \/ (Stride <= k /\ k < Stride + step[p])
      BY <1>1, <1>6, <2>1 DEF Layout, BatchAsync
    <3>2. PICK i \in 0 .. Stride - 1 : i = step[p]
      BY <1>1, <2>1
    <3>3. /\ i \in 0 .. 2 * Stride - 1 /\ Stride + i \in 0 .. 2 * Stride - 1 /\ i # Stride + i
          /\ ~ (i < i \/ (Stride <= i /\ i < Stride + i))
          /\ ~ (Stride + i < i \/ (Stride <= Stride + i /\ Stride + i < Stride + i))
      BY <1>1
    <3>. QED  BY <3>1, <3>2, <3>3
  <2>2. CASE step[p] >= Stride
    BY <1>1, <1>6, <2>2 DEF Layout, BatchAsync
  <2>. QED  BY <1>1, <2>1, <2>2
<1>. QED  BY <1>2, <1>3, <1>4, <1>5, <1>6

LEMMA LoopStepKeeps ==
  ASSUME IInv, NEW p \in Proc, LoopStep(p)
  PROVE  Typed' /\ RankInv(p)'
<1> DEFINE i == step[p]
           a == slot[p].send
           b == slot[p].recv
           send == Operation("send", p, SendProc(p, i))
           recv == Operation("recv", p, RecvProc(p, i))
<1>1. /\ pc[p] = "step" /\ n \in Nat \ {0} /\ Stride \in Nat \ {0} /\ i \in 0 .. n /\ i < n
      /\ todo[p] \in ExchangeLists /\ slot[p] \in [send : Nat, recv : Nat] /\ Layout(p)
      /\ Exchanging(p) /\ Recorded(p) /\ (Exchange(p) = "batch_async" => Stride < n)
      /\ Typed /\ n' = n /\ todo' = todo
  BY FlatAssumption DEF LoopStep, IInv, Typed, RankInv, Control, Exchanging
<1>2. Exchange(p) \in {"pairwise", "nonblocking", "batch", "batch_async"} /\ Exchange(p)' = Exchange(p)
  BY <1>1 DEF Exchange, ExchangeLists
<1>3. a \in DOMAIN requests[p] /\ b \in DOMAIN requests[p] /\ a # b
      /\ ~ IsOp(requests[p][a]) /\ ~ IsOp(requests[p][b])
  BY <1>1, SlotsFree
<1>4. /\ pc'[p] = AfterStep(Exchange(p), i) /\ step'[p] = i + 1
      /\ slot'[p] = NextSlots(Exchange(p), slot[p])
      /\ active'[p] = active[p] \cup {send, recv}
  BY <1>1 DEF LoopStep, Typed
<1>5. /\ DOMAIN requests'[p] = DOMAIN requests[p]
      /\ requests'[p][a] = send /\ requests'[p][b] = recv
      /\ \A k \in DOMAIN requests[p] \ {a, b} : requests'[p][k] = requests[p][k]
  BY <1>1, <1>3 DEF LoopStep, Typed
<1>6. /\ send.kind = "send" /\ send.peer = SendProc(p, i) /\ IsOp(send) /\ send # Garbage
      /\ recv.kind = "recv" /\ recv.peer = RecvProc(p, i) /\ IsOp(recv) /\ recv # Garbage
  BY DEF Operation, IsOp, Garbage
<1>7. /\ AfterStep(Exchange(p), i) \in {"waitall", "step", "waitanySend"}
      /\ AfterStep(Exchange(p), i) = "step" => i + 1 # n
  <2>1. CASE Exchange(p) = "pairwise"
    BY <2>1, AfterTable
  <2>2. CASE Exchange(p) = "nonblocking"
    BY <2>2, AfterTable
  <2>3. CASE Exchange(p) = "batch"
    BY <2>3, AfterTable
  <2>4. CASE Exchange(p) = "batch_async"
    BY <2>4, AfterTable
  <2>. QED  BY <1>2, <2>1, <2>2, <2>3, <2>4
<1>ints. i \in Nat /\ n \in Nat /\ Stride \in Nat \ {0} /\ Stride > 0 /\ i < n
  BY <1>1
<1>8. Typed'
  <2>1. Proc' = Proc
    BY <1>1 DEF Proc
  <2>2. pc' \in [Proc -> Locations]
    BY <1>1, <1>7 DEF LoopStep, Typed, Locations
  <2>3. step' \in [Proc -> 0 .. n]
    BY <1>1 DEF LoopStep, Typed
  <2>4. NextSlots(Exchange(p), slot[p]) \in [send : Nat, recv : Nat]
    BY <1>1, <1>2, NextType
  <2>5. slot' \in [Proc -> [send : Nat, recv : Nat]]
    BY <1>1, <2>4 DEF LoopStep, Typed
  <2>6. DOMAIN requests' = Proc /\ DOMAIN active' = Proc /\ DOMAIN todo' = Proc
    BY <1>1 DEF LoopStep, Typed
  <2>. QED  BY <1>1, <2>1, <2>2, <2>3, <2>5, <2>6 DEF Typed
<1>9. Control(p)'
  <2>1. pc'[p] = "step" => i + 1 < n
    BY <1>1, <1>4, <1>7
  <2>2. Exchanging(p)'
    BY <1>4, <1>7 DEF Exchanging
  <2>. QED  BY <1>1, <1>2, <1>4, <2>1, <2>2 DEF Control
<1>10. Recorded(p)'
  <2>1. ASSUME NEW op \in active'[p]
        PROVE  IsOp(op) /\ \E k \in DOMAIN requests'[p] : requests'[p][k] = op
    <3>1. CASE op \in {send, recv}
      BY <1>3, <1>5, <1>6, <3>1
    <3>2. CASE op \in active[p]
      BY <1>1, <1>3, <1>5, <3>2 DEF Recorded
    <3>. QED  BY <1>4, <2>1, <3>1, <3>2
  <2>2. ASSUME NEW k \in DOMAIN requests[p], k \notin {a, b}
        PROVE  requests'[p][k] # send /\ requests'[p][k] # recv
    <3>1. i \in 0 .. n - 1 /\ \A j \in 0 .. i - 1 : j \in 0 .. n - 1 /\ j # i
      BY <1>1
    <3>2. requests[p][k].kind = "send" => requests[p][k].peer # send.peer
      BY <1>1, <1>6, <3>1, Partners DEF Recorded
    <3>3. requests[p][k].kind = "recv" => requests[p][k].peer # recv.peer
      BY <1>1, <1>6, <3>1, Partners DEF Recorded
    <3>. QED  BY <1>5, <1>6, <2>2, <3>2, <3>3
  <2>3. ASSUME NEW j \in DOMAIN requests'[p], NEW k \in DOMAIN requests'[p],
               IsOp(requests'[p][j]), requests'[p][j] = requests'[p][k]
        PROVE  j = k
    <3>1. send # recv
      BY <1>6
    <3>2. CASE j \in {a, b} \/ k \in {a, b}
      BY <1>5, <2>2, <2>3, <3>1, <3>2
    <3>3. CASE j \notin {a, b} /\ k \notin {a, b}
      BY <1>1, <1>5, <2>3, <3>3 DEF Recorded
    <3>. QED  BY <3>2, <3>3
  <2>4. ASSUME NEW k \in DOMAIN requests'[p]
        PROVE  /\ requests'[p][k].kind = "send" =>
                    \E j \in 0 .. i : requests'[p][k].peer = SendProc(p, j)
               /\ requests'[p][k].kind = "recv" =>
                    \E j \in 0 .. i : requests'[p][k].peer = RecvProc(p, j)
    <3>1. i \in 0 .. i /\ \A j \in 0 .. i - 1 : j \in 0 .. i
      BY <1>1
    <3>2. CASE k = a
      BY <1>5, <1>6, <3>1, <3>2
    <3>3. CASE k = b
      BY <1>5, <1>6, <3>1, <3>3
    <3>4. CASE k \notin {a, b}
      BY <1>1, <1>5, <3>1, <3>4 DEF Recorded
    <3>. QED  BY <3>2, <3>3, <3>4
  <2>5. 0 .. step'[p] - 1 = 0 .. i
    BY <1>1, <1>4
  <2>6. ASSUME NEW k \in DOMAIN requests'[p], IsOp(requests'[p][k])
        PROVE  requests'[p][k] \in active'[p]
    BY <1>1, <1>4, <1>5, <2>6 DEF Recorded
  <2>7. ASSUME NEW k \in DOMAIN requests'[p]
        PROVE  /\ requests'[p][k].kind = "send" =>
                    \E j \in 0 .. step'[p] - 1 : requests'[p][k].peer = SendProc(p, j)'
               /\ requests'[p][k].kind = "recv" =>
                    \E j \in 0 .. step'[p] - 1 : requests'[p][k].peer = RecvProc(p, j)'
    BY <1>1, <2>4, <2>5 DEF SendProc, RecvProc
  <2>. QED  BY <2>1, <2>3, <2>6, <2>7 DEF Recorded
<1>11. Layout(p)'
  <2>1. \A k \in DOMAIN requests[p] :
          IsOp(requests'[p][k]) <=> k \in {a, b} \/ IsOp(requests[p][k])
    BY <1>3, <1>5, <1>6
  <2>2. CASE Exchange(p) = "pairwise"
    <3>1. pc'[p] = "waitall"
      BY <1>4, <2>2, AfterTable
    <3>. QED  BY <1>1, <1>2, <1>3, <1>5, <2>1, <2>2, <3>1 DEF Layout, Pairwise
  <2>3. CASE Exchange(p) = "nonblocking"
    <3>1. Nonblocking(p) /\ a = i /\ b = n + i
      BY <1>1, <2>3 DEF Layout, Nonblocking
    <3>2. pc'[p] = IF i + 1 = n THEN "waitall" ELSE "step"
      BY <1>4, <2>3, AfterTable
    <3>3. slot'[p] = [send |-> a + 1, recv |-> b + 1]
      BY <1>4, <2>3, NextTable
    <3>4. slot'[p] = [send |-> i + 1, recv |-> n + (i + 1)]
      BY <1>1, <3>1, <3>3
    <3>5. \A k \in 0 .. 2 * n - 1 :
            IsOp(requests'[p][k]) <=> k < i + 1 \/ (n <= k /\ k < n + (i + 1))
      <4> SUFFICES ASSUME NEW k \in 0 .. 2 * n - 1
                   PROVE  IsOp(requests'[p][k]) <=> k < i + 1 \/ (n <= k /\ k < n + (i + 1))
        OBVIOUS
      <4>1. k \in DOMAIN requests[p] /\ (IsOp(requests[p][k]) <=> k < i \/ (n <= k /\ k < n + i))
        BY <3>1 DEF Nonblocking
      <4>2. IsOp(requests'[p][k]) <=> k = i \/ k = n + i \/ k < i \/ (n <= k /\ k < n + i)
        BY <2>1, <3>1, <4>1
      <4>. QED  BY <1>1, <4>2
    <3>6. DOMAIN requests'[p] = 0 .. 2 * n - 1
      BY <1>5, <3>1 DEF Nonblocking
    <3>7. Nonblocking(p)'
      BY <1>1, <1>4, <3>2, <3>4, <3>5, <3>6 DEF Nonblocking
    <3>. QED  BY <1>2, <2>3, <3>7 DEF Layout
  <2>4. CASE Exchange(p) = "batch"
    <3>1. PICK r \in 0 .. Stride - 1 : r = i % Stride
      BY <1>ints, ModStep
    <3>2. (i + 1) % Stride = IF r + 1 = Stride THEN 0 ELSE r + 1
      BY <1>ints, <3>1, ModStep
    <3>3. /\ a = 2 * r /\ b = a + 1 /\ DOMAIN requests[p] = 0 .. 2 * Stride - 1
          /\ \A k \in 0 .. 2 * Stride - 1 : IsOp(requests[p][k]) <=> k < a
      BY <1>1, <2>4, <3>1 DEF Layout, Batch
    <3>4. slot'[p] = [send |-> a + 2, recv |-> b + 2]
      BY <1>4, <2>4, NextTable
    <3>5. slot'[p].send = 2 * (r + 1) /\ slot'[p].recv = slot'[p].send + 1
      BY <3>3, <3>4
    <3>6. pc'[p] = IF r + 1 = Stride THEN "waitall" ELSE IF i + 1 = n THEN "waitall" ELSE "step"
      <4>1. pc'[p] = IF (i + 1) % Stride = 0 THEN "waitall" ELSE IF i + 1 = n THEN "waitall" ELSE "step"
        BY <1>4, <2>4, AfterTable
      <4>. QED  BY <3>1, <3>2, <4>1
    <3>7. ASSUME NEW k \in 0 .. 2 * Stride - 1
          PROVE  IsOp(requests'[p][k]) <=> k < slot'[p].send
      <4>1. IsOp(requests'[p][k]) <=> k = 2 * r \/ k = 2 * r + 1 \/ k < 2 * r
        BY <2>1, <3>3
      <4>. QED  BY <3>5, <4>1
    <3>8. slot'[p].send = IF pc'[p] = "waitall" /\ step'[p] % Stride = 0
                          THEN 2 * Stride ELSE 2 * (step'[p] % Stride)
      BY <1>1, <1>4, <3>1, <3>2, <3>5, <3>6
    <3>9. pc'[p] = "waitall" /\ step'[p] % Stride # 0 => step'[p] = n
      BY <1>4, <3>2, <3>6
    <3>10. Batch(p)'
      BY <1>1, <1>5, <3>3, <3>5, <3>6, <3>7, <3>8, <3>9 DEF Batch
    <3>. QED  BY <1>2, <2>4, <3>10 DEF Layout
  <2>5. CASE Exchange(p) = "batch_async"
    <3>1. pc'[p] = IF i + 1 >= Stride THEN "waitanySend" ELSE IF i + 1 = n THEN "waitall" ELSE "step"
      BY <1>4, <2>5, AfterTable
    <3>2. BatchAsync(p)
      BY <1>1, <2>5 DEF Layout
    <3>3. CASE i < Stride
      <4>1. a = i /\ b = Stride + i /\ DOMAIN requests[p] = 0 .. 2 * Stride - 1
        BY <3>2, <3>3, <1>ints DEF BatchAsync
      <4>2. slot'[p] = [send |-> i + 1, recv |-> Stride + (i + 1)]
        <5>1. slot'[p] = [send |-> a + 1, recv |-> b + 1]
          BY <1>4, <2>5, NextTable
        <5>. QED  BY <1>1, <4>1, <5>1
      <4>3. ASSUME NEW k \in 0 .. 2 * Stride - 1
            PROVE  IsOp(requests'[p][k]) <=> k < i + 1 \/ (Stride <= k /\ k < Stride + (i + 1))
        <5>1. IsOp(requests[p][k]) <=> k < i \/ (Stride <= k /\ k < Stride + i)
          BY <3>2, <3>3 DEF BatchAsync
        <5>2. IsOp(requests'[p][k]) <=> k = i \/ k = Stride + i \/ IsOp(requests[p][k])
          BY <2>1, <4>1
        <5>. QED  BY <1>1, <5>1, <5>2
      <4>4. CASE i + 1 < Stride
        <5>1. pc'[p] = "step"
          BY <1>1, <1>ints, <2>5, <3>1, <4>4
        <5>2. BatchAsync(p)'
          BY <1>1, <1>4, <1>5, <4>1, <4>2, <4>3, <4>4, <5>1 DEF BatchAsync
        <5>. QED  BY <1>2, <2>5, <5>2 DEF Layout
      <4>5. CASE i + 1 = Stride
        <5>1. pc'[p] = "waitanySend"
          BY <1>ints, <3>1, <4>5
        <5>2. \A k \in 0 .. 2 * Stride - 1 : requests'[p][k] # Garbage
          BY <1>1, <4>3, <4>5 DEF IsOp, Garbage
        <5>3. BatchAsync(p)'
          BY <1>1, <1>4, <1>5, <4>1, <4>5, <5>1, <5>2 DEF BatchAsync
        <5>. QED  BY <1>2, <2>5, <5>3 DEF Layout
      <4>. QED  BY <1>1, <3>3, <4>4, <4>5
    <3>4. CASE i >= Stride
      <4>1. pc'[p] = "waitanySend"
        BY <1>ints, <3>1, <3>4
      <4>2. /\ DOMAIN requests[p] = 0 .. 2 * Stride - 1
            /\ \A k \in 0 .. 2 * Stride - 1 : requests[p][k] # Garbage
        BY <3>2, <3>4 DEF BatchAsync
      <4>3. \A k \in 0 .. 2 * Stride - 1 : requests'[p][k] # Garbage
        BY <1>5, <1>6, <4>2
      <4>4. BatchAsync(p)'
        BY <1>1, <1>4, <1>5, <3>4, <4>1, <4>2, <4>3 DEF BatchAsync
      <4>. QED  BY <1>2, <2>5, <4>4 DEF Layout
    <3>. QED  BY <1>1, <3>3, <3>4
  <2>. QED  BY <1>2, <2>2, <2>3, <2>4, <2>5
<1>. QED  BY <1>8, <1>9, <1>10, <1>11 DEF RankInv
-----------------------------------------------------------------------------
(* A Waitany frees one entry.                                                *)
LEMMA WaitanyFrees ==
  ASSUME Typed, NEW p \in Proc, Recorded(p), NEW k \in DOMAIN requests[p], NEW next,
         Waitany(p, k, next), n' = n, step' = step
  PROVE  /\ DOMAIN requests'[p] = DOMAIN requests[p]
         /\ requests'[p][k] = Null
         /\ \A j \in DOMAIN requests[p] \ {k} : requests'[p][j] = requests[p][j]
         /\ slot'[p] = next
         /\ DOMAIN requests' = Proc /\ DOMAIN active' = Proc
         /\ Recorded(p)'
<1>1. /\ DOMAIN requests'[p] = DOMAIN requests[p] /\ requests'[p][k] = Null
      /\ \A j \in DOMAIN requests[p] \ {k} : requests'[p][j] = requests[p][j]
      /\ slot'[p] = next /\ DOMAIN requests' = Proc
  BY DEF Waitany, Typed
<1>2. /\ DOMAIN active' = Proc
      /\ active'[p] = active[p] \ {requests[p][k]}
  BY DEF Waitany, Wait, Typed
<1>3. ~ IsOp(Null) /\ Null.kind = "MPI_REQUEST_NULL"
  BY DEF IsOp, Null
<1>4. ASSUME NEW op \in active'[p]
      PROVE  IsOp(op) /\ \E j \in DOMAIN requests'[p] : requests'[p][j] = op
  <2>1. op \in active[p] /\ op # requests[p][k]
    BY <1>2
  <2>2. PICK j \in DOMAIN requests[p] : requests[p][j] = op
    BY <2>1 DEF Recorded
  <2>. QED  BY <1>1, <2>1, <2>2 DEF Recorded
<1>5. ASSUME NEW i \in DOMAIN requests'[p], NEW j \in DOMAIN requests'[p],
             IsOp(requests'[p][i]), requests'[p][i] = requests'[p][j]
      PROVE  i = j
  <2>1. i # k /\ j # k
    BY <1>1, <1>3, <1>5
  <2>. QED  BY <1>1, <1>5, <2>1 DEF Recorded
<1>6. ASSUME NEW j \in DOMAIN requests'[p]
      PROVE  /\ requests'[p][j].kind = "send" =>
                  \E i \in 0 .. step'[p] - 1 : requests'[p][j].peer = SendProc(p, i)'
             /\ requests'[p][j].kind = "recv" =>
                  \E i \in 0 .. step'[p] - 1 : requests'[p][j].peer = RecvProc(p, i)'
  <2>1. CASE j = k
    BY <1>1, <1>3, <2>1
  <2>2. CASE j # k
    <3>1. requests'[p][j] = requests[p][j] /\ j \in DOMAIN requests[p]
      BY <1>1, <2>2
    <3>2. /\ requests[p][j].kind = "send" =>
               \E i \in 0 .. step[p] - 1 : requests[p][j].peer = SendProc(p, i)
          /\ requests[p][j].kind = "recv" =>
               \E i \in 0 .. step[p] - 1 : requests[p][j].peer = RecvProc(p, i)
      BY <3>1 DEF Recorded
    <3>. QED  BY <3>1, <3>2 DEF SendProc, RecvProc
  <2>. QED  BY <2>1, <2>2
<1>7. ASSUME NEW j \in DOMAIN requests'[p], IsOp(requests'[p][j])
      PROVE  requests'[p][j] \in active'[p]
  <2>1. j # k /\ requests'[p][j] = requests[p][j] /\ j \in DOMAIN requests[p]
    BY <1>1, <1>3, <1>7
  <2>. QED  BY <1>2, <1>7, <2>1 DEF Recorded
<1>8. Recorded(p)'
  BY <1>4, <1>5, <1>6, <1>7 DEF Recorded
<1>. QED  BY <1>1, <1>2, <1>8

(* Only batch_async waits for any one operation.                              *)
LEMMA OnlyAsync ==
  ASSUME IInv, NEW p \in Proc, pc[p] \in {"waitanySend", "waitanyRecv"}
  PROVE  /\ Exchange(p) = "batch_async" /\ BatchAsync(p) /\ step[p] >= Stride
         /\ todo[p] \in ExchangeLists /\ Stride < n /\ Recorded(p) /\ Typed
         /\ Stride \in Nat \ {0} /\ n \in Nat /\ step[p] \in 0 .. n
<1>1. /\ Exchanging(p) /\ Layout(p) /\ todo[p] \in ExchangeLists /\ Recorded(p) /\ Typed
      /\ (Exchange(p) = "batch_async" => Stride < n)
  BY DEF IInv, RankInv, Control, Exchanging
<1>2. Exchange(p) \in {"pairwise", "nonblocking", "batch", "batch_async"}
  BY <1>1 DEF Exchange, ExchangeLists
<1>3. Exchange(p) = "batch_async"
  BY <1>1, <1>2 DEF Layout, Pairwise, Nonblocking, Batch
<1>4. BatchAsync(p)
  BY <1>1, <1>3 DEF Layout
<1>5. Stride \in Nat \ {0} /\ n \in Nat /\ step[p] \in 0 .. n
  BY <1>1, FlatAssumption DEF Typed
<1>6. step[p] >= Stride
  BY <1>4, <1>5 DEF BatchAsync
<1>. QED  BY <1>1, <1>3, <1>4, <1>5, <1>6

LEMMA WaitanySendKeeps ==
  ASSUME IInv, NEW p \in Proc, WaitanySend(p)
  PROVE  Typed' /\ RankInv(p)'
<1>1. /\ pc[p] = "waitanySend" /\ n' = n /\ todo' = todo /\ step' = step
      /\ pc' = [pc EXCEPT ![p] = "waitanyRecv"]
  BY DEF WaitanySend
<1>2. /\ Exchange(p) = "batch_async" /\ BatchAsync(p) /\ step[p] >= Stride
      /\ todo[p] \in ExchangeLists /\ Stride < n /\ Recorded(p) /\ Typed
      /\ Stride \in Nat \ {0} /\ n \in Nat /\ step[p] \in 0 .. n
  BY <1>1, OnlyAsync
<1>3. PICK k \in 0 .. Stride - 1 : Waitany(p, k, SendSlot(slot[p], k))
  BY DEF WaitanySend
<1>4. DOMAIN requests[p] = 0 .. 2 * Stride - 1 /\ k \in DOMAIN requests[p]
  BY <1>2 DEF BatchAsync
<1>5. /\ DOMAIN requests'[p] = DOMAIN requests[p] /\ requests'[p][k] = Null
      /\ \A j \in DOMAIN requests[p] \ {k} : requests'[p][j] = requests[p][j]
      /\ slot'[p] = SendSlot(slot[p], k)
      /\ DOMAIN requests' = Proc /\ DOMAIN active' = Proc /\ Recorded(p)'
  BY <1>1, <1>2, <1>3, <1>4, WaitanyFrees
<1>6. slot' = [slot EXCEPT ![p] = SendSlot(slot[p], k)]
  BY <1>3 DEF Waitany
<1>7. SendSlot(slot[p], k) \in [send : Nat, recv : Nat] /\ SendSlot(slot[p], k).send = k
  BY <1>2 DEF SendSlot, Typed
<1>8. pc'[p] = "waitanyRecv" /\ Exchanging(p)' /\ Exchange(p)' = "batch_async"
  BY <1>1, <1>2 DEF Exchanging, Exchange, Typed
<1>9. Typed'
  <2>1. Proc' = Proc
    BY <1>1 DEF Proc
  <2>2. pc' \in [Proc -> Locations]
    BY <1>1, <1>2 DEF Typed, Locations
  <2>3. slot' \in [Proc -> [send : Nat, recv : Nat]]
    BY <1>2, <1>6, <1>7 DEF Typed
  <2>. QED  BY <1>1, <1>2, <1>5, <2>1, <2>2, <2>3 DEF Typed
<1>10. Control(p)'
  BY <1>1, <1>2, <1>8 DEF Control
<1>11. BatchAsync(p)'
  <2>1. ~ IsOp(Null) /\ Null # Garbage
    BY DEF IsOp, Null, Garbage
  <2>2. \A j \in 0 .. 2 * Stride - 1 : requests'[p][j] # Garbage
    BY <1>2, <1>4, <1>5, <2>1 DEF BatchAsync
  <2>3. slot'[p].send = k /\ ~ IsOp(requests'[p][k])
    BY <1>5, <1>7, <2>1
  <2>. QED  BY <1>1, <1>2, <1>4, <1>5, <1>8, <2>2, <2>3 DEF BatchAsync
<1>. QED  BY <1>5, <1>8, <1>9, <1>10, <1>11 DEF RankInv, Layout

LEMMA WaitanyRecvKeeps ==
  ASSUME IInv, NEW p \in Proc, WaitanyRecv(p)
  PROVE  Typed' /\ RankInv(p)'
<1>1. /\ pc[p] = "waitanyRecv" /\ n' = n /\ todo' = todo /\ step' = step
      /\ pc' = [pc EXCEPT ![p] = IF step[p] < n THEN "step" ELSE "waitall"]
  BY DEF WaitanyRecv
<1>2. /\ Exchange(p) = "batch_async" /\ BatchAsync(p) /\ step[p] >= Stride
      /\ todo[p] \in ExchangeLists /\ Stride < n /\ Recorded(p) /\ Typed
      /\ Stride \in Nat \ {0} /\ n \in Nat /\ step[p] \in 0 .. n
  BY <1>1, OnlyAsync
<1>3. PICK k \in Stride .. 2 * Stride - 1 : Waitany(p, k, RecvSlot(slot[p], k))
  BY DEF WaitanyRecv
<1>4. /\ DOMAIN requests[p] = 0 .. 2 * Stride - 1 /\ k \in DOMAIN requests[p] /\ k \in Nat
      /\ slot[p].send \in 0 .. Stride - 1 /\ ~ IsOp(requests[p][slot[p].send])
  BY <1>1, <1>2 DEF BatchAsync
<1>5. /\ DOMAIN requests'[p] = DOMAIN requests[p] /\ requests'[p][k] = Null
      /\ \A j \in DOMAIN requests[p] \ {k} : requests'[p][j] = requests[p][j]
      /\ slot'[p] = RecvSlot(slot[p], k)
      /\ DOMAIN requests' = Proc /\ DOMAIN active' = Proc /\ Recorded(p)'
  BY <1>1, <1>2, <1>3, <1>4, WaitanyFrees
<1>6. slot' = [slot EXCEPT ![p] = RecvSlot(slot[p], k)]
  BY <1>3 DEF Waitany
<1>7. /\ RecvSlot(slot[p], k) \in [send : Nat, recv : Nat]
      /\ RecvSlot(slot[p], k).send = slot[p].send /\ RecvSlot(slot[p], k).recv = k
  BY <1>2, <1>4 DEF RecvSlot, Typed
<1>8. /\ pc'[p] = (IF step[p] < n THEN "step" ELSE "waitall")
      /\ Exchanging(p)' /\ Exchange(p)' = "batch_async"
  BY <1>1, <1>2 DEF Exchanging, Exchange, Typed
<1>9. Typed'
  <2>1. Proc' = Proc
    BY <1>1 DEF Proc
  <2>2. pc' \in [Proc -> Locations]
    BY <1>1, <1>2 DEF Typed, Locations
  <2>3. slot' \in [Proc -> [send : Nat, recv : Nat]]
    BY <1>2, <1>6, <1>7 DEF Typed
  <2>. QED  BY <1>1, <1>2, <1>5, <2>1, <2>2, <2>3 DEF Typed
<1>10. Control(p)'
  BY <1>1, <1>2, <1>8 DEF Control
<1>11. BatchAsync(p)'
  <2>1. ~ IsOp(Null) /\ Null # Garbage
    BY DEF IsOp, Null, Garbage
  <2>2. \A j \in 0 .. 2 * Stride - 1 : requests'[p][j] # Garbage
    BY <1>2, <1>4, <1>5, <2>1 DEF BatchAsync
  <2>3. slot'[p].recv = k /\ ~ IsOp(requests'[p][k])
    BY <1>5, <1>7, <2>1
  <2>4. slot'[p].send = slot[p].send /\ ~ IsOp(requests'[p][slot[p].send])
    <3>1. slot[p].send \in DOMAIN requests[p] \ {k}
      BY <1>2, <1>4
    <3>. QED  BY <1>4, <1>5, <1>7, <3>1
  <2>. QED  BY <1>1, <1>2, <1>3, <1>4, <1>5, <1>8, <2>2, <2>3, <2>4 DEF BatchAsync
<1>. QED  BY <1>5, <1>8, <1>9, <1>10, <1>11 DEF RankInv, Layout
-----------------------------------------------------------------------------
(* A Waitall is given every entry that holds an operation, and none that was   *)
(* never set.                                                                *)
LEMMA AllAwaited ==
  ASSUME IInv, NEW p \in Proc, pc[p] = "waitall"
  PROVE  /\ Awaited(p) \subseteq DOMAIN requests[p]
         /\ \A k \in DOMAIN requests[p] : IsOp(requests[p][k]) => k \in Awaited(p)
         /\ \A k \in Awaited(p) : requests[p][k] # Garbage
<1>1. /\ n \in Nat \ {0} /\ Stride \in Nat \ {0} /\ step[p] \in 0 .. n
      /\ todo[p] \in ExchangeLists /\ Layout(p) /\ Exchanging(p)
      /\ (Exchange(p) = "batch_async" => Stride < n)
  BY FlatAssumption DEF IInv, Typed, RankInv, Control, Exchanging
<1>2. Exchange(p) \in {"pairwise", "nonblocking", "batch", "batch_async"}
  BY <1>1 DEF Exchange, ExchangeLists
<1>3. \A r : IsOp(r) => r # Garbage
  BY DEF IsOp, Garbage
<1>4. CASE Exchange(p) = "pairwise"
  BY <1>1, <1>3, <1>4 DEF Layout, Pairwise, Awaited
<1>5. CASE Exchange(p) = "nonblocking"
  <2>1. /\ DOMAIN requests[p] = 0 .. 2 * n - 1 /\ step[p] = n
        /\ \A k \in 0 .. 2 * n - 1 :
             IsOp(requests[p][k]) <=> k < n \/ (n <= k /\ k < n + n)
    BY <1>1, <1>5 DEF Layout, Nonblocking
  <2>2. \A k \in 0 .. 2 * n - 1 : k < n \/ (n <= k /\ k < n + n)
    BY <1>1
  <2>3. Awaited(p) = DOMAIN requests[p]
    BY <1>5 DEF Awaited
  <2>. QED  BY <1>3, <2>1, <2>2, <2>3
<1>6. CASE Exchange(p) = "batch"
  <2>1. PICK r \in 0 .. Stride - 1 : r = step[p] % Stride
    BY <1>1, ModStep
  <2>2. /\ DOMAIN requests[p] = 0 .. 2 * Stride - 1
        /\ slot[p].send = IF r = 0 THEN 2 * Stride ELSE 2 * r
        /\ \A k \in 0 .. 2 * Stride - 1 : IsOp(requests[p][k]) <=> k < slot[p].send
    BY <1>1, <1>6, <2>1 DEF Layout, Batch
  <2>3. CASE r = 0
    <3>1. Awaited(p) = DOMAIN requests[p]
      BY <1>6, <2>1, <2>3 DEF Awaited
    <3>2. \A k \in 0 .. 2 * Stride - 1 : k < 2 * Stride
      BY <1>1
    <3>. QED  BY <1>3, <2>2, <2>3, <3>1, <3>2
  <2>4. CASE r # 0
    <3>1. Awaited(p) = 0 .. 2 * r - 1
      BY <1>6, <2>1, <2>2, <2>4 DEF Awaited
    <3>2. \A k \in 0 .. 2 * Stride - 1 : k < 2 * r <=> k \in 0 .. 2 * r - 1
      BY <1>1
    <3>3. 0 .. 2 * r - 1 \subseteq 0 .. 2 * Stride - 1
      BY <1>1
    <3>. QED  BY <1>3, <2>2, <2>4, <3>1, <3>2, <3>3
  <2>. QED  BY <2>3, <2>4
<1>7. CASE Exchange(p) = "batch_async"
  <2>1. /\ DOMAIN requests[p] = 0 .. 2 * Stride - 1 /\ step[p] = n
        /\ \A k \in 0 .. 2 * Stride - 1 : requests[p][k] # Garbage
    BY <1>1, <1>7 DEF Layout, BatchAsync
  <2>2. Awaited(p) = DOMAIN requests[p]
    BY <1>7 DEF Awaited
  <2>. QED  BY <2>1, <2>2
<1>. QED  BY <1>2, <1>4, <1>5, <1>6, <1>7

(* So nothing of the rank is under way after it.                             *)
LEMMA WaitallEmpties ==
  ASSUME IInv, NEW p \in Proc, Waitall(p)
  PROVE  DOMAIN active' = Proc /\ active'[p] = {}
<1>1. pc[p] = "waitall" /\ Recorded(p) /\ Typed
  BY DEF Waitall, IInv, RankInv
<1>2. /\ DOMAIN active' = Proc
      /\ active'[p] = active[p] \ { requests[p][k] : k \in Awaited(p) }
  BY <1>1 DEF Waitall, Wait, Typed
<1>3. \A op \in active[p] : op \in { requests[p][k] : k \in Awaited(p) }
  BY <1>1, AllAwaited DEF Recorded
<1>. QED  BY <1>2, <1>3

LEMMA WaitallAndGoOnKeeps ==
  ASSUME IInv, NEW p \in Proc, WaitallAndGoOn(p)
  PROVE  Typed' /\ RankInv(p)'
<1>1. /\ pc[p] = "waitall" /\ n' = n /\ todo' = todo /\ step' = step /\ step[p] < n
      /\ pc' = [pc EXCEPT ![p] = "step"] /\ Waitall(p)
      /\ slot' = [slot EXCEPT ![p] = FirstSlots(Exchange(p))]
      /\ requests' = [requests EXCEPT ![p] =
                        [k \in DOMAIN @ |-> IF k \in Awaited(p) THEN Null ELSE @[k]]]
  BY DEF WaitallAndGoOn, Waitall
<1>2. /\ n \in Nat \ {0} /\ Stride \in Nat \ {0} /\ step[p] \in 0 .. n
      /\ todo[p] \in ExchangeLists /\ Layout(p) /\ Exchanging(p) /\ Typed
      /\ (Exchange(p) = "batch_async" => Stride < n)
  BY <1>1, FlatAssumption DEF IInv, Typed, RankInv, Control, Exchanging
<1>3. Exchange(p) \in {"pairwise", "batch"}
  <2>1. Exchange(p) \in {"pairwise", "nonblocking", "batch", "batch_async"}
    BY <1>2 DEF Exchange, ExchangeLists
  <2>2. Exchange(p) # "nonblocking"
    BY <1>1, <1>2 DEF Layout, Nonblocking
  <2>3. Exchange(p) # "batch_async"
    BY <1>1, <1>2 DEF Layout, BatchAsync
  <2>. QED  BY <2>1, <2>2, <2>3
<1>4. /\ DOMAIN active' = Proc /\ active'[p] = {}
  BY <1>1, WaitallEmpties
<1>5. /\ DOMAIN requests' = Proc /\ DOMAIN requests'[p] = DOMAIN requests[p]
      /\ \A k \in DOMAIN requests[p] : ~ IsOp(requests'[p][k])
  <2>1. /\ DOMAIN requests' = Proc
        /\ requests'[p] = [k \in DOMAIN requests[p] |->
                             IF k \in Awaited(p) THEN Null ELSE requests[p][k]]
    BY <1>1, <1>2 DEF Typed
  <2>2. \A k \in DOMAIN requests[p] : IsOp(requests[p][k]) => k \in Awaited(p)
    BY <1>1, AllAwaited
  <2>3. ~ IsOp(Null)
    BY DEF IsOp, Null
  <2>. QED  BY <2>1, <2>2, <2>3
<1>6. FirstSlots(Exchange(p)) = [send |-> 0, recv |-> 1] /\ slot'[p] = FirstSlots(Exchange(p))
  BY <1>1, <1>2, <1>3, StartTables DEF Typed
<1>7. pc'[p] = "step" /\ Exchanging(p)' /\ Exchange(p)' = Exchange(p)
  BY <1>1, <1>2 DEF Exchanging, Exchange, Typed
<1>8. Typed'
  <2>1. Proc' = Proc
    BY <1>1 DEF Proc
  <2>2. pc' \in [Proc -> Locations]
    BY <1>1, <1>2 DEF Typed, Locations
  <2>3. slot' \in [Proc -> [send : Nat, recv : Nat]]
    BY <1>1, <1>2, <1>6 DEF Typed
  <2>. QED  BY <1>1, <1>2, <1>4, <1>5, <2>1, <2>2, <2>3 DEF Typed
<1>9. Control(p)'
  BY <1>1, <1>2, <1>7 DEF Control
<1>10. Recorded(p)'
  BY <1>4, <1>5 DEF Recorded, IsOp
<1>11. Layout(p)'
  <2>1. CASE Exchange(p) = "pairwise"
    BY <1>2, <1>5, <1>6, <1>7, <2>1 DEF Layout, Pairwise
  <2>2. CASE Exchange(p) = "batch"
    <3>1. step[p] % Stride = 0
      BY <1>1, <1>2, <2>2 DEF Layout, Batch
    <3>2. DOMAIN requests[p] = 0 .. 2 * Stride - 1
      BY <1>2, <2>2 DEF Layout, Batch
    <3>3. slot'[p].send = 0 /\ slot'[p].recv = 1
      BY <1>6
    <3>4. \A k \in 0 .. 2 * Stride - 1 : ~ (k < 0)
      OBVIOUS
    <3>5. Batch(p)'
      BY <1>1, <1>5, <1>7, <3>1, <3>2, <3>3, <3>4 DEF Batch
    <3>. QED  BY <1>7, <2>2, <3>5 DEF Layout
  <2>. QED  BY <1>3, <2>1, <2>2
<1>. QED  BY <1>8, <1>9, <1>10, <1>11 DEF RankInv

LEMMA WaitallAndFinishKeeps ==
  ASSUME IInv, NEW p \in Proc, WaitallAndFinish(p)
  PROVE  Typed' /\ RankInv(p)'
<1>1. pc[p] = "waitall" /\ Waitall(p) /\ n' = n
  BY DEF WaitallAndFinish, Waitall
<1>2. /\ Typed /\ todo[p] \in ExchangeLists /\ n \in Nat \ {0}
  BY <1>1 DEF IInv, RankInv, Control, Exchanging, Typed
<1>3. DOMAIN active' = Proc /\ active'[p] = {}
  BY <1>1, WaitallEmpties
<1>4. CASE Len(todo[p]) > 1
  <2>1. todo[p] = <<"pairwise", "nonblocking">>
    BY <1>2, <1>4 DEF ExchangeLists
  <2>2. Tail(todo[p]) = <<"nonblocking">> /\ Head(Tail(todo[p])) = "nonblocking"
    BY <2>1
  <2>3. Begin(p, Tail(todo[p]))
    BY <1>4 DEF WaitallAndFinish
  <2>4. Tail(todo[p]) \in ExchangeLists
    BY <2>2 DEF ExchangeLists
  <2>. QED  BY <1>1, <1>2, <1>3, <2>2, <2>3, <2>4, Begins
<1>5. CASE ~ (Len(todo[p]) > 1)
  <2>1. /\ pc' = [pc EXCEPT ![p] = "idle"] /\ todo' = [todo EXCEPT ![p] = << >>]
        /\ requests' = [requests EXCEPT ![p] = << >>] /\ step' = step /\ slot' = slot
    BY <1>5 DEF WaitallAndFinish
  <2>2. Typed'
    <3>1. Proc' = Proc
      BY <1>1 DEF Proc
    <3>2. pc' \in [Proc -> Locations]
      BY <1>2, <2>1 DEF Typed, Locations
    <3>. QED  BY <1>1, <1>2, <1>3, <2>1, <3>1, <3>2 DEF Typed
  <2>3. pc'[p] = "idle" /\ DOMAIN requests'[p] = {} /\ ~ Exchanging(p)'
    <3>1. pc'[p] = "idle" /\ requests'[p] = << >>
      BY <1>2, <2>1 DEF Typed
    <3>. QED  BY <3>1 DEF Exchanging
  <2>. QED  BY <1>3, <2>2, <2>3 DEF RankInv, Control, Recorded, Layout
<1>. QED  BY <1>4, <1>5

LEMMA PmpiReturnKeeps ==
  ASSUME IInv, NEW p \in Proc, PmpiReturn(p)
  PROVE  Typed' /\ RankInv(p)'
<1>1. /\ pc[p] = "pmpi" /\ n' = n /\ step' = step /\ slot' = slot /\ requests' = requests
      /\ active' = active
      /\ pc' = [pc EXCEPT ![p] = "idle"] /\ todo' = [todo EXCEPT ![p] = << >>]
  BY DEF PmpiReturn
<1>2. Typed /\ Recorded(p) /\ active[p] = {}
  BY <1>1 DEF IInv, RankInv, Control, Exchanging
<1>3. Typed'
  <2>1. Proc' = Proc
    BY <1>1 DEF Proc
  <2>2. pc' \in [Proc -> Locations]
    BY <1>1, <1>2 DEF Typed, Locations
  <2>. QED  BY <1>1, <1>2, <2>1, <2>2 DEF Typed
<1>4. ~ Exchanging(p)'
  BY <1>1, <1>2 DEF Exchanging, Typed
<1>5. Recorded(p)'
  BY <1>1, <1>2 DEF Recorded, SendProc, RecvProc
<1>. QED  BY <1>1, <1>2, <1>3, <1>4, <1>5 DEF RankInv, Control, Layout
-----------------------------------------------------------------------------
(* Every action changes the arrays at its own rank only.                      *)
LEMMA OwnRankOnly ==
  ASSUME Typed, NEW p \in Proc, NEW q \in Proc, q # p, Step(p)
  PROVE  /\ n' = n
         /\ pc'[q] = pc[q] /\ step'[q] = step[q] /\ slot'[q] = slot[q] /\ todo'[q] = todo[q]
         /\ requests'[q] = requests[q] /\ active'[q] = active[q]
<1>1. CASE Call(p)
  BY <1>1 DEF Typed, Call, Begin
<1>2. CASE LoopStep(p)
  BY <1>2 DEF Typed, LoopStep
<1>3. CASE WaitanySend(p)
  BY <1>3 DEF Typed, WaitanySend, Waitany, Wait
<1>4. CASE WaitanyRecv(p)
  BY <1>4 DEF Typed, WaitanyRecv, Waitany, Wait
<1>5. CASE WaitallAndGoOn(p)
  BY <1>5 DEF Typed, WaitallAndGoOn, Waitall, Wait
<1>6. CASE WaitallAndFinish(p)
  BY <1>6 DEF Typed, WaitallAndFinish, Waitall, Wait, Begin
<1>7. CASE PmpiReturn(p)
  BY <1>7 DEF Typed, PmpiReturn
<1>. QED  BY <1>1, <1>2, <1>3, <1>4, <1>5, <1>6, <1>7 DEF Step

LEMMA Inductive == IInv /\ [Next]_vars => IInv'
<1> SUFFICES ASSUME IInv, [Next]_vars PROVE IInv'
  OBVIOUS
<1>1. ASSUME UNCHANGED vars PROVE IInv'
  <2>1. /\ n' = n /\ pc' = pc /\ step' = step /\ slot' = slot /\ todo' = todo
        /\ requests' = requests /\ active' = active
    BY <1>1 DEF vars
  <2>2. Typed' /\ Proc' = Proc
    BY <2>1 DEF IInv, Typed, Proc
  <2>3. \A q \in Proc : RankInv(q)'
    BY <2>1, Others
  <2>. QED  BY <2>2, <2>3 DEF IInv
<1>2. ASSUME NEW p \in Proc, Step(p) PROVE IInv'
  <2>1. Typed' /\ RankInv(p)'
    BY <1>2, CallKeeps, LoopStepKeeps, WaitanySendKeeps, WaitanyRecvKeeps,
       WaitallAndGoOnKeeps, WaitallAndFinishKeeps, PmpiReturnKeeps DEF Step
  <2>2. \A q \in Proc : q # p => RankInv(q)'
    BY <1>2, Others, OwnRankOnly DEF IInv
  <2>3. n' = n
    BY <1>2 DEF Step, Call, LoopStep, WaitanySend, WaitanyRecv, WaitallAndGoOn,
                WaitallAndFinish, PmpiReturn
  <2>4. Proc' = Proc
    BY <2>3 DEF Proc
  <2>. QED  BY <2>1, <2>2, <2>4 DEF IInv
<1>. QED  BY <1>1, <1>2 DEF Next, AllReturned

LEMMA Invariance == Spec => []IInv
BY Initially, Inductive, PTL DEF Spec

(* RequestsTracked, for any number of ranks, any nb_stride and any sequence of  *)
(* calls: alltoallv_batch_async, which gives the entry a Waitany freed to the   *)
(* next operation, and alltoallv_batch, whose last batch may be short, never    *)
(* lose a request, never wait for an entry that was not set, and never return   *)
(* while an operation of theirs is under way.                                 *)
THEOREM Tracked == Spec => []RequestsTracked
<1>1. IInv => RequestsTracked
  <2> SUFFICES ASSUME IInv, NEW p \in Proc
               PROVE  /\ \A op \in active[p] :
                           \E k \in DOMAIN requests[p] :
                             /\ requests[p][k] = op
                             /\ \A j \in DOMAIN requests[p] \ {k} : requests[p][j] # op
                      /\ pc[p] = "waitall" => \A k \in Awaited(p) : requests[p][k] # Garbage
    BY DEF RequestsTracked
  <2>1. Recorded(p)
    BY DEF IInv, RankInv
  <2>2. ASSUME NEW op \in active[p]
        PROVE  \E k \in DOMAIN requests[p] :
                 /\ requests[p][k] = op
                 /\ \A j \in DOMAIN requests[p] \ {k} : requests[p][j] # op
    <3>1. PICK k \in DOMAIN requests[p] : requests[p][k] = op
      BY <2>1 DEF Recorded
    <3>. QED  BY <2>1, <3>1 DEF Recorded
  <2>. QED  BY <2>2, AllAwaited
<1>. QED  BY <1>1, Invariance, PTL
=============================================================================
