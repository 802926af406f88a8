---------------------- MODULE FlatAlltoall_refinement ----------------------
(***************************************************************************)
(* FlatAlltoall implements AlltoallPromise, for every number of ranks,        *)
(* nb_stride, tag space and sequence of calls.                               *)
(***************************************************************************)
EXTENDS FlatAlltoall_proofs

Calls == 1 .. Len(program)

(* Call c exchanges messages; the others are left to the MPI library.          *)
Messaging(c) == MethodOf(c).exchanges # <<"pmpi">>

(* s has sent its message of call c to p, and p has taken it.  With one rank a  *)
(* call may have two exchanges: for the current call these are about the        *)
(* current exchange.                                                         *)
Sent(s, p, c) ==
  \/ c < call[s]
  \/ c = call[s] /\ (pc[s] = "idle" \/ \E j \in 0 .. step[s] - 1 : SendProc(s, j) = p)
Receiving(p, s) == \E op \in active[p] : op.kind = "recv" /\ op.peer = s
Taking(p, s) ==
  (\E j \in 0 .. step[p] - 1 : RecvProc(p, j) = s) /\ ~ Receiving(p, s)
Took(p, s, c) ==
  c < call[p] \/ (c = call[p] /\ (pc[p] = "idle" \/ Taking(p, s)))

Counted ==
  /\ DOMAIN call = Proc /\ \A p \in Proc : call[p] \in 0 .. Len(program)
  /\ Len(program) \in Nat
  /\ \A p \in Proc : pc[p] # "idle" => call[p] \in Calls
  /\ program \in Programs[n] /\ n \in Sizes
  /\ DOMAIN recvbuf = Proc /\ DOMAIN cpu = Proc /\ DOMAIN tag = Proc /\ DOMAIN commTag = Proc

(* A rank is in a call of its kind, and works on the buffers of that call.      *)
InCall(p) ==
  /\ pc[p] = "pmpi" => ~ Messaging(call[p])
  /\ Exchanging(p) =>
       /\ Messaging(call[p])
       /\ Len(todo[p]) > 1 => n = 1
       /\ \A op \in active[p] : op.peer \in Proc /\ op = Operation(op.kind, p, op.peer)
       /\ \/ cpu[p] = << >>
          \/ cpu[p] = [send |-> SendBuf(p, call[p]), recv |-> cpu[p].recv]
       /\ DOMAIN Target(p) = Proc
       /\ \A s \in Proc : Taking(p, s) => Target(p)[s] = Block(s, p, call[p])

(* No rank is past a call that another has not made.                          *)
Skew == \A p, q \in Proc : call[q] >= IF pc[p] = "idle" THEN call[p] ELSE call[p] - 1

(* Ranks in one call use one tag.                                             *)
TagSync ==
  \A p, q \in Proc :
    /\ call[p] = call[q] => commTag[p] = commTag[q]
    /\ call[p] = call[q] /\ call[p] > 0 /\ Messaging(call[p]) => tag[p] = tag[q]
    /\ call[p] = call[q] + 1 =>
         IF Messaging(call[p]) THEN tag[p] = commTag[q] /\ commTag[p] = NextTag(commTag[q])
                               ELSE commTag[p] = commTag[q]

(* What is in flight has been sent and not taken ...                          *)
InFlight(m) ==
  /\ m.src \in Proc /\ m.dst \in Proc /\ m.call \in Calls /\ Messaging(m.call)
  /\ m.body = Block(m.src, m.dst, m.call)
  /\ Sent(m.src, m.dst, m.call) /\ ~ Took(m.dst, m.src, m.call)
  /\ m.call = call[m.src] => m.tag = tag[m.src]
  /\ m.call = call[m.dst] => m.tag = tag[m.dst]

(* ... and conversely.                                                       *)
OnItsWay(s, p, c) ==
  Sent(s, p, c) /\ ~ Took(p, s, c) => \E m \in flight : m.src = s /\ m.dst = p /\ m.call = c

MessageInv ==
  /\ \A m \in flight : InFlight(m)
  /\ \A s, p \in Proc : \A c \in Calls : Messaging(c) =>
       OnItsWay(s, p, c) /\ (Took(p, s, c) => Sent(s, p, c))

RInv == IInv /\ Counted /\ (\A p \in Proc : InCall(p)) /\ Skew /\ TagSync /\ MessageInv
-----------------------------------------------------------------------------
LEMMA SameMethods ==
  ASSUME n' = n, program' = program
  PROVE  \A c : Messaging(c)' = Messaging(c)
<1>1. /\ AlltoallvNonblocking' = AlltoallvNonblocking
      /\ AlltoallvBatch' = AlltoallvBatch /\ AlltoallvBatchAsync' = AlltoallvBatchAsync
  BY DEF AlltoallvNonblocking, AlltoallvBatch, AlltoallvBatchAsync
<1>2. \A a : Alltoall(a)' = Alltoall(a)
  BY Zenon DEF Alltoall, Method, Pmpi, GpuAwareAlltoall, CopyToCpuAlltoall
<1>3. \A a : Alltoallv(a)' = Alltoallv(a)
  BY Zenon, <1>1 DEF Alltoallv, Method, Pmpi, GpuAwareAlltoallv, CopyToCpuAlltoallv
<1>4. \A c : MethodOf(c)' = MethodOf(c)
  BY Zenon, <1>2, <1>3 DEF MethodOf
<1>. QED  BY Zenon, <1>4 DEF Messaging

(* In n steps a rank has sent to everyone, and received from everyone.         *)
LEMMA Everyone ==
  ASSUME n \in Nat \ {0}, NEW p \in Proc, NEW q \in Proc
  PROVE  (\E j \in 0 .. n - 1 : SendProc(p, j) = q) /\ (\E j \in 0 .. n - 1 : RecvProc(p, j) = q)
<1>1. \E j \in 0 .. n - 1 : SendProc(p, j) = q
  <2>1. CASE q >= p
    <3>1. q - p \in 0 .. n - 1 /\ SendProc(p, q - p) = q
      BY <2>1 DEF Proc, SendProc
    <3>. QED  BY <3>1
  <2>2. CASE q < p
    <3>1. q - p + n \in 0 .. n - 1 /\ SendProc(p, q - p + n) = q
      BY <2>2 DEF Proc, SendProc
    <3>. QED  BY <3>1
  <2>. QED  BY <2>1, <2>2 DEF Proc
<1>2. \E j \in 0 .. n - 1 : RecvProc(p, j) = q
  <2>1. CASE q <= p
    <3>1. p - q \in 0 .. n - 1 /\ RecvProc(p, p - q) = q
      BY <2>1 DEF Proc, RecvProc
    <3>. QED  BY <3>1
  <2>2. CASE q > p
    <3>1. p - q + n \in 0 .. n - 1 /\ RecvProc(p, p - q + n) = q
      BY <2>2 DEF Proc, RecvProc
    <3>. QED  BY <3>1
  <2>. QED  BY <2>1, <2>2 DEF Proc
<1>. QED  BY <1>1, <1>2

LEMMA PartnersAreRanks ==
  ASSUME n \in Nat \ {0}, NEW p \in Proc, NEW i \in 0 .. n - 1
  PROVE  SendProc(p, i) \in Proc /\ RecvProc(p, i) \in Proc
BY DEF Proc, SendProc, RecvProc

(* What p has sent and taken depends on p alone.                              *)
LEMMA StatusOfOthers ==
  ASSUME NEW q, n' = n, call'[q] = call[q], pc'[q] = pc[q], step'[q] = step[q], active'[q] = active[q]
  PROVE  \A d, c : (Sent(q, d, c)' <=> Sent(q, d, c)) /\ (Took(q, d, c)' <=> Took(q, d, c))
BY DEF Sent, Took, Taking, Receiving, SendProc, RecvProc

(* A receive takes the message of its own call: an earlier one of its source    *)
(* has been taken, and of a later one, though its tag may be the same, the      *)
(* library knows that it was sent later.                                      *)
LEMMA Match ==
  ASSUME RInv, NEW p \in Proc, Exchanging(p), NEW op \in active[p], op.kind = "recv"
  PROVE  /\ \A m \in Taken(p, op) :
              /\ m \in flight /\ m.dst = p /\ m.src = op.peer /\ m.call = call[p]
              /\ m.body = Block(op.peer, p, call[p])
         /\ \A m \in flight :
              m.dst = p /\ m.src = op.peer /\ m.call = call[p] => m \in Taken(p, op)
<1> DEFINE s == op.peer
           c == call[p]
<1>1. /\ s \in Proc /\ op.tag = tag[p] /\ op.call = c
      /\ \A o \in active[p] : o.call = c
  <2>1. \A o \in active[p] : o.peer \in Proc /\ o = Operation(o.kind, p, o.peer)
    BY DEF RInv, InCall
  <2>. QED  BY <2>1 DEF Operation
<1>2. /\ pc[p] \notin {"idle", "pmpi"} /\ Messaging(c) /\ c \in Calls
  BY DEF Exchanging, RInv, InCall, Counted
<1>3. call[s] \in Nat /\ c \in Nat
  BY <1>1 DEF RInv, Counted
<1>4. ~ Took(p, s, c)
  <2>1. Receiving(p, s)
    BY DEF Receiving
  <2>. QED  BY <1>2, <1>3, <2>1 DEF Took, Taking
<1>5. ASSUME NEW m \in flight, m.dst = p, m.src = s
      PROVE  m.call \in Nat /\ m.call >= c /\ Sent(s, p, m.call) /\ InFlight(m)
  <2>1. InFlight(m)
    BY DEF RInv, MessageInv
  <2>2. ~ Took(p, s, m.call) /\ m.call \in Nat
    BY <1>5, <2>1 DEF InFlight, Calls
  <2>3. m.call >= c
    BY <1>3, <2>2 DEF Took
  <2>. QED  BY <1>5, <2>1, <2>2, <2>3 DEF InFlight
<1>6. ASSUME NEW m \in Taken(p, op)
      PROVE  /\ m \in flight /\ m.dst = p /\ m.src = s /\ m.call = c
             /\ m.body = Block(s, p, c)
  <2>1. /\ m \in flight /\ m.dst = p /\ m.src = s /\ m.tag = tag[p]
        /\ \A o \in flight : o.dst = p /\ o.src = s /\ o.tag = tag[p] => o.call >= m.call
    BY <1>1 DEF Taken
  <2>2. m.call \in Nat /\ m.call >= c /\ Sent(s, p, m.call) /\ InFlight(m)
    BY <1>5, <2>1
  <2>3. CASE m.call > c
    <3>1. Sent(s, p, c)
      BY <1>3, <2>2, <2>3 DEF Sent
    <3>2. PICK o \in flight : o.src = s /\ o.dst = p /\ o.call = c
      BY <1>1, <1>2, <1>4, <3>1 DEF RInv, MessageInv, OnItsWay
    <3>3. o.tag = tag[p]
      BY <1>5, <3>2 DEF InFlight
    <3>4. c >= m.call
      BY <2>1, <3>2, <3>3
    <3>. QED  BY <1>3, <2>2, <2>3, <3>4
  <2>4. m.call = c
    BY <1>3, <2>2, <2>3
  <2>. QED  BY <2>1, <2>2, <2>4 DEF InFlight
<1>7. ASSUME NEW m \in flight, m.dst = p, m.src = s, m.call = c
      PROVE  m \in Taken(p, op)
  <2>1. m.tag = op.tag
    BY <1>1, <1>5, <1>7 DEF InFlight
  <2>2. \A o \in flight : o.dst = p /\ o.src = m.src /\ o.tag = m.tag => o.call >= m.call
    BY <1>5, <1>7
  <2>3. \A o \in active[p] : o.call >= op.call
    BY <1>1, <1>3
  <2>. QED  BY <1>7, <2>1, <2>2, <2>3 DEF Taken
<1>. QED  BY <1>6, <1>7

(* What a call makes of its method.                                          *)
LEMMA TwoExchanges ==
  ASSUME n \in Nat \ {0}, NEW c
  PROVE  LET x == MethodOf(c).exchanges IN
         /\ Len(x) > 1 => n = 1
         /\ Head(x) = "pmpi" <=> x = <<"pmpi">>
<1> DEFINE x == MethodOf(c).exchanges
<1>1. x \in {<<"pmpi">>, <<"pairwise">>, <<"nonblocking">>, AlltoallvNonblocking, AlltoallvBatch,
             AlltoallvBatchAsync}
  <2>1. Alltoall(program[c][2]).exchanges \in {<<"pmpi">>, <<"pairwise">>, <<"nonblocking">>}
    BY DEF Alltoall, Method, Pmpi, GpuAwareAlltoall, CopyToCpuAlltoall
  <2>2. Alltoallv(program[c][2]).exchanges \in
          {<<"pmpi">>, <<"pairwise">>, AlltoallvNonblocking, AlltoallvBatch, AlltoallvBatchAsync}
    BY DEF Alltoallv, Method, Pmpi, GpuAwareAlltoallv, CopyToCpuAlltoallv
  <2>. QED  BY <2>1, <2>2 DEF MethodOf
<1>2. \/ x \in {<<"pmpi">>, <<"pairwise">>, <<"nonblocking">>, <<"batch">>, <<"batch_async">>}
      \/ (x = <<"pairwise", "nonblocking">> /\ n <= 1)
  BY <1>1 DEF AlltoallvNonblocking, AlltoallvBatch, AlltoallvBatchAsync
<1>3. \A e : Len(<<e>>) = 1 /\ Head(<<e>>) = e
  OBVIOUS
<1>4. CASE x \in {<<"pmpi">>, <<"pairwise">>, <<"nonblocking">>, <<"batch">>, <<"batch_async">>}
  <2>1. PICK e : x = <<e>>
    BY <1>4
  <2>2. Len(x) = 1 /\ Head(x) = e /\ Head(<<"pmpi">>) = "pmpi"
    BY <1>3, <2>1
  <2>. QED  BY <2>1, <2>2
<1>5. CASE x = <<"pairwise", "nonblocking">> /\ n <= 1
  <2>1. Head(x) = "pairwise" /\ x # <<"pmpi">> /\ n = 1
    BY <1>5
  <2>. QED  BY <2>1
<1>. QED  BY <1>2, <1>4, <1>5

(* What a step needs to know of its rank.                                     *)
LEMMA Facts ==
  ASSUME RInv, NEW p \in Proc
  PROVE  /\ n \in Nat \ {0} /\ step[p] \in 0 .. n /\ Len(program) \in Nat /\ call[p] \in 0 .. Len(program)
         /\ pc[p] # "idle" => call[p] \in Calls
         /\ ~ Exchanging(p) => active[p] = {}
         /\ Exchanging(p) => pc[p] # "idle" /\ pc[p] # "pmpi" /\ Messaging(call[p])
         /\ DOMAIN call = Proc /\ DOMAIN pc = Proc /\ DOMAIN step = Proc /\ DOMAIN active = Proc
         /\ DOMAIN requests = Proc /\ DOMAIN todo = Proc /\ DOMAIN cpu = Proc /\ DOMAIN recvbuf = Proc
         /\ DOMAIN tag = Proc /\ DOMAIN commTag = Proc
         /\ Typed /\ Recorded(p)
<1>1. /\ IInv /\ Typed /\ RankInv(p) /\ Counted /\ InCall(p)
  BY DEF RInv, IInv
<1>. QED  BY <1>1 DEF Typed, RankInv, Control, Counted, InCall, Exchanging

(* If no rank sends or takes anything, the messages in flight stay as they are.   *)
LEMMA MessagesStay ==
  ASSUME RInv, n' = n, program' = program, flight' = flight,
         \A q, d \in Proc : \A c \in Calls : Messaging(c) =>
           (Sent(q, d, c)' <=> Sent(q, d, c)) /\ (Took(q, d, c)' <=> Took(q, d, c)),
         \A m \in flight : /\ m.call = call'[m.src] => m.tag = tag'[m.src]
                           /\ m.call = call'[m.dst] => m.tag = tag'[m.dst]
  PROVE  MessageInv'
<1>1. Proc' = Proc /\ Calls' = Calls /\ (\A c : Messaging(c)' = Messaging(c))
  BY SameMethods DEF Proc, Calls
<1>2. ASSUME NEW m \in flight PROVE InFlight(m)'
  <2>1. InFlight(m)
    BY DEF RInv, MessageInv
  <2>. QED  BY <1>1, <2>1 DEF InFlight, Block
<1>3. ASSUME NEW s \in Proc, NEW p \in Proc, NEW c \in Calls, Messaging(c)
      PROVE  OnItsWay(s, p, c)' /\ (Took(p, s, c)' => Sent(s, p, c)')
  <2>1. OnItsWay(s, p, c) /\ (Took(p, s, c) => Sent(s, p, c))
    BY <1>3 DEF RInv, MessageInv
  <2>2. (Sent(s, p, c)' <=> Sent(s, p, c)) /\ (Took(p, s, c)' <=> Took(p, s, c))
    BY <1>3
  <2>. QED  BY <2>1, <2>2 DEF OnItsWay
<1>. QED  BY <1>1, <1>2, <1>3 DEF MessageInv

(* What a rank does leaves the calls of the others alone.                      *)
LEMMA OthersInCall ==
  ASSUME RInv, NEW q \in Proc, n' = n, program' = program, pc'[q] = pc[q], step'[q] = step[q],
         todo'[q] = todo[q], active'[q] = active[q], call'[q] = call[q], tag'[q] = tag[q],
         cpu'[q] = cpu[q], recvbuf'[q] = recvbuf[q]
  PROVE  InCall(q)'
<1>1. InCall(q) /\ Proc' = Proc /\ (\A c : Messaging(c)' = Messaging(c))
  BY SameMethods DEF RInv, Proc
<1>2. /\ Exchanging(q)' = Exchanging(q) /\ Target(q)' = Target(q)
      /\ SendBuf(q, call[q])' = SendBuf(q, call[q])
      /\ \A s : Taking(q, s)' = Taking(q, s)
  BY <1>1 DEF Exchanging, Target, SendBuf, Block, Taking, Receiving, RecvProc
<1>3. /\ \A k, o : Operation(k, q, o)' = Operation(k, q, o)
      /\ \A s : Block(s, q, call[q])' = Block(s, q, call'[q])
  BY DEF Operation, Block
<1>. QED  BY <1>1, <1>2, <1>3 DEF InCall
-----------------------------------------------------------------------------
(* A call that begins sends and takes nothing yet.  A message of it that is in   *)
(* flight already has the tag the rank is about to draw.                      *)
LEMMA CallStatus ==
  ASSUME RInv, NEW p \in Proc, Call(p)
  PROVE  /\ n' = n /\ program' = program /\ flight' = flight
         /\ \A q, d \in Proc : \A c \in Calls :
              (Sent(q, d, c)' <=> Sent(q, d, c)) /\ (Took(q, d, c)' <=> Took(q, d, c))
         /\ call'[p] = call[p] + 1 /\ call'[p] \in Calls /\ step'[p] = 0
         /\ todo'[p] = MethodOf(call'[p]).exchanges
         /\ pc'[p] = IF Messaging(call'[p]) THEN "step" ELSE "pmpi"
         /\ IF Messaging(call'[p])
            THEN tag'[p] = commTag[p] /\ commTag'[p] = NextTag(commTag[p])
            ELSE tag'[p] = tag[p] /\ commTag'[p] = commTag[p]
         /\ \A q \in Proc \ {p} :
              /\ call'[q] = call[q] /\ pc'[q] = pc[q] /\ step'[q] = step[q] /\ todo'[q] = todo[q]
              /\ tag'[q] = tag[q] /\ commTag'[q] = commTag[q]
              /\ cpu'[q] = cpu[q] /\ recvbuf'[q] = recvbuf[q]
         /\ active' = active
<1> DEFINE x == MethodOf(call[p] + 1).exchanges
<1>1. /\ pc[p] = "idle" /\ call[p] < Len(program) /\ Begin(p, x)
      /\ call' = [call EXCEPT ![p] = @ + 1] /\ n' = n /\ program' = program
      /\ flight' = flight /\ active' = active
  BY DEF Call
<1>2. /\ n \in Nat \ {0} /\ call[p] \in 0 .. Len(program) /\ Len(program) \in Nat /\ Typed
      /\ DOMAIN call = Proc /\ DOMAIN tag = Proc /\ DOMAIN commTag = Proc /\ DOMAIN cpu = Proc
      /\ DOMAIN recvbuf = Proc
  BY Facts
<1>3. call'[p] = call[p] + 1 /\ call'[p] \in Calls
  BY <1>1, <1>2 DEF Calls
<1>4. /\ step'[p] = 0 /\ todo'[p] = x
      /\ pc'[p] = (IF Head(x) = "pmpi" THEN "pmpi" ELSE "step")
  BY <1>1, <1>2 DEF Begin, Typed
<1>5. Head(x) = "pmpi" <=> ~ Messaging(call'[p])
  BY <1>2, <1>3, TwoExchanges DEF Messaging
<1>6. IF Messaging(call'[p])
      THEN tag'[p] = commTag[p] /\ commTag'[p] = NextTag(commTag[p])
      ELSE tag'[p] = tag[p] /\ commTag'[p] = commTag[p]
  BY <1>1, <1>2, <1>5 DEF Begin
<1>7. \A q \in Proc \ {p} :
        /\ call'[q] = call[q] /\ pc'[q] = pc[q] /\ step'[q] = step[q] /\ todo'[q] = todo[q]
        /\ tag'[q] = tag[q] /\ commTag'[q] = commTag[q]
        /\ cpu'[q] = cpu[q] /\ recvbuf'[q] = recvbuf[q]
  BY <1>1, <1>2 DEF Call, Begin, Typed
<1>8. ASSUME NEW d \in Proc, NEW c \in Calls
      PROVE  (Sent(p, d, c)' <=> Sent(p, d, c)) /\ (Took(p, d, c)' <=> Took(p, d, c))
  <2>1. c \in Nat /\ call[p] \in Nat /\ pc'[p] # "idle"
    BY <1>2, <1>4 DEF Calls
  <2>2. Sent(p, d, c) <=> c <= call[p]
    BY <1>1, <2>1 DEF Sent
  <2>3. Took(p, d, c) <=> c <= call[p]
    BY <1>1, <2>1 DEF Took
  <2>4. 0 .. step'[p] - 1 = {}
    BY <1>4
  <2>5. Sent(p, d, c)' <=> c <= call[p]
    BY <1>3, <2>1, <2>4 DEF Sent
  <2>6. Took(p, d, c)' <=> c <= call[p]
    BY <1>3, <2>1, <2>4 DEF Took, Taking
  <2>. QED  BY <2>2, <2>3, <2>5, <2>6
<1>9. \A q, d \in Proc : \A c \in Calls :
        (Sent(q, d, c)' <=> Sent(q, d, c)) /\ (Took(q, d, c)' <=> Took(q, d, c))
  BY <1>1, <1>7, <1>8, StatusOfOthers
<1>. QED  BY <1>1, <1>3, <1>4, <1>5, <1>6, <1>7, <1>9

LEMMA CallKeepsAll ==
  ASSUME RInv, NEW p \in Proc, Call(p)
  PROVE  MessageInv' /\ Skew' /\ TagSync' /\ Counted' /\ (\A q \in Proc : InCall(q)')
<1> DEFINE c == call'[p]
<1>1. /\ pc[p] = "idle" /\ active' = active /\ n' = n /\ program' = program /\ flight' = flight
      /\ Proc' = Proc /\ Calls' = Calls
      /\ c = call[p] + 1 /\ c \in Calls /\ step'[p] = 0
      /\ todo'[p] = MethodOf(c).exchanges
      /\ pc'[p] = (IF Messaging(c) THEN "step" ELSE "pmpi")
      /\ IF Messaging(c)
         THEN tag'[p] = commTag[p] /\ commTag'[p] = NextTag(commTag[p])
         ELSE tag'[p] = tag[p] /\ commTag'[p] = commTag[p]
  BY CallStatus DEF Call, Proc, Calls
<1>2. \A q \in Proc \ {p} :
        /\ call'[q] = call[q] /\ pc'[q] = pc[q] /\ step'[q] = step[q] /\ todo'[q] = todo[q]
        /\ tag'[q] = tag[q] /\ commTag'[q] = commTag[q]
        /\ cpu'[q] = cpu[q] /\ recvbuf'[q] = recvbuf[q]
  BY CallStatus
<1>3. /\ \A q \in Proc : call[q] \in Nat
      /\ \A q \in Proc : call[q] >= call[p]
      /\ \A q \in Proc : call[p] >= IF pc[q] = "idle" THEN call[q] ELSE call[q] - 1
  BY <1>1, Facts DEF RInv, Skew
<1>4. \A d : Messaging(d)' <=> Messaging(d)
  BY <1>1, SameMethods
<1>5. ASSUME NEW q \in Proc, call[q] = c
      PROVE  IF Messaging(c) THEN tag[q] = commTag[p] /\ commTag[q] = NextTag(commTag[p])
                             ELSE commTag[q] = commTag[p]
  BY <1>1, <1>5 DEF RInv, TagSync
<1>6. MessageInv'
  <2>1. ASSUME NEW m \in flight
        PROVE  /\ m.call = call'[m.src] => m.tag = tag'[m.src]
               /\ m.call = call'[m.dst] => m.tag = tag'[m.dst]
    <3>1. InFlight(m)
      BY DEF RInv, MessageInv
    <3>2. /\ m.src \in Proc /\ m.dst \in Proc /\ m.call \in Calls /\ Messaging(m.call)
          /\ m.call = call[m.src] => m.tag = tag[m.src]
          /\ m.call = call[m.dst] => m.tag = tag[m.dst]
          /\ m.call <= call[m.src]
      BY <1>3, <3>1 DEF InFlight, Sent, Calls
    <3>3. m.call = call'[m.src] => m.tag = tag'[m.src]
      BY <1>1, <1>2, <1>3, <3>2
    <3>4. CASE m.dst = p /\ m.call = c
      <4>1. call[m.src] = c
        BY <1>1, <1>3, <3>2, <3>4
      <4>. QED  BY <1>1, <1>5, <3>2, <3>3, <3>4, <4>1
    <3>5. CASE m.dst # p
      BY <1>2, <3>2, <3>3, <3>5
    <3>. QED  BY <3>3, <3>4, <3>5
  <2>. QED  BY <1>1, <2>1, MessagesStay, CallStatus
<1>7. Skew'
  <2>1. pc'[p] # "idle"
    BY <1>1
  <2>2. ASSUME NEW s \in Proc, NEW q \in Proc
        PROVE  call'[q] >= IF pc'[s] = "idle" THEN call'[s] ELSE call'[s] - 1
    <3>1. call[q] >= IF pc[s] = "idle" THEN call[s] ELSE call[s] - 1
      BY DEF RInv, Skew
    <3>. QED  BY <1>1, <1>2, <1>3, <2>1, <3>1
  <2>. QED  BY <1>1, <2>2 DEF Skew
<1>8. TagSync'
  <2>1. ASSUME NEW s \in Proc, NEW q \in Proc
        PROVE  /\ call'[s] = call'[q] => commTag'[s] = commTag'[q]
               /\ call'[s] = call'[q] /\ call'[s] > 0 /\ Messaging(call'[s]) => tag'[s] = tag'[q]
               /\ call'[s] = call'[q] + 1 =>
                    IF Messaging(call'[s])
                    THEN tag'[s] = commTag'[q] /\ commTag'[s] = NextTag(commTag'[q])
                    ELSE commTag'[s] = commTag'[q]
    <3>1. /\ call[s] = call[q] => commTag[s] = commTag[q]
          /\ call[s] = call[q] /\ call[s] > 0 /\ Messaging(call[s]) => tag[s] = tag[q]
          /\ call[s] = call[q] + 1 =>
               IF Messaging(call[s]) THEN tag[s] = commTag[q] /\ commTag[s] = NextTag(commTag[q])
                                     ELSE commTag[s] = commTag[q]
      BY DEF RInv, TagSync
    <3>2. CASE s # p /\ q # p
      BY <1>2, <3>1, <3>2
    <3>3. CASE s = p /\ q = p
      BY <1>3, <3>3, <1>1
    <3>4. CASE s = p /\ q # p
      BY <1>1, <1>2, <1>3, <1>5, <3>1, <3>4
    <3>5. CASE s # p /\ q = p
      BY <1>1, <1>2, <1>3, <1>5, <3>1, <3>5
    <3>. QED  BY <3>2, <3>3, <3>4, <3>5
  <2>. QED  BY <1>1, <1>4, <2>1 DEF TagSync, NextTag
<1>9. Counted'
  <2>1. \A q \in Proc : call'[q] \in 0 .. Len(program) /\ (pc'[q] # "idle" => call'[q] \in Calls)
    BY <1>1, <1>2, Facts DEF Calls
  <2>2. /\ DOMAIN call' = Proc /\ DOMAIN recvbuf' = Proc /\ DOMAIN cpu' = Proc
        /\ DOMAIN tag' = Proc /\ DOMAIN commTag' = Proc
    BY Facts DEF Call, Begin
  <2>. QED  BY <1>1, <2>1, <2>2 DEF RInv, Counted
<1>10. InCall(p)'
  <2>1. n \in Nat \ {0} /\ active[p] = {} /\ DOMAIN cpu = Proc /\ DOMAIN recvbuf = Proc
    BY <1>1, Facts DEF Exchanging
  <2>2. Len(todo'[p]) > 1 => n = 1
    BY <1>1, <2>1, TwoExchanges
  <2>3. cpu'[p] = CopyToCpu(p, c) /\ recvbuf'[p] = [s \in Proc |-> Undefined]
    BY <1>1, <2>1 DEF Call
  <2>4. /\ cpu'[p] = << >> \/ cpu'[p] = [send |-> SendBuf(p, c), recv |-> cpu'[p].recv]
        /\ DOMAIN Target(p)' = Proc
    BY <2>3 DEF CopyToCpu, Target
  <2>6. \A s : ~ Taking(p, s)'
    <3>1. 0 .. step'[p] - 1 = {}
      BY <1>1
    <3>. QED  BY <3>1 DEF Taking
  <2>7. pc'[p] = "pmpi" => ~ Messaging(call'[p])
    BY <1>1
  <2>8. Exchanging(p)' => Messaging(call'[p])
    BY <1>1 DEF Exchanging
  <2>9. active'[p] = {}
    BY <1>1, <2>1
  <2>10. SendBuf(p, call[p])' = SendBuf(p, c)
    BY <1>1 DEF SendBuf, Block
  <2>. QED  BY <1>1, <1>4, <2>2, <2>4, <2>6, <2>7, <2>8, <2>9, <2>10 DEF InCall
<1>11. ASSUME NEW q \in Proc, q # p PROVE InCall(q)'
  BY <1>1, <1>2, <1>11, OthersInCall
<1>. QED  BY <1>6, <1>7, <1>8, <1>9, <1>10, <1>11
-----------------------------------------------------------------------------
(* What a step of the loop sends and expects.                                  *)
LEMMA LoopStepStatus ==
  ASSUME RInv, NEW p \in Proc, LoopStep(p)
  PROVE  LET d == SendProc(p, step[p]) IN
         /\ d \in Proc /\ ~ Sent(p, d, call[p])
         /\ \A q \in Proc : \A c \in Calls :
              Sent(p, q, c)' <=> Sent(p, q, c) \/ (c = call[p] /\ q = d)
         /\ \A q \in Proc : \A c \in Calls : Took(p, q, c)' <=> Took(p, q, c)
         /\ \A q \in Proc : Taking(p, q)' <=> Taking(p, q)
<1> DEFINE i == step[p]
           d == SendProc(p, i)
           r == RecvProc(p, i)
<1>1. /\ pc[p] = "step" /\ Exchanging(p) /\ n \in Nat \ {0} /\ i \in 0 .. n - 1
      /\ call[p] \in Calls /\ DOMAIN active = Proc /\ DOMAIN step = Proc /\ DOMAIN pc = Proc
  <2>1. pc[p] = "step" /\ Exchanging(p)
    BY DEF LoopStep, Exchanging
  <2>2. i < n
    BY <2>1 DEF RInv, IInv, RankInv, Control
  <2>. QED  BY <2>1, <2>2, Facts
<1>2. /\ n' = n /\ call' = call /\ step'[p] = i + 1
      /\ active'[p] = active[p] \cup {Operation("send", p, d), Operation("recv", p, r)}
      /\ pc'[p] = AfterStep(Exchange(p), i)
  BY <1>1 DEF LoopStep
<1>3. pc'[p] # "idle"
  <2>1. pc'[p] \in {"step", "waitall", "waitanySend", "waitanyRecv"}
    BY <1>2 DEF AfterStep
  <2>. QED  BY <2>1
<1>4. d \in Proc /\ r \in Proc
  BY <1>1, PartnersAreRanks
<1>5. /\ \A j \in 0 .. i - 1 : SendProc(p, j) # d /\ RecvProc(p, j) # r
  BY <1>1, Partners
<1>6. ~ Sent(p, d, call[p])
  BY <1>1, <1>5 DEF Sent, Calls
<1>7. 0 .. step'[p] - 1 = (0 .. i - 1) \cup {i}
  BY <1>1, <1>2
<1>8. \A j : SendProc(p, j)' = SendProc(p, j) /\ RecvProc(p, j)' = RecvProc(p, j)
  BY <1>2 DEF SendProc, RecvProc
<1>9. ASSUME NEW q \in Proc, NEW c \in Calls
      PROVE  Sent(p, q, c)' <=> Sent(p, q, c) \/ (c = call[p] /\ q = d)
  BY <1>1, <1>2, <1>3, <1>7, <1>8 DEF Sent
<1>10. ASSUME NEW q \in Proc
       PROVE  Taking(p, q)' <=> Taking(p, q)
  <2>1. Receiving(p, q)' <=> Receiving(p, q) \/ q = r
    <3>1. /\ Operation("send", p, d).kind # "recv"
          /\ Operation("recv", p, r).kind = "recv" /\ Operation("recv", p, r).peer = r
      BY DEF Operation
    <3>. QED  BY <1>2, <3>1 DEF Receiving
  <2>2. (\E j \in 0 .. step'[p] - 1 : RecvProc(p, j)' = q)
          <=> (\E j \in 0 .. i - 1 : RecvProc(p, j) = q) \/ q = r
    BY <1>7, <1>8
  <2>3. q = r => ~ Taking(p, q)
    BY <1>5 DEF Taking
  <2>. QED  BY <2>1, <2>2, <2>3 DEF Taking
<1>11. ASSUME NEW q \in Proc, NEW c \in Calls
       PROVE  Took(p, q, c)' <=> Took(p, q, c)
  BY <1>1, <1>2, <1>3, <1>10 DEF Took
<1>. QED  BY <1>4, <1>6, <1>9, <1>10, <1>11

LEMMA LoopStepKeepsAll ==
  ASSUME RInv, NEW p \in Proc, LoopStep(p)
  PROVE  MessageInv' /\ Skew' /\ TagSync' /\ Counted' /\ (\A q \in Proc : InCall(q)')
<1> DEFINE i == step[p]
           data == IF cpu[p] = << >> THEN SendBuf(p, call[p]) ELSE cpu[p].send
<1>1. PICK d : d = SendProc(p, i)
  OBVIOUS
<1>2. PICK k : k = call[p]
  OBVIOUS
<1>3. PICK new : new = [src |-> p, dst |-> d, tag |-> tag[p], call |-> k, body |-> data[d]]
  OBVIOUS
<1>4. PICK send : send = Operation("send", p, d)
  OBVIOUS
<1>5. PICK recv : recv = Operation("recv", p, RecvProc(p, i))
  OBVIOUS
<1>6. /\ n' = n /\ program' = program /\ call' = call /\ todo' = todo /\ tag' = tag
      /\ commTag' = commTag /\ recvbuf' = recvbuf /\ cpu' = cpu
      /\ flight' = flight \cup {new}
      /\ active' = [active EXCEPT ![p] = @ \cup {send, recv}]
      /\ pc' = [pc EXCEPT ![p] = AfterStep(Exchange(p), i)]
      /\ step' = [step EXCEPT ![p] = i + 1]
      /\ pc[p] = "step" /\ Exchanging(p)
  BY <1>1, <1>2, <1>3, <1>4, <1>5 DEF LoopStep, Operation, Exchanging
<1>7. /\ n \in Nat \ {0} /\ k \in Calls /\ Messaging(k) /\ k \in 0 .. Len(program)
      /\ DOMAIN pc = Proc /\ DOMAIN step = Proc /\ DOMAIN active = Proc
  BY <1>6, <1>2, Facts
<1>8. /\ d \in Proc /\ ~ Sent(p, d, k)
      /\ \A q \in Proc : \A c \in Calls : Sent(p, q, c)' <=> Sent(p, q, c) \/ (c = k /\ q = d)
      /\ \A q \in Proc : \A c \in Calls : Took(p, q, c)' <=> Took(p, q, c)
      /\ \A q \in Proc : Taking(p, q)' <=> Taking(p, q)
  BY <1>1, <1>2, LoopStepStatus
<1>9. \A q \in Proc \ {p} : /\ pc'[q] = pc[q] /\ step'[q] = step[q] /\ active'[q] = active[q]
                            /\ call'[q] = call[q]
  BY <1>6, <1>7
<1>10. /\ \A s, q \in Proc : \A c \in Calls :
           Sent(s, q, c)' <=> Sent(s, q, c) \/ (s = p /\ c = k /\ q = d)
      /\ \A s, q \in Proc : \A c \in Calls : Took(s, q, c)' <=> Took(s, q, c)
  <2>1. ASSUME NEW s \in Proc, s # p
        PROVE  \A q, c : (Sent(s, q, c)' <=> Sent(s, q, c)) /\ (Took(s, q, c)' <=> Took(s, q, c))
    BY <1>6, <1>9, <2>1, StatusOfOthers
  <2>. QED  BY <1>8, <2>1
<1>11. /\ Proc' = Proc /\ Calls' = Calls /\ \A c : Messaging(c)' <=> Messaging(c)
  BY <1>6, SameMethods DEF Proc, Calls
<1>12. data[d] = Block(p, d, k)
  <2>1. InCall(p)
    BY DEF RInv
  <2>2. \/ cpu[p] = << >>
        \/ cpu[p] = [send |-> SendBuf(p, k), recv |-> cpu[p].recv]
    BY <1>6, <1>2, <2>1 DEF InCall
  <2>3. data = SendBuf(p, k)
    BY <1>2, <2>2
  <2>. QED  BY <1>8, <2>3 DEF SendBuf
<1>13. MessageInv'
  <2>1. ASSUME NEW m \in flight PROVE InFlight(m)'
    <3>1. InFlight(m)
      BY DEF RInv, MessageInv
    <3>. QED  BY <1>6, <1>10, <1>11, <3>1 DEF InFlight, Block
  <2>2. InFlight(new)'
    <3>1. ~ Took(d, p, k)
      BY <1>7, <1>8 DEF RInv, MessageInv
    <3>2. k = call[d] => tag[p] = tag[d]
      <4>1. k > 0
        BY <1>7, <1>8, Facts DEF Calls
      <4>2. call[p] = call[d] /\ call[p] > 0 /\ Messaging(call[p]) => tag[p] = tag[d]
        BY <1>8 DEF RInv, TagSync
      <4>. QED  BY <1>7, <1>2, <4>1, <4>2
    <3>4. /\ new.src = p /\ new.dst = d /\ new.tag = tag[p] /\ new.call = k
          /\ new.body = Block(p, d, k)
      BY <1>12, <1>3
    <3>3. Sent(p, d, k)' /\ ~ Took(d, p, k)'
      BY <1>7, <1>8, <1>10, <3>1
    <3>. QED  BY <1>6, <1>7, <1>8, <1>11, <1>2, <3>2, <3>3, <3>4 DEF InFlight, Block
  <2>3. ASSUME NEW s \in Proc, NEW q \in Proc, NEW c \in Calls, Messaging(c)
        PROVE  OnItsWay(s, q, c)' /\ (Took(q, s, c)' => Sent(s, q, c)')
    <3>1. OnItsWay(s, q, c) /\ (Took(q, s, c) => Sent(s, q, c))
      BY <2>3 DEF RInv, MessageInv
    <3>2. Sent(s, q, c)' /\ ~ Took(q, s, c)' => \E m \in flight' : m.src = s /\ m.dst = q /\ m.call = c
      <4>1. CASE s = p /\ q = d /\ c = k
        <5>1. new \in flight' /\ new.src = s /\ new.dst = q /\ new.call = c
          BY <1>6, <1>3, <4>1
        <5>. QED  BY <5>1
      <4>2. CASE ~ (s = p /\ q = d /\ c = k)
        BY <1>6, <1>10, <3>1, <4>2 DEF OnItsWay
      <4>. QED  BY <4>1, <4>2
    <3>. QED  BY <1>10, <3>1, <3>2 DEF OnItsWay
  <2>. QED  BY <1>6, <1>11, <2>1, <2>2, <2>3 DEF MessageInv
<1>14. pc'[p] \in {"step", "waitall", "waitanySend", "waitanyRecv"}
  BY <1>6, <1>7 DEF AfterStep
<1>15. Skew'
  <2>1. \A q \in Proc : pc'[q] = "idle" <=> pc[q] = "idle"
    BY <1>6, <1>9, <1>14
  <2>. QED  BY <1>6, <1>11, <2>1 DEF RInv, Skew
<1>16. TagSync'
  BY <1>6, <1>11 DEF RInv, TagSync, NextTag
<1>17. Counted'
  <2>1. \A q \in Proc : pc'[q] # "idle" => call[q] \in Calls
    BY <1>7, <1>9, <1>2, Facts
  <2>. QED  BY <1>6, <1>11, <2>1 DEF RInv, Counted
<1>18. InCall(p)'
  <2>1. InCall(p)
    BY DEF RInv
  <2>2. /\ Target(p)' = Target(p) /\ SendBuf(p, call[p])' = SendBuf(p, k)
        /\ \A s : Block(s, p, call[p])' = Block(s, p, k)
    BY <1>6, <1>11, <1>2 DEF Target, SendBuf, Block
  <2>3. \A s, o : Operation(s, p, o)' = Operation(s, p, o)
    BY <1>6 DEF Operation
  <2>4. RecvProc(p, i) \in Proc
    <3>1. i \in 0 .. n - 1
      BY <1>6, Facts DEF RInv, IInv, RankInv, Control
    <3>. QED  BY <1>7, <3>1, PartnersAreRanks
  <2>5. \A op \in active'[p] : op.peer \in Proc /\ op = Operation(op.kind, p, op.peer)
    <3>1. \A op \in active[p] : op.peer \in Proc /\ op = Operation(op.kind, p, op.peer)
      BY <1>6, <2>1 DEF InCall
    <3>2. /\ send.peer \in Proc /\ send = Operation(send.kind, p, send.peer)
          /\ recv.peer \in Proc /\ recv = Operation(recv.kind, p, recv.peer)
      BY <1>8, <1>4, <1>5, <2>4 DEF Operation
    <3>3. active'[p] = active[p] \cup {send, recv}
      BY <1>6, <1>7
    <3>. QED  BY <3>1, <3>2, <3>3
  <2>6. pc'[p] # "pmpi"
    BY <1>14
  <2>. QED  BY <1>6, <1>7, <1>8, <1>11, <1>2, <2>1, <2>2, <2>3, <2>5, <2>6 DEF InCall
<1>19. ASSUME NEW q \in Proc, q # p PROVE InCall(q)'
  BY <1>6, <1>9, <1>19, OthersInCall
<1>. QED  BY <1>13, <1>15, <1>16, <1>17, <1>18, <1>19
-----------------------------------------------------------------------------
(* The receive from s is among those in the entries K.                        *)
Freed(p, K, s) == \E k \in K : requests[p][k].kind = "recv" /\ requests[p][k].peer = s

(* A wait takes the messages of its receives, one for each.                    *)
LEMMA WaitEffect ==
  ASSUME RInv, NEW p \in Proc, Exchanging(p), NEW K \in SUBSET DOMAIN requests[p], Wait(p, K),
         \A k \in K : IsOp(requests[p][k]) => Completed(p, requests[p][k])
  PROVE  /\ active'[p] \subseteq active[p] /\ \A q \in Proc \ {p} : active'[q] = active[q]
         /\ \A s : Receiving(p, s)' <=> Receiving(p, s) /\ ~ Freed(p, K, s)
         /\ \A s : Freed(p, K, s) => /\ s \in Proc /\ Receiving(p, s)
                                     /\ \E j \in 0 .. step[p] - 1 : RecvProc(p, j) = s
                                     /\ \E m \in Arrived(p, K) : m.src = s
         /\ \A m \in Arrived(p, K) :
              /\ m \in flight /\ m.dst = p /\ m.call = call[p] /\ m.src \in Proc
              /\ Freed(p, K, m.src) /\ m.body = Block(m.src, p, call[p])
         /\ \A m \in flight :
              m.dst = p /\ m.call = call[p] /\ Freed(p, K, m.src) => m \in Arrived(p, K)
<1>1. /\ Recorded(p) /\ DOMAIN active = Proc
      /\ \A op \in active[p] : op.peer \in Proc /\ op = Operation(op.kind, p, op.peer)
  BY Facts DEF RInv, InCall
<1>2. \A k \in K : IsOp(requests[p][k]) => requests[p][k] \in active[p]
  BY <1>1 DEF Recorded
<1>3. /\ active'[p] = active[p] \ { requests[p][k] : k \in K }
      /\ \A q \in Proc \ {p} : active'[q] = active[q]
  BY <1>1 DEF Wait
<1>4. ASSUME NEW s PROVE Receiving(p, s)' <=> Receiving(p, s) /\ ~ Freed(p, K, s)
  <2>1. ASSUME NEW op \in active[p], op.kind = "recv", op.peer = s, ~ Freed(p, K, s)
        PROVE  op \in active'[p]
    BY <1>3, <2>1 DEF Freed
  <2>2. ASSUME NEW op \in active'[p], op.kind = "recv", op.peer = s, Freed(p, K, s)
        PROVE  FALSE
    <3>1. PICK k \in K : requests[p][k].kind = "recv" /\ requests[p][k].peer = s
      BY <2>2 DEF Freed
    <3>2. requests[p][k] \in active[p] /\ op \in active[p]
      BY <1>2, <1>3, <3>1 DEF IsOp
    <3>3. requests[p][k] = Operation("recv", p, s) /\ op = Operation("recv", p, s)
      BY <1>1, <2>2, <3>1, <3>2
    <3>. QED  BY <1>3, <3>3
  <2>. QED  BY <1>3, <2>1, <2>2 DEF Receiving
<1>5. ASSUME NEW s, Freed(p, K, s)
      PROVE  /\ s \in Proc /\ Receiving(p, s)
             /\ \E j \in 0 .. step[p] - 1 : RecvProc(p, j) = s
             /\ \E m \in Arrived(p, K) : m.src = s
  <2>1. PICK k \in K : requests[p][k].kind = "recv" /\ requests[p][k].peer = s
    BY <1>5 DEF Freed
  <2>2. /\ requests[p][k] \in active[p] /\ Taken(p, requests[p][k]) # {}
    BY <1>2, <2>1 DEF IsOp, Completed
  <2>3. PICK m \in Taken(p, requests[p][k]) : m.src = s
    BY <2>1, <2>2, Match
  <2>4. m \in Arrived(p, K)
    BY <2>3 DEF Arrived
  <2>5. s \in Proc /\ Receiving(p, s)
    BY <1>1, <2>1, <2>2 DEF Receiving
  <2>6. \E j \in 0 .. step[p] - 1 : RecvProc(p, j) = s
    BY <1>1, <2>1 DEF Recorded
  <2>. QED  BY <2>3, <2>4, <2>5, <2>6
<1>6. ASSUME NEW m \in Arrived(p, K)
      PROVE  /\ m \in flight /\ m.dst = p /\ m.call = call[p] /\ m.src \in Proc
             /\ Freed(p, K, m.src) /\ m.body = Block(m.src, p, call[p])
  <2>1. PICK k \in K : m \in Taken(p, requests[p][k])
    BY DEF Arrived
  <2>2. requests[p][k].kind = "recv"
    BY <2>1 DEF Taken
  <2>3. requests[p][k] \in active[p]
    BY <1>2, <2>2 DEF IsOp
  <2>4. /\ m \in flight /\ m.dst = p /\ m.src = requests[p][k].peer /\ m.call = call[p]
        /\ m.body = Block(requests[p][k].peer, p, call[p])
    BY <2>1, <2>2, <2>3, Match
  <2>. QED  BY <1>1, <2>2, <2>3, <2>4 DEF Freed
<1>7. ASSUME NEW m \in flight, m.dst = p, m.call = call[p], Freed(p, K, m.src)
      PROVE  m \in Arrived(p, K)
  <2>1. PICK k \in K : requests[p][k].kind = "recv" /\ requests[p][k].peer = m.src
    BY <1>7 DEF Freed
  <2>2. requests[p][k] \in active[p]
    BY <1>2, <2>1 DEF IsOp
  <2>3. m \in Taken(p, requests[p][k])
    BY <1>7, <2>1, <2>2, Match
  <2>. QED  BY <2>3 DEF Arrived
<1>. QED  BY <1>3, <1>4, <1>5, <1>6, <1>7

LEMMA Buffers ==
  ASSUME RInv, NEW p \in Proc, Exchanging(p), NEW K \in SUBSET DOMAIN requests[p], Wait(p, K),
         \A k \in K : IsOp(requests[p][k]) => Completed(p, requests[p][k])
  PROVE  LET buf == Received(Target(p), Arrived(p, K)) IN
         /\ DOMAIN buf = Proc
         /\ buf = [s \in Proc |-> buf[s]]
         /\ \A s \in Proc : buf[s] = IF Freed(p, K, s) THEN Block(s, p, call[p]) ELSE Target(p)[s]
<1> DEFINE M == Arrived(p, K)
           buf == Received(Target(p), M)
<1>1. DOMAIN Target(p) = Proc
  BY DEF RInv, InCall
<1>2. buf = [s \in Proc |-> IF \E m \in M : m.src = s
                            THEN (CHOOSE m \in M : m.src = s).body ELSE Target(p)[s]]
  BY <1>1 DEF Received
<1>3. ASSUME NEW s \in Proc
      PROVE  buf[s] = IF Freed(p, K, s) THEN Block(s, p, call[p]) ELSE Target(p)[s]
  <2>1. CASE Freed(p, K, s)
    <3>1. \E m \in M : m.src = s
      BY <2>1, WaitEffect
    <3>2. PICK m : m = CHOOSE o \in M : o.src = s
      OBVIOUS
    <3>3. m \in M /\ m.src = s
      BY <3>1, <3>2
    <3>4. m.body = Block(s, p, call[p])
      BY <3>3, WaitEffect
    <3>5. buf[s] = m.body
      BY <1>2, <3>1, <3>2
    <3>. QED  BY <2>1, <3>4, <3>5
  <2>2. CASE ~ Freed(p, K, s)
    <3>1. ~ \E m \in M : m.src = s
      BY <2>2, WaitEffect
    <3>. QED  BY <1>2, <2>2, <3>1
  <2>. QED  BY <2>1, <2>2
<1>4. DOMAIN buf = Proc /\ buf = [s \in Proc |-> buf[s]]
  BY <1>2
<1>. QED  BY <1>3, <1>4

LEMMA RecordsAreNotEmpty ==
  ASSUME NEW a, NEW b PROVE [send |-> a, recv |-> b] # << >>
<1>1. DOMAIN [send |-> a, recv |-> b] = {"send", "recv"}
  OBVIOUS
<1>2. DOMAIN << >> = {}
  OBVIOUS
<1>. QED  BY <1>1, <1>2

LEMMA Stores ==
  ASSUME RInv, NEW p \in Proc, Exchanging(p), NEW buf, Store(p, buf), n' = n
  PROVE  /\ DOMAIN cpu' = Proc /\ DOMAIN recvbuf' = Proc /\ Target(p)' = buf
         /\ \/ cpu'[p] = << >>
            \/ cpu'[p] = [send |-> SendBuf(p, call[p]), recv |-> cpu'[p].recv]
         /\ \A q \in Proc \ {p} : cpu'[q] = cpu[q] /\ recvbuf'[q] = recvbuf[q]
<1>1. /\ DOMAIN cpu = Proc /\ DOMAIN recvbuf = Proc
      /\ \/ cpu[p] = << >>
         \/ cpu[p] = [send |-> SendBuf(p, call[p]), recv |-> cpu[p].recv]
  BY Facts DEF RInv, InCall
<1>2. CASE cpu[p] = << >>
  BY <1>1, <1>2 DEF Store, Target
<1>3. CASE cpu[p] = [send |-> SendBuf(p, call[p]), recv |-> cpu[p].recv]
  <2>1. cpu[p] # << >>
    BY <1>3, RecordsAreNotEmpty
  <2>2. cpu' = [cpu EXCEPT ![p].recv = buf] /\ recvbuf' = recvbuf
    BY <2>1 DEF Store
  <2>3. cpu'[p] = [send |-> SendBuf(p, call[p]), recv |-> buf]
    BY <1>1, <1>3, <2>2
  <2>4. cpu'[p] # << >>
    BY <2>3, RecordsAreNotEmpty
  <2>5. Target(p)' = buf
    BY <2>3, <2>4 DEF Target
  <2>. QED  BY <1>1, <2>2, <2>3, <2>5
<1>. QED  BY <1>1, <1>2, <1>3
-----------------------------------------------------------------------------
(* After a wait the messages that are left are those not taken yet.             *)
LEMMA WaitKeeps ==
  ASSUME RInv, NEW p \in Proc, Exchanging(p), NEW K \in SUBSET DOMAIN requests[p], Wait(p, K),
         \A k \in K : IsOp(requests[p][k]) => Completed(p, requests[p][k]),
         n' = n, program' = program, call' = call, tag' = tag,
         \A q \in Proc \ {p} : pc'[q] = pc[q] /\ step'[q] = step[q],
         \A d \in Proc : \A c \in Calls : Sent(p, d, c)' <=> Sent(p, d, c),
         \A s \in Proc : \A c \in Calls :
           Took(p, s, c)' <=> Took(p, s, c) \/ (c = call[p] /\ Freed(p, K, s))
  PROVE  MessageInv'
<1>1. /\ Proc' = Proc /\ Calls' = Calls /\ (\A c : Messaging(c)' <=> Messaging(c))
      /\ flight' = flight \ Arrived(p, K)
  BY SameMethods DEF Proc, Calls, Wait
<1>2. /\ \A s : Freed(p, K, s) => \E m \in Arrived(p, K) : m.src = s
      /\ \A m \in Arrived(p, K) : /\ m \in flight /\ m.dst = p /\ m.call = call[p]
                                  /\ Freed(p, K, m.src)
      /\ \A m \in flight :
           m.dst = p /\ m.call = call[p] /\ Freed(p, K, m.src) => m \in Arrived(p, K)
      /\ \A q \in Proc \ {p} : active'[q] = active[q]
  BY WaitEffect
<1>3. \A s, d \in Proc : \A c \in Calls : Sent(s, d, c)' <=> Sent(s, d, c)
  BY <1>2, StatusOfOthers
<1>4. \A s, d \in Proc : \A c \in Calls :
        Took(d, s, c)' <=> Took(d, s, c) \/ (d = p /\ c = call[p] /\ Freed(p, K, s))
  BY <1>2, StatusOfOthers
<1>5. ASSUME NEW m \in flight' PROVE InFlight(m)'
  <2>1. m \in flight /\ m \notin Arrived(p, K) /\ InFlight(m)
    BY <1>1, <1>5 DEF RInv, MessageInv
  <2>2. /\ m.src \in Proc /\ m.dst \in Proc /\ m.call \in Calls
        /\ Sent(m.src, m.dst, m.call) /\ ~ Took(m.dst, m.src, m.call)
    BY <2>1 DEF InFlight
  <2>3. ~ (m.dst = p /\ m.call = call[p] /\ Freed(p, K, m.src))
    BY <1>2, <2>1
  <2>4. Sent(m.src, m.dst, m.call)' /\ ~ Took(m.dst, m.src, m.call)'
    BY <1>3, <1>4, <2>2, <2>3
  <2>. QED  BY <1>1, <2>1, <2>4 DEF InFlight, Block
<1>6. ASSUME NEW s \in Proc, NEW d \in Proc, NEW c \in Calls, Messaging(c)
      PROVE  OnItsWay(s, d, c)' /\ (Took(d, s, c)' => Sent(s, d, c)')
  <2>1. OnItsWay(s, d, c) /\ (Took(d, s, c) => Sent(s, d, c))
    BY <1>6 DEF RInv, MessageInv
  <2>2. ASSUME Sent(s, d, c)', ~ Took(d, s, c)'
        PROVE  \E m \in flight' : m.src = s /\ m.dst = d /\ m.call = c
    <3>1. Sent(s, d, c) /\ ~ Took(d, s, c) /\ ~ (d = p /\ c = call[p] /\ Freed(p, K, s))
      BY <1>3, <1>4, <2>2
    <3>2. PICK m \in flight : m.src = s /\ m.dst = d /\ m.call = c
      BY <2>1, <3>1 DEF OnItsWay
    <3>3. m \notin Arrived(p, K)
      BY <1>2, <3>1, <3>2
    <3>. QED  BY <1>1, <3>2, <3>3
  <2>3. Took(d, s, c)' => Sent(s, d, c)'
    <3>1. CASE d = p /\ c = call[p] /\ Freed(p, K, s)
      <4>1. PICK m \in Arrived(p, K) : m.src = s
        BY <1>2, <3>1
      <4>2. m \in flight /\ m.dst = p /\ m.call = call[p]
        BY <1>2, <4>1
      <4>3. InFlight(m)
        BY <4>2 DEF RInv, MessageInv
      <4>4. Sent(s, d, c)
        BY <3>1, <4>1, <4>2, <4>3 DEF InFlight
      <4>. QED  BY <1>3, <4>4
    <3>2. CASE ~ (d = p /\ c = call[p] /\ Freed(p, K, s))
      BY <1>3, <1>4, <2>1, <3>2
    <3>. QED  BY <3>1, <3>2
  <2>. QED  BY <2>2, <2>3 DEF OnItsWay
<1>. QED  BY <1>1, <1>5, <1>6 DEF MessageInv

(* A wait inside the exchange: the rank has taken what it freed, and stored it.  *)
LEMMA WaitsInside ==
  ASSUME RInv, NEW p \in Proc, Exchanging(p), NEW K \in SUBSET DOMAIN requests[p], Wait(p, K),
         \A k \in K : IsOp(requests[p][k]) => Completed(p, requests[p][k]),
         Store(p, Received(Target(p), Arrived(p, K))), Exchanging(p)',
         n' = n, program' = program, call' = call, todo' = todo, tag' = tag, commTag' = commTag,
         step' = step, \A q \in Proc \ {p} : pc'[q] = pc[q]
  PROVE  MessageInv' /\ Skew' /\ TagSync' /\ Counted' /\ (\A q \in Proc : InCall(q)')
<1>1. /\ Proc' = Proc /\ Calls' = Calls /\ (\A c : Messaging(c)' <=> Messaging(c))
      /\ \A q, j : SendProc(q, j)' = SendProc(q, j) /\ RecvProc(q, j)' = RecvProc(q, j)
  BY SameMethods DEF Proc, Calls, SendProc, RecvProc
<1>2. /\ call[p] \in Calls /\ Messaging(call[p]) /\ pc[p] \notin {"idle", "pmpi"}
      /\ pc'[p] \notin {"idle", "pmpi"}
  BY Facts DEF Exchanging
<1>3. /\ active'[p] \subseteq active[p] /\ \A q \in Proc \ {p} : active'[q] = active[q]
      /\ \A s : Receiving(p, s)' <=> Receiving(p, s) /\ ~ Freed(p, K, s)
      /\ \A s : Freed(p, K, s) => \E j \in 0 .. step[p] - 1 : RecvProc(p, j) = s
  BY WaitEffect
<1>4. \A s : Taking(p, s)' <=> Taking(p, s) \/ Freed(p, K, s)
  <2>1. \A s : Taking(p, s)' <=> /\ \E j \in 0 .. step[p] - 1 : RecvProc(p, j) = s
                                 /\ ~ Receiving(p, s)'
    BY <1>1 DEF Taking
  <2>. QED  BY <1>3, <2>1 DEF Taking
<1>5. MessageInv'
  <2>1. \A d \in Proc : \A c \in Calls : Sent(p, d, c)' <=> Sent(p, d, c)
    BY <1>1, <1>2 DEF Sent
  <2>2. \A s \in Proc : \A c \in Calls :
          Took(p, s, c)' <=> Took(p, s, c) \/ (c = call[p] /\ Freed(p, K, s))
    BY <1>2, <1>4 DEF Took
  <2>. QED  BY <2>1, <2>2, WaitKeeps
<1>6. \A q \in Proc : pc'[q] = "idle" <=> pc[q] = "idle"
  BY <1>2
<1>7. Skew'
  BY <1>1, <1>6 DEF RInv, Skew
<1>8. TagSync'
  BY <1>1 DEF RInv, TagSync, NextTag
<1>9. /\ DOMAIN cpu' = Proc /\ DOMAIN recvbuf' = Proc
      /\ Target(p)' = Received(Target(p), Arrived(p, K))
      /\ \/ cpu'[p] = << >>
         \/ cpu'[p] = [send |-> SendBuf(p, call[p]), recv |-> cpu'[p].recv]
      /\ \A q \in Proc \ {p} : cpu'[q] = cpu[q] /\ recvbuf'[q] = recvbuf[q]
  BY Stores
<1>10. Counted'
  BY <1>1, <1>6, <1>9 DEF RInv, Counted
<1>11. InCall(p)'
  <2>1. InCall(p)
    BY DEF RInv
  <2>2. /\ SendBuf(p, call[p])' = SendBuf(p, call[p])
        /\ \A s : Block(s, p, call[p])' = Block(s, p, call[p])
        /\ \A k, o : Operation(k, p, o)' = Operation(k, p, o)
    BY <1>1 DEF SendBuf, Block, Operation
  <2>3. DOMAIN Target(p)' = Proc
    BY <1>9, Buffers
  <2>4. \A s \in Proc : Taking(p, s)' => Target(p)'[s] = Block(s, p, call[p])
    <3>1. ASSUME NEW s \in Proc, Taking(p, s) \/ Freed(p, K, s)
          PROVE  Received(Target(p), Arrived(p, K))[s] = Block(s, p, call[p])
      <4>1. Taking(p, s) => Target(p)[s] = Block(s, p, call[p])
        BY <2>1 DEF InCall
      <4>. QED  BY <3>1, <4>1, Buffers
    <3>. QED  BY <1>4, <1>9, <3>1
  <2>5. \A op \in active'[p] : op.peer \in Proc /\ op = Operation(op.kind, p, op.peer)
    BY <1>3, <2>1 DEF InCall
  <2>. QED  BY <1>1, <1>2, <1>9, <2>1, <2>2, <2>3, <2>4, <2>5 DEF InCall
<1>12. ASSUME NEW q \in Proc, q # p PROVE InCall(q)'
  BY <1>3, <1>9, <1>12, OthersInCall
<1>. QED  BY <1>5, <1>7, <1>8, <1>10, <1>11, <1>12

LEMMA WaitanyKeepsAll ==
  ASSUME RInv, NEW p \in Proc, WaitanySend(p) \/ WaitanyRecv(p)
  PROVE  MessageInv' /\ Skew' /\ TagSync' /\ Counted' /\ (\A q \in Proc : InCall(q)')
<1>1. /\ pc[p] \in {"waitanySend", "waitanyRecv"} /\ Exchanging(p)
      /\ n' = n /\ program' = program /\ call' = call /\ todo' = todo /\ tag' = tag
      /\ commTag' = commTag /\ step' = step
  BY DEF WaitanySend, WaitanyRecv, Exchanging
<1>2. /\ DOMAIN requests[p] = 0 .. 2 * Stride - 1 /\ Stride \in Nat \ {0} /\ DOMAIN pc = Proc
  BY <1>1, OnlyAsync, Facts DEF RInv, BatchAsync
<1>3. PICK k \in 0 .. 2 * Stride - 1 : \E next : Waitany(p, k, next)
  <2>1. CASE WaitanySend(p)
    <3>1. PICK k \in 0 .. Stride - 1 : Waitany(p, k, SendSlot(slot[p], k))
      BY <2>1 DEF WaitanySend
    <3>2. k \in 0 .. 2 * Stride - 1
      BY <1>2
    <3>. QED  BY <3>1, <3>2
  <2>2. CASE WaitanyRecv(p)
    <3>1. PICK k \in Stride .. 2 * Stride - 1 : Waitany(p, k, RecvSlot(slot[p], k))
      BY <2>2 DEF WaitanyRecv
    <3>2. k \in 0 .. 2 * Stride - 1
      BY <1>2
    <3>. QED  BY <3>1, <3>2
  <2>. QED  BY <2>1, <2>2
<1>4. /\ {k} \in SUBSET DOMAIN requests[p] /\ Wait(p, {k})
      /\ \A j \in {k} : IsOp(requests[p][j]) => Completed(p, requests[p][j])
      /\ Store(p, Received(Target(p), Arrived(p, {k})))
  BY <1>2, <1>3 DEF Waitany
<1>5. Exchanging(p)' /\ \A q \in Proc \ {p} : pc'[q] = pc[q]
  BY <1>2 DEF WaitanySend, WaitanyRecv, Exchanging
<1>. QED  BY <1>1, <1>4, <1>5, WaitsInside

LEMMA WaitallIsAWait ==
  ASSUME RInv, NEW p \in Proc, Waitall(p)
  PROVE  /\ Exchanging(p) /\ Awaited(p) \in SUBSET DOMAIN requests[p] /\ Wait(p, Awaited(p))
         /\ \A k \in Awaited(p) : IsOp(requests[p][k]) => Completed(p, requests[p][k])
<1>1. IInv /\ pc[p] = "waitall"
  BY DEF RInv, Waitall
<1>2. Awaited(p) \subseteq DOMAIN requests[p]
  BY <1>1, AllAwaited
<1>. QED  BY <1>1, <1>2 DEF Waitall, IsOp, Exchanging

LEMMA GoOnKeepsAll ==
  ASSUME RInv, NEW p \in Proc, WaitallAndGoOn(p)
  PROVE  MessageInv' /\ Skew' /\ TagSync' /\ Counted' /\ (\A q \in Proc : InCall(q)')
<1>1. /\ Waitall(p) /\ n' = n /\ program' = program /\ call' = call /\ todo' = todo /\ tag' = tag
      /\ commTag' = commTag /\ step' = step
      /\ Store(p, Received(Target(p), Arrived(p, Awaited(p))))
  BY DEF WaitallAndGoOn
<1>2. Exchanging(p)' /\ \A q \in Proc \ {p} : pc'[q] = pc[q]
  BY Facts DEF WaitallAndGoOn, Exchanging
<1>3. PICK K : K = Awaited(p)
  OBVIOUS
<1>. QED  BY <1>1, <1>2, <1>3, WaitallIsAWait, WaitsInside

(* After the last step a Waitall frees every receive left: the rank has then      *)
(* sent to everyone and taken the message of everyone.                         *)
LEMMA LastWaitall ==
  ASSUME RInv, NEW p \in Proc, Waitall(p), step[p] = n
  PROVE  /\ active'[p] = {}
         /\ \A d \in Proc : Sent(p, d, call[p])
         /\ \A s \in Proc : Taking(p, s) \/ Freed(p, Awaited(p), s)
         /\ DOMAIN Received(Target(p), Arrived(p, Awaited(p))) = Proc
         /\ Received(Target(p), Arrived(p, Awaited(p))) = [s \in Proc |-> Block(s, p, call[p])]
<1>1. PICK K : K = Awaited(p)
  OBVIOUS
<1>2. /\ Exchanging(p) /\ K \in SUBSET DOMAIN requests[p] /\ Wait(p, K)
      /\ \A k \in K : IsOp(requests[p][k]) => Completed(p, requests[p][k])
  BY <1>1, WaitallIsAWait
<1>3. n \in Nat \ {0}
  BY Facts
<1>4. active'[p] = {}
  BY WaitallEmpties DEF RInv
<1>5. \A d \in Proc : Sent(p, d, call[p])
  BY <1>3, Everyone DEF Sent
<1>6. \A s \in Proc : Taking(p, s) \/ Freed(p, K, s)
  <2>1. \A s : ~ Receiving(p, s)'
    BY <1>4 DEF Receiving
  <2>2. \A s : Receiving(p, s) => Freed(p, K, s)
    BY <1>2, <2>1, WaitEffect
  <2>. QED  BY <1>3, <2>2, Everyone DEF Taking
<1>7. /\ DOMAIN Received(Target(p), Arrived(p, K)) = Proc
      /\ Received(Target(p), Arrived(p, K)) = [s \in Proc |-> Block(s, p, call[p])]
  <2> DEFINE buf == Received(Target(p), Arrived(p, K))
  <2>1. /\ DOMAIN buf = Proc /\ buf = [s \in Proc |-> buf[s]]
        /\ \A s \in Proc : buf[s] = IF Freed(p, K, s) THEN Block(s, p, call[p]) ELSE Target(p)[s]
    BY <1>2, Buffers
  <2>2. \A s \in Proc : Taking(p, s) => Target(p)[s] = Block(s, p, call[p])
    BY <1>2 DEF RInv, InCall
  <2>3. \A s \in Proc : buf[s] = Block(s, p, call[p])
    BY <1>6, <2>1, <2>2
  <2>. HIDE DEF buf
  <2>4. buf = [s \in Proc |-> Block(s, p, call[p])]
    BY <2>1, <2>3
  <2>. QED  BY <2>1, <2>4 DEF buf
<1>. QED  BY <1>1, <1>4, <1>5, <1>6, <1>7

(* A rank that returns has messages of every other of this call: no rank is      *)
(* behind.                                                                   *)
LEMMA ReturnKeepsAll ==
  ASSUME RInv, NEW p \in Proc, WaitallAndFinish(p), ~ (Len(todo[p]) > 1)
  PROVE  /\ MessageInv' /\ Skew' /\ TagSync' /\ Counted' /\ (\A q \in Proc : InCall(q)')
         /\ \A q \in Proc : call[q] >= call[p]
<1>1. /\ Waitall(p) /\ step[p] = n /\ pc' = [pc EXCEPT ![p] = "idle"]
      /\ todo' = [todo EXCEPT ![p] = << >>] /\ cpu' = [cpu EXCEPT ![p] = << >>]
      /\ recvbuf' = [recvbuf EXCEPT ![p] = Received(Target(p), Arrived(p, Awaited(p)))]
      /\ step' = step /\ commTag' = commTag /\ tag' = tag
      /\ n' = n /\ program' = program /\ call' = call
  BY DEF WaitallAndFinish
<1>2. PICK K : K = Awaited(p)
  OBVIOUS
<1>3. /\ Exchanging(p) /\ K \in SUBSET DOMAIN requests[p] /\ Wait(p, K)
      /\ \A k \in K : IsOp(requests[p][k]) => Completed(p, requests[p][k])
  BY <1>1, <1>2, WaitallIsAWait
<1>4. /\ call[p] \in Calls /\ Messaging(call[p]) /\ pc[p] \notin {"idle", "pmpi"}
      /\ DOMAIN pc = Proc /\ DOMAIN todo = Proc /\ DOMAIN cpu = Proc /\ DOMAIN recvbuf = Proc
  BY <1>3, Facts
<1>5. pc'[p] = "idle" /\ \A q \in Proc \ {p} :
        /\ pc'[q] = pc[q] /\ todo'[q] = todo[q] /\ cpu'[q] = cpu[q] /\ recvbuf'[q] = recvbuf[q]
  BY <1>1, <1>4
<1>6. /\ \A d \in Proc : Sent(p, d, call[p])
      /\ \A s \in Proc : Taking(p, s) \/ Freed(p, K, s)
  BY <1>1, <1>2, LastWaitall
<1>7. \A d \in Proc : \A c \in Calls : Sent(p, d, c)' <=> Sent(p, d, c)
  BY <1>1, <1>5, <1>6 DEF Sent
<1>8. \A s \in Proc : \A c \in Calls :
        Took(p, s, c)' <=> Took(p, s, c) \/ (c = call[p] /\ Freed(p, K, s))
  BY <1>1, <1>4, <1>5, <1>6 DEF Took
<1>9. MessageInv'
  BY <1>1, <1>3, <1>5, <1>7, <1>8, WaitKeeps
<1>10. /\ Proc' = Proc /\ Calls' = Calls /\ (\A c : Messaging(c)' <=> Messaging(c))
  BY <1>1, SameMethods DEF Proc, Calls
<1>11. ASSUME NEW q \in Proc PROVE call[q] >= call[p]
  <2>1. Took(p, q, call[p])'
    BY <1>1, <1>5 DEF Took
  <2>2. PICK c \in Calls : c = call[p]
    BY <1>4
  <2>3. Took(p, q, c)' => Sent(q, p, c)'
    BY <1>4, <1>9, <1>10, <2>2 DEF MessageInv
  <2>4. Took(p, q, c)'
    BY <1>1, <1>5, <2>2 DEF Took
  <2>5. c < call[q] \/ c = call[q]
    BY <1>1, <2>3, <2>4 DEF Sent
  <2>6. call[q] \in Nat /\ call[p] \in Nat
    BY Facts
  <2>. QED  BY <2>2, <2>5, <2>6
<1>12. Skew'
  <2>1. ASSUME NEW s \in Proc, NEW q \in Proc
        PROVE  call[q] >= IF pc'[s] = "idle" THEN call[s] ELSE call[s] - 1
    <3>1. CASE s = p
      BY <1>5, <1>11, <3>1
    <3>2. CASE s # p
      BY <1>5, <3>2 DEF RInv, Skew
    <3>. QED  BY <3>1, <3>2
  <2>. QED  BY <1>1, <1>10, <2>1 DEF Skew
<1>13. TagSync'
  BY <1>1, <1>10 DEF RInv, TagSync, NextTag
<1>14. Counted'
  <2>1. DOMAIN cpu' = Proc /\ DOMAIN recvbuf' = Proc
    BY <1>1, <1>4
  <2>2. \A q \in Proc : pc'[q] # "idle" => pc[q] # "idle"
    BY <1>5
  <2>. QED  BY <1>1, <1>10, <2>1, <2>2 DEF RInv, Counted
<1>15. InCall(p)'
  BY <1>5 DEF InCall, Exchanging
<1>16. ASSUME NEW q \in Proc, q # p PROVE InCall(q)'
  <2>1. active'[q] = active[q]
    BY <1>3, <1>16, WaitEffect
  <2>. QED  BY <1>1, <1>5, <1>16, <2>1, OthersInCall
<1>. QED  BY <1>9, <1>11, <1>12, <1>13, <1>14, <1>15, <1>16

LEMMA TwoLeft ==
  ASSUME RInv, NEW p \in Proc, Exchanging(p), Len(todo[p]) > 1
  PROVE  todo[p] = <<"pairwise", "nonblocking">>
<1>1. todo[p] \in ExchangeLists
  BY DEF RInv, IInv, RankInv, Control
<1>2. /\ Len(<<"pairwise">>) = 1 /\ Len(<<"nonblocking">>) = 1
      /\ Len(<<"batch">>) = 1 /\ Len(<<"batch_async">>) = 1 /\ ~ (1 > 1)
  OBVIOUS
<1>. QED  BY Zenon, <1>1, <1>2 DEF ExchangeLists

(* The second exchange of alltoallv_nonblocking: there is one rank, and none of   *)
(* its messages is left.                                                     *)
LEMMA AgainKeepsAll ==
  ASSUME RInv, NEW p \in Proc, WaitallAndFinish(p), Len(todo[p]) > 1
  PROVE  MessageInv' /\ Skew' /\ TagSync' /\ Counted' /\ (\A q \in Proc : InCall(q)')
<1>1. /\ Waitall(p) /\ step[p] = n /\ Begin(p, Tail(todo[p]))
      /\ Store(p, Received(Target(p), Arrived(p, Awaited(p))))
      /\ n' = n /\ program' = program /\ call' = call
  BY DEF WaitallAndFinish
<1>2. PICK K : K = Awaited(p)
  OBVIOUS
<1>3. /\ Exchanging(p) /\ K \in SUBSET DOMAIN requests[p] /\ Wait(p, K)
      /\ \A k \in K : IsOp(requests[p][k]) => Completed(p, requests[p][k])
  BY <1>1, <1>2, WaitallIsAWait
<1>4. /\ call[p] \in Calls /\ Messaging(call[p]) /\ pc[p] \notin {"idle", "pmpi"}
      /\ DOMAIN pc = Proc /\ DOMAIN todo = Proc /\ DOMAIN step = Proc /\ DOMAIN tag = Proc
      /\ DOMAIN commTag = Proc /\ call[p] \in 0 .. Len(program) /\ Len(program) \in Nat
  BY <1>3, Facts
<1>5. n = 1 /\ Proc = {p}
  <2>1. n = 1
    BY <1>3 DEF RInv, InCall
  <2>. QED  BY <2>1 DEF Proc
<1>6. todo[p] = <<"pairwise", "nonblocking">>
  BY <1>3, TwoLeft
<1>7. Tail(todo[p]) = <<"nonblocking">> /\ Head(Tail(todo[p])) = "nonblocking"
  BY <1>6
<1>8. /\ pc'[p] = "step" /\ step'[p] = 0 /\ Len(todo'[p]) = 1
      /\ DOMAIN tag' = Proc /\ DOMAIN commTag' = Proc
  BY <1>1, <1>4, <1>7 DEF Begin
<1>9. /\ active'[p] = {}
      /\ \A d \in Proc : Sent(p, d, call[p])
      /\ \A s \in Proc : Taking(p, s) \/ Freed(p, K, s)
      /\ DOMAIN Received(Target(p), Arrived(p, K)) = Proc
  BY <1>1, <1>2, LastWaitall
<1>10. /\ Proc' = Proc /\ Calls' = Calls /\ (\A c : Messaging(c)' <=> Messaging(c))
  BY <1>1, SameMethods DEF Proc, Calls
<1>11. 0 .. step'[p] - 1 = {}
  BY <1>8
<1>12. flight' = {}
  <2>1. ASSUME NEW m \in flight PROVE m \in Arrived(p, K)
    <3>1. InFlight(m)
      BY DEF RInv, MessageInv
    <3>2. /\ m.src = p /\ m.dst = p /\ m.call \in Calls
          /\ Sent(p, p, m.call) /\ ~ Took(p, p, m.call)
      BY <1>5, <3>1 DEF InFlight
    <3>3. m.call = call[p] /\ ~ Taking(p, p)
      BY <1>4, <3>2 DEF Sent, Took, Calls
    <3>4. Freed(p, K, p)
      BY <1>9, <3>3
    <3>. QED  BY <1>3, <3>2, <3>3, <3>4, WaitEffect
  <2>. QED  BY <1>3, <2>1 DEF Wait
<1>13. MessageInv'
  <2>1. \A c \in Calls : /\ Sent(p, p, c)' <=> c < call[p]
                         /\ Took(p, p, c)' <=> c < call[p]
    BY <1>1, <1>8, <1>11 DEF Sent, Took, Taking
  <2>. QED  BY <1>5, <1>10, <1>12, <2>1 DEF MessageInv, OnItsWay
<1>14. Skew'
  <2>1. call[p] >= call[p] - 1
    BY <1>4
  <2>. QED  BY <1>1, <1>5, <1>8, <1>10, <2>1 DEF Skew
<1>15. TagSync'
  <2>1. call[p] # call[p] + 1
    BY <1>4
  <2>. QED  BY <1>1, <1>5, <1>10, <2>1 DEF TagSync
<1>16. /\ DOMAIN cpu' = Proc /\ DOMAIN recvbuf' = Proc
       /\ Target(p)' = Received(Target(p), Arrived(p, K))
       /\ \/ cpu'[p] = << >>
          \/ cpu'[p] = [send |-> SendBuf(p, call[p]), recv |-> cpu'[p].recv]
  BY <1>1, <1>2, <1>3, Stores
<1>17. Counted'
  BY <1>1, <1>4, <1>5, <1>8, <1>10, <1>16 DEF RInv, Counted
<1>18. InCall(p)'
  <2>1. SendBuf(p, call[p])' = SendBuf(p, call[p])
    BY <1>1, <1>10 DEF SendBuf, Block
  <2>2. \A s : ~ Taking(p, s)'
    BY <1>11 DEF Taking
  <2>3. ~ (Len(todo'[p]) > 1)
    BY <1>8
  <2>. QED  BY <1>1, <1>4, <1>8, <1>9, <1>10, <1>16, <2>1, <2>2, <2>3 DEF InCall
<1>. QED  BY <1>5, <1>13, <1>14, <1>15, <1>17, <1>18

LEMMA PmpiReturnKeepsAll ==
  ASSUME RInv, NEW p \in Proc, PmpiReturn(p)
  PROVE  MessageInv' /\ Skew' /\ TagSync' /\ Counted' /\ (\A q \in Proc : InCall(q)')
<1>1. /\ pc[p] = "pmpi" /\ (\A q \in Proc : call[q] >= call[p])
      /\ recvbuf' = [recvbuf EXCEPT ![p] = [s \in Proc |-> SendBuf(s, call[p])[p]]]
      /\ pc' = [pc EXCEPT ![p] = "idle"] /\ todo' = [todo EXCEPT ![p] = << >>]
      /\ n' = n /\ program' = program /\ call' = call /\ step' = step /\ commTag' = commTag
      /\ tag' = tag /\ flight' = flight /\ active' = active /\ cpu' = cpu
  BY DEF PmpiReturn
<1>2. /\ DOMAIN pc = Proc /\ DOMAIN todo = Proc /\ DOMAIN recvbuf = Proc /\ call[p] \in Calls
      /\ ~ Messaging(call[p])
  BY <1>1, Facts DEF RInv, InCall
<1>3. pc'[p] = "idle" /\ \A q \in Proc \ {p} :
        pc'[q] = pc[q] /\ todo'[q] = todo[q] /\ recvbuf'[q] = recvbuf[q]
  BY <1>1, <1>2
<1>4. /\ Proc' = Proc /\ Calls' = Calls /\ (\A c : Messaging(c)' <=> Messaging(c))
  BY <1>1, SameMethods DEF Proc, Calls
<1>5. MessageInv'
  <2>1. ASSUME NEW q \in Proc, NEW d \in Proc, NEW c \in Calls, Messaging(c)
        PROVE  (Sent(q, d, c)' <=> Sent(q, d, c)) /\ (Took(q, d, c)' <=> Took(q, d, c))
    <3>1. CASE q # p
      BY <1>1, <1>3, <3>1, StatusOfOthers
    <3>2. CASE q = p
      <4>1. c # call[p]
        BY <1>2, <2>1
      <4>. QED  BY <1>1, <3>2, <4>1 DEF Sent, Took
    <3>. QED  BY <3>1, <3>2
  <2>2. ASSUME NEW m \in flight
        PROVE  /\ m.call = call'[m.src] => m.tag = tag'[m.src]
               /\ m.call = call'[m.dst] => m.tag = tag'[m.dst]
    BY <1>1 DEF RInv, MessageInv, InFlight
  <2>. QED  BY <1>1, <2>1, <2>2, MessagesStay
<1>6. Skew'
  <2>1. ASSUME NEW s \in Proc, NEW q \in Proc
        PROVE  call[q] >= IF pc'[s] = "idle" THEN call[s] ELSE call[s] - 1
    <3>1. CASE s = p
      BY <1>1, <1>3, <3>1
    <3>2. CASE s # p
      BY <1>3, <3>2 DEF RInv, Skew
    <3>. QED  BY <3>1, <3>2
  <2>. QED  BY <1>1, <1>4, <2>1 DEF Skew
<1>7. TagSync'
  BY <1>1, <1>4 DEF RInv, TagSync, NextTag
<1>8. Counted'
  <2>1. DOMAIN recvbuf' = Proc
    BY <1>1, <1>2
  <2>2. \A q \in Proc : pc'[q] # "idle" => pc[q] # "idle"
    BY <1>3
  <2>. QED  BY <1>1, <1>4, <2>1, <2>2 DEF RInv, Counted
<1>9. InCall(p)'
  BY <1>3 DEF InCall, Exchanging
<1>10. ASSUME NEW q \in Proc, q # p PROVE InCall(q)'
  BY <1>1, <1>3, <1>10, OthersInCall
<1>. QED  BY <1>5, <1>6, <1>7, <1>8, <1>9, <1>10
-----------------------------------------------------------------------------
LEMMA InitiallyAll == Init => RInv
<1> SUFFICES ASSUME Init PROVE RInv
  OBVIOUS
<1>1. IInv /\ n \in Nat \ {0} /\ n \in Sizes /\ program \in Programs[n]
  BY Initially, OneIsNatural DEF Init
<1>2. Len(program) \in Nat
  <2>1. program \in Seq({"alltoall", "alltoallv"} \X STRING)
    BY <1>1, FlatAssumption
  <2>. QED  BY <2>1
<1>3. /\ call = [p \in Proc |-> 0] /\ pc = [p \in Proc |-> "idle"] /\ flight = {}
      /\ commTag = [p \in Proc |-> 126 % MaxTag] /\ tag = [p \in Proc |-> 0]
      /\ recvbuf = [p \in Proc |-> Undefined] /\ cpu = [p \in Proc |-> << >>]
  BY DEF Init
<1>4. Counted
  BY <1>1, <1>2, <1>3 DEF Counted
<1>5. \A p \in Proc : InCall(p)
  BY <1>3 DEF InCall, Exchanging
<1>6. Skew /\ TagSync
  BY <1>3 DEF Skew, TagSync
<1>7. MessageInv
  <2>1. \A s, p \in Proc : \A c \in Calls : ~ Sent(s, p, c) /\ ~ Took(p, s, c)
    BY <1>2, <1>3 DEF Sent, Took, Calls
  <2>. QED  BY <1>3, <2>1 DEF MessageInv, OnItsWay
<1>. QED  BY <1>1, <1>4, <1>5, <1>6, <1>7 DEF RInv

LEMMA InductiveAll == RInv /\ [Next]_vars => RInv'
<1> SUFFICES ASSUME RInv, [Next]_vars PROVE RInv'
  OBVIOUS
<1>1. IInv'
  BY Inductive DEF RInv
<1>2. ASSUME UNCHANGED vars PROVE RInv'
  <2>1. /\ n' = n /\ program' = program /\ call' = call /\ pc' = pc /\ todo' = todo /\ step' = step
        /\ commTag' = commTag /\ tag' = tag /\ flight' = flight /\ active' = active
        /\ recvbuf' = recvbuf /\ cpu' = cpu
    BY <1>2 DEF vars
  <2>2. Proc' = Proc /\ Calls' = Calls /\ (\A c : Messaging(c)' <=> Messaging(c))
    BY <2>1, SameMethods DEF Proc, Calls
  <2>3. MessageInv'
    <3>1. \A q, d \in Proc : \A c \in Calls :
            (Sent(q, d, c)' <=> Sent(q, d, c)) /\ (Took(q, d, c)' <=> Took(q, d, c))
      BY <2>1, StatusOfOthers
    <3>2. ASSUME NEW m \in flight
          PROVE  /\ m.call = call'[m.src] => m.tag = tag'[m.src]
                 /\ m.call = call'[m.dst] => m.tag = tag'[m.dst]
      BY <2>1 DEF RInv, MessageInv, InFlight
    <3>. QED  BY <2>1, <3>1, <3>2, MessagesStay
  <2>4. \A q \in Proc : InCall(q)'
    BY <2>1, OthersInCall
  <2>5. Counted' /\ Skew' /\ TagSync'
    BY <2>1, <2>2 DEF RInv, Counted, Skew, TagSync, NextTag
  <2>. QED  BY <1>1, <2>2, <2>3, <2>4, <2>5 DEF RInv
<1>3. ASSUME NEW p \in Proc, Step(p) PROVE RInv'
  <2>1. MessageInv' /\ Skew' /\ TagSync' /\ Counted' /\ (\A q \in Proc : InCall(q)')
    BY <1>3, CallKeepsAll, LoopStepKeepsAll, WaitanyKeepsAll, GoOnKeepsAll, ReturnKeepsAll,
       AgainKeepsAll, PmpiReturnKeepsAll DEF Step
  <2>2. n' = n
    BY <1>3 DEF Step, Call, LoopStep, WaitanySend, WaitanyRecv, WaitallAndGoOn,
                WaitallAndFinish, PmpiReturn
  <2>3. Proc' = Proc
    BY <2>2 DEF Proc
  <2>. QED  BY <1>1, <2>1, <2>3 DEF RInv
<1>. QED  BY <1>2, <1>3 DEF Next, AllReturned

LEMMA InvarianceAll == Spec => []RInv
BY InitiallyAll, InductiveAll, PTL DEF Spec
-----------------------------------------------------------------------------
(* The refinement mapping.                                                   *)
Returns == [p \in Proc |-> IF pc[p] = "idle" THEN call[p] ELSE call[p] - 1]
Results == [p \in Proc |-> IF pc[p] = "idle" THEN recvbuf[p] ELSE Undefined]

(* A step inside a call changes nothing the promise is about.                  *)
LEMMA Stutters ==
  ASSUME n' = n, call' = call,
         \A q \in Proc : /\ pc'[q] = "idle" <=> pc[q] = "idle"
                         /\ pc[q] = "idle" => recvbuf'[q] = recvbuf[q]
  PROVE  UNCHANGED <<call, Returns, Results>>
<1>1. Proc' = Proc
  BY DEF Proc
<1>. QED  BY <1>1 DEF Returns, Results, Undefined

LEMMA CallRefines ==
  ASSUME RInv, NEW p \in Proc, Call(p)
  PROVE  Promise!Call(p)
<1>1. /\ pc[p] = "idle" /\ call[p] < Len(program) /\ Proc' = Proc
      /\ call' = [call EXCEPT ![p] = @ + 1]
  BY DEF Call, Proc
<1>2. /\ Len(program) \in Nat /\ call[p] \in Nat /\ DOMAIN call = Proc
  BY Facts
<1>3. call[p] < MaxCalls
  <2>1. Len(program) <= MaxCalls /\ MaxCalls \in Nat
    BY FlatAssumption DEF RInv, Counted
  <2>. QED  BY <1>1, <1>2, <2>1
<1>4. pc'[p] # "idle" /\ \A q \in Proc \ {p} :
        call'[q] = call[q] /\ pc'[q] = pc[q] /\ recvbuf'[q] = recvbuf[q]
  BY CallStatus
<1>5. Returns' = Returns
  <2>1. \A q \in Proc : (IF pc'[q] = "idle" THEN call'[q] ELSE call'[q] - 1)
                          = IF pc[q] = "idle" THEN call[q] ELSE call[q] - 1
    BY <1>1, <1>2, <1>4
  <2>. QED  BY <1>1, <2>1 DEF Returns
<1>6. Results' = [Results EXCEPT ![p] = Undefined]
  BY <1>1, <1>4 DEF Results, Undefined
<1>7. Returns[p] = call[p]
  BY <1>1 DEF Returns
<1>. QED
  BY <1>1, <1>2, <1>3, <1>5, <1>6, <1>7
  DEF Promise!Call, Promise!Undefined, Promise!Proc, Returns, Results, Undefined

LEMMA ReturnRefines ==
  ASSUME RInv, NEW p \in Proc, pc[p] # "idle", n' = n, call' = call,
         pc' = [pc EXCEPT ![p] = "idle"], \A q \in Proc : call[q] >= call[p],
         recvbuf' = [recvbuf EXCEPT ![p] = [s \in Proc |-> Block(s, p, call[p])]]
  PROVE  Promise!Return(p)
<1>1. /\ call[p] \in Nat /\ DOMAIN call = Proc /\ DOMAIN pc = Proc /\ DOMAIN recvbuf = Proc
      /\ Proc' = Proc
  BY Facts DEF Proc
<1>2. Returns[p] = call[p] - 1
  BY DEF Returns
<1>3. Returns' = [Returns EXCEPT ![p] = call[p]]
  BY <1>1 DEF Returns
<1>4. Results' = [Results EXCEPT ![p] = [s \in Proc |-> Block(s, p, call[p])]]
  BY <1>1 DEF Results
<1>5. /\ Promise!Proc = Proc
      /\ [s \in Promise!Proc |-> Promise!Block(s, p, call[p])]
           = [s \in Proc |-> Block(s, p, call[p])]
  BY <1>1 DEF Promise!Proc, Promise!Block, Block
<1>6. Returns[p] < call[p]
  BY <1>1, <1>2
<1>7. Results' = [Results EXCEPT ![p] = [s \in Promise!Proc |-> Promise!Block(s, p, call[p])]]
  BY <1>4, <1>5
<1>. QED
  BY <1>3, <1>5, <1>6, <1>7 DEF Promise!Return, Returns, Results

LEMMA StepRefines ==
  ASSUME RInv, [Next]_vars
  PROVE  [Promise!Next]_<<call, Returns, Results>>
<1>1. Promise!Proc = Proc
  BY DEF RInv, Counted, Promise!Proc
<1>2. ASSUME UNCHANGED vars PROVE UNCHANGED <<call, Returns, Results>>
  BY <1>2, Stutters DEF vars
<1>3. ASSUME NEW p \in Proc, Step(p)
      PROVE  [Promise!Next]_<<call, Returns, Results>>
  <2>1. CASE Call(p)
    BY <1>1, <2>1, CallRefines DEF Promise!Next
  <2>2. CASE LoopStep(p)
    <3>1. /\ n' = n /\ call' = call /\ recvbuf' = recvbuf /\ pc[p] = "step"
          /\ pc' = [pc EXCEPT ![p] = AfterStep(Exchange(p), step[p])]
      BY <2>2 DEF LoopStep
    <3>2. AfterStep(Exchange(p), step[p]) # "idle"
      <4>1. AfterStep(Exchange(p), step[p]) \in {"step", "waitall", "waitanySend", "waitanyRecv"}
        BY DEF AfterStep
      <4>. QED  BY <4>1
    <3>3. DOMAIN pc = Proc
      BY Facts
    <3>. QED  BY <3>1, <3>2, <3>3, Stutters
  <2>3. ASSUME NEW buf, Store(p, buf), n' = n, call' = call, Exchanging(p), Exchanging(p)',
               \A q \in Proc \ {p} : pc'[q] = pc[q]
        PROVE  UNCHANGED <<call, Returns, Results>>
    <3>1. \A q \in Proc \ {p} : recvbuf'[q] = recvbuf[q]
      BY <2>3, Stores
    <3>2. pc[p] # "idle" /\ pc'[p] # "idle"
      BY <2>3 DEF Exchanging
    <3>. QED  BY <2>3, <3>1, <3>2, Stutters
  <2>4. CASE WaitanySend(p)
    <3>1. PICK k : Waitany(p, k, SendSlot(slot[p], k))
      BY <2>4 DEF WaitanySend
    <3>2. Exchanging(p) /\ Exchanging(p)' /\ \A q \in Proc \ {p} : pc'[q] = pc[q]
      BY <2>4, Facts DEF WaitanySend, Exchanging
    <3>. QED  BY <2>3, <2>4, <3>1, <3>2 DEF WaitanySend, Waitany
  <2>5. CASE WaitanyRecv(p)
    <3>1. PICK k : Waitany(p, k, RecvSlot(slot[p], k))
      BY <2>5 DEF WaitanyRecv
    <3>2. Exchanging(p) /\ Exchanging(p)' /\ \A q \in Proc \ {p} : pc'[q] = pc[q]
      BY <2>5, Facts DEF WaitanyRecv, Exchanging
    <3>. QED  BY <2>3, <2>5, <3>1, <3>2 DEF WaitanyRecv, Waitany
  <2>6. CASE WaitallAndGoOn(p)
    <3>1. Exchanging(p) /\ Exchanging(p)' /\ \A q \in Proc \ {p} : pc'[q] = pc[q]
      BY <2>6, Facts DEF WaitallAndGoOn, Waitall, Exchanging
    <3>. QED  BY <2>3, <2>6, <3>1 DEF WaitallAndGoOn
  <2>7. CASE WaitallAndFinish(p)
    <3>1. /\ Waitall(p) /\ step[p] = n /\ n' = n /\ call' = call /\ Exchanging(p)
      BY <2>7 DEF WaitallAndFinish, Waitall, Exchanging
    <3>2. CASE Len(todo[p]) > 1
      <4>1. /\ Begin(p, Tail(todo[p]))
            /\ Store(p, Received(Target(p), Arrived(p, Awaited(p))))
        BY <2>7, <3>2 DEF WaitallAndFinish
      <4>2. todo[p] = <<"pairwise", "nonblocking">>
        BY <3>1, <3>2, TwoLeft
      <4>3. Head(Tail(todo[p])) = "nonblocking"
        BY <4>2
      <4>4. Exchanging(p)' /\ \A q \in Proc \ {p} : pc'[q] = pc[q]
        BY <4>1, <4>3, Facts DEF Begin, Exchanging
      <4>. QED  BY <2>3, <3>1, <4>1, <4>4
    <3>3. CASE ~ (Len(todo[p]) > 1)
      <4>1. /\ pc' = [pc EXCEPT ![p] = "idle"] /\ pc[p] # "idle"
            /\ recvbuf' = [recvbuf EXCEPT ![p] = Received(Target(p), Arrived(p, Awaited(p)))]
        BY <2>7, <3>1, <3>3 DEF WaitallAndFinish, Exchanging
      <4>2. recvbuf' = [recvbuf EXCEPT ![p] = [s \in Proc |-> Block(s, p, call[p])]]
        BY <3>1, <4>1, LastWaitall
      <4>3. \A q \in Proc : call[q] >= call[p]
        BY <2>7, <3>3, ReturnKeepsAll
      <4>. QED  BY <1>1, <3>1, <4>1, <4>2, <4>3, ReturnRefines DEF Promise!Next
    <3>. QED  BY <3>2, <3>3
  <2>8. CASE PmpiReturn(p)
    <3>1. /\ n' = n /\ call' = call /\ pc[p] # "idle" /\ pc' = [pc EXCEPT ![p] = "idle"]
          /\ \A q \in Proc : call[q] >= call[p]
          /\ recvbuf' = [recvbuf EXCEPT ![p] = [s \in Proc |-> SendBuf(s, call[p])[p]]]
      BY <2>8 DEF PmpiReturn
    <3>2. [s \in Proc |-> SendBuf(s, call[p])[p]] = [s \in Proc |-> Block(s, p, call[p])]
      BY DEF SendBuf
    <3>. QED  BY <1>1, <3>1, <3>2, ReturnRefines DEF Promise!Next
  <2>. QED  BY <1>3, <2>1, <2>2, <2>4, <2>5, <2>6, <2>7, <2>8 DEF Step
<1>. QED  BY <1>2, <1>3 DEF Next, AllReturned

(* KeepsPromise, for any number of ranks, nb_stride, tag space (a single tag is    *)
(* enough) and sequence of calls: whichever method each call uses, whoever        *)
(* returns has the block of every rank at its place, however far ahead the        *)
(* others are, and no message of one call reaches the buffer of another.          *)
THEOREM Refinement == Spec => KeepsPromise
<1>1. Init => Promise!Init
  <2> SUFFICES ASSUME Init PROVE Promise!Init
    OBVIOUS
  <2>1. /\ n \in Sizes /\ call = [p \in 0 .. n - 1 |-> 0] /\ pc = [p \in Proc |-> "idle"]
        /\ recvbuf = [p \in Proc |-> Undefined] /\ DOMAIN call = Proc
    BY DEF Init, Proc
  <2>2. Returns = call /\ Results = [p \in Proc |-> << >>]
    BY <2>1 DEF Returns, Results, Undefined, Proc
  <2>. QED
    BY <2>1, <2>2 DEF Promise!Init, Promise!Proc, Promise!Undefined, Returns, Results
<1>2. RInv /\ [Next]_vars => [Promise!Next]_Promise!vars
  BY StepRefines DEF Promise!vars, Returns, Results
<1>. QED  BY <1>1, <1>2, InvarianceAll, PTL DEF Spec, KeepsPromise, Promise!Spec
=============================================================================
