---------------------------- MODULE FlatAlltoall ----------------------------
(***************************************************************************)
(* MPIL_Alltoall and MPIL_Alltoallv by the methods that exchange a message    *)
(* between every two ranks (source/collective/alltoall/, alltoallv/), with or  *)
(* without a copy of the buffers on the CPU (source/heterogeneous/).          *)
(*                                                                          *)
(* In its step i a rank sends to rank + i and receives from rank - i.  The     *)
(* methods differ in when they wait, and so in how the entries of their array  *)
(* of requests are used again: after every step (pairwise), at the end         *)
(* (nonblocking), every nb_stride steps (batch), or, once nb_stride are         *)
(* under way, for one send and one receive whose entries the next step gets     *)
(* (batch_async).                                                            *)
(*                                                                          *)
(* The data is abstract: the block of one rank for another in one call, at     *)
(* the place its displacement gives.  Counts are those of an alltoall, or of   *)
(* an alltoallv whose displacements leave no gaps.                            *)
(***************************************************************************)
EXTENDS Integers, Sequences

CONSTANTS
  Sizes,     \* numbers of ranks
  Stride,    \* nb_stride
  MaxTag,    \* the max_tag field of the MPIL_Comm
  MaxCalls,  \* bound on the number of calls
  Programs   \* Programs[n]: what n ranks may do, sequences of calls
             \* <<function, algorithm>>

ASSUME FlatAssumption ==
  /\ Sizes \subseteq Nat \ {0}
  /\ Stride \in Nat \ {0} /\ MaxTag \in Nat \ {0} /\ MaxCalls \in Nat
  /\ \A k \in Sizes : \A prog \in Programs[k] :
       prog \in Seq({"alltoall", "alltoallv"} \X STRING) /\ Len(prog) <= MaxCalls

VARIABLES
  n,         \* num_procs
  program,   \* the calls the ranks make
  eager,     \* whether the MPI library buffers sends
  call,      \* the number of calls each rank has begun
  pc,        \* where each rank is in its call
  todo,      \* the exchanges its call still has to make, the current one first
  step,      \* the loop variable i
  slot,      \* the entries of requests the next step uses
  requests,  \* the array of requests: per entry an operation, Null or Garbage
  commTag,   \* comm->tag
  tag,       \* the tag of the current exchange
  flight,    \* messages not yet received
  active,    \* operations started and not yet waited for
  recvbuf,   \* the user's receive buffer, by source
  cpu        \* cpu_sendbuf and cpu_recvbuf

vars == <<n, program, eager, call, pc, todo, step, slot, requests, commTag, tag,
          flight, active, recvbuf, cpu>>
-----------------------------------------------------------------------------
Proc == 0 .. n - 1
Undefined == << >>
Block(s, d, c) == [src |-> s, dst |-> d, call |-> c]

(* What the user passes to call c.                                           *)
SendBuf(p, c) == [d \in Proc |-> Block(p, d, c)]

(* alltoallv_nonblocking and the two that turn to it on few ranks.           *)
AlltoallvNonblocking == IF n <= 1 THEN <<"pairwise", "nonblocking">> ELSE <<"nonblocking">>
AlltoallvBatch == IF Stride >= n THEN AlltoallvNonblocking ELSE <<"batch">>
AlltoallvBatchAsync == IF Stride >= n THEN AlltoallvNonblocking ELSE <<"batch_async">>

Method(copies, exchanges) == [copies |-> copies, exchanges |-> exchanges]
Pmpi == Method(FALSE, <<"pmpi">>)

(* The methods for GPU buffers: gpu_aware ones pass on the buffers they get,    *)
(* copy_to_cpu ones exchange copies of them.                                  *)
GpuAwareAlltoall(exchanges) == Method(FALSE, exchanges)
CopyToCpuAlltoall(exchanges) == Method(TRUE, exchanges)
GpuAwareAlltoallv(exchanges) == Method(FALSE, exchanges)
CopyToCpuAlltoallv(exchanges) == Method(TRUE, exchanges)

(* The switches of MPIL_Alltoall, of whose methods HierarchicalAlltoall has the  *)
(* others, and of MPIL_Alltoallv.                                             *)
Alltoall(algorithm) ==
  CASE algorithm = "PAIRWISE"        -> Method(FALSE, <<"pairwise">>)
    [] algorithm = "NONBLOCKING"     -> Method(FALSE, <<"nonblocking">>)
    [] algorithm = "GPU_PAIRWISE"    -> GpuAwareAlltoall(<<"pairwise">>)
    [] algorithm = "GPU_NONBLOCKING" -> GpuAwareAlltoall(<<"nonblocking">>)
    [] algorithm = "CTC_PAIRWISE"    -> CopyToCpuAlltoall(<<"pairwise">>)
    [] algorithm = "CTC_NONBLOCKING" -> CopyToCpuAlltoall(<<"nonblocking">>)
    [] OTHER -> Pmpi
Alltoallv(algorithm) ==
  CASE algorithm = "PAIRWISE"        -> Method(FALSE, <<"pairwise">>)
    [] algorithm = "NONBLOCKING"     -> Method(FALSE, AlltoallvNonblocking)
    [] algorithm = "GPU_PAIRWISE"    -> GpuAwareAlltoallv(<<"pairwise">>)
    [] algorithm = "GPU_NONBLOCKING" -> GpuAwareAlltoallv(AlltoallvNonblocking)
    [] algorithm = "CTC_PAIRWISE"    -> CopyToCpuAlltoallv(<<"pairwise">>)
    [] algorithm = "CTC_NONBLOCKING" -> CopyToCpuAlltoallv(AlltoallvNonblocking)
    [] algorithm = "BATCH"           -> Method(FALSE, AlltoallvBatch)
    [] algorithm = "BATCH_ASYNC"     -> Method(FALSE, AlltoallvBatchAsync)
    [] OTHER -> Pmpi

(* The c-th call.                                                            *)
MethodOf(c) ==
  IF program[c][1] = "alltoall" THEN Alltoall(program[c][2]) ELSE Alltoallv(program[c][2])
Exchange(p) == Head(todo[p])
-----------------------------------------------------------------------------
Null == [kind |-> "MPI_REQUEST_NULL"]
Garbage == [kind |-> "uninitialized"]

(* The array of requests an exchange allocates; MPI_Sendrecv has two of its own. *)
NumRequests(exchange) ==
  CASE exchange = "pairwise" -> 2
    [] exchange = "nonblocking" -> 2 * n
    [] exchange \in {"batch", "batch_async"} -> 2 * Stride
    [] OTHER -> 0
Allocated(exchange) == [k \in 0 .. NumRequests(exchange) - 1 |-> Garbage]

(* The entries of the first step, and those of the one after a step that used s. *)
FirstSlots(exchange) ==
  [send |-> 0, recv |-> CASE exchange = "nonblocking" -> n
                          [] exchange = "batch_async" -> Stride
                          [] OTHER -> 1]
NextSlots(exchange, s) ==
  LET by == CASE exchange = "pairwise" -> 0 [] exchange = "batch" -> 2 [] OTHER -> 1
  IN  [send |-> s.send + by, recv |-> s.recv + by]

SendProc(p, i) == IF p + i >= n THEN p + i - n ELSE p + i
RecvProc(p, i) == IF p - i < 0 THEN p - i + n ELSE p - i

(* Where the loop goes from step i.                                          *)
AfterStep(exchange, i) ==
  CASE exchange = "pairwise" -> "waitall"
    [] exchange = "batch" /\ (i + 1) % Stride = 0 -> "waitall"
    [] exchange = "batch_async" /\ i + 1 >= Stride -> "waitanySend"
    [] OTHER -> IF i + 1 = n THEN "waitall" ELSE "step"

(* The entries a Waitall is given.                                           *)
AwaitedButLast(p) ==
  IF Exchange(p) = "batch" /\ step[p] % Stride # 0
  THEN 0 .. slot[p].send - 2
  ELSE DOMAIN requests[p]
Awaited(p) ==
  IF Exchange(p) = "batch" /\ step[p] % Stride # 0
  THEN 0 .. slot[p].send - 1
  ELSE DOMAIN requests[p]

Operation(kind, p, peer) == [kind |-> kind, peer |-> peer, tag |-> tag[p], call |-> call[p]]

(* The message the receive op of p takes: the library gives messages of one     *)
(* source and tag to the receives for them in order.                           *)
Taken(p, op) ==
  { m \in flight :
      /\ op.kind = "recv" /\ m.dst = p /\ m.src = op.peer /\ m.tag = op.tag
      /\ \A o \in flight : o.dst = p /\ o.src = m.src /\ o.tag = m.tag => o.call >= m.call
      /\ \A o \in active[p] : o.kind = "recv" /\ o.peer = op.peer /\ o.tag = op.tag
                             => o.call >= op.call }

(* A send completes when it is buffered, or when there is a receive for it.     *)
Completed(p, op) ==
  IF op.kind = "recv" THEN Taken(p, op) # {}
  ELSE \/ eager
       \/ \A m \in flight : m.src = p /\ m.dst = op.peer /\ m.tag = op.tag /\ m.call = op.call
                           => \E o \in active[op.peer] : m \in Taken(op.peer, o)

(* What p may rely on is what it has waited for: a wait that frees the entries  *)
(* K is where their messages arrive in the receive buffer of its call.          *)
Arrived(p, K) == UNION { Taken(p, op) : op \in { requests[p][k] : k \in K } }
Received(buf, M) ==
  [s \in DOMAIN buf |-> IF \E m \in M : m.src = s
                        THEN (CHOOSE m \in M : m.src = s).body ELSE buf[s]]
Target(p) == IF cpu[p] = << >> THEN recvbuf[p] ELSE cpu[p].recv
Wait(p, K) ==
  /\ active' = [active EXCEPT ![p] = @ \ { requests[p][k] : k \in K }]
  /\ flight' = flight \ Arrived(p, K)
Store(p, buf) ==
  IF cpu[p] = << >>
  THEN recvbuf' = [recvbuf EXCEPT ![p] = buf] /\ UNCHANGED cpu
  ELSE cpu' = [cpu EXCEPT ![p].recv = buf] /\ UNCHANGED recvbuf

NextTag(t) == (t + 1) % MaxTag
-----------------------------------------------------------------------------
Init ==
  /\ n \in Sizes
  /\ program \in Programs[n]
  /\ eager \in BOOLEAN
  /\ call = [p \in Proc |-> 0]
  /\ pc = [p \in Proc |-> "idle"]
  /\ todo = [p \in Proc |-> << >>]
  /\ step = [p \in Proc |-> 0]
  /\ slot = [p \in Proc |-> FirstSlots("pairwise")]
  /\ requests = [p \in Proc |-> << >>]
  /\ commTag = [p \in Proc |-> 126 % MaxTag]
  /\ tag = [p \in Proc |-> 0]
  /\ flight = {}
  /\ active = [p \in Proc |-> {}]
  /\ recvbuf = [p \in Proc |-> Undefined]
  /\ cpu = [p \in Proc |-> << >>]

(* The head of an exchange: its tag, its requests, i = 0.                     *)
Begin(p, exchanges) ==
  LET exchange == Head(exchanges) IN
  /\ todo' = [todo EXCEPT ![p] = exchanges]
  /\ pc' = [pc EXCEPT ![p] = IF exchange = "pmpi" THEN "pmpi" ELSE "step"]
  /\ step' = [step EXCEPT ![p] = 0]
  /\ slot' = [slot EXCEPT ![p] = FirstSlots(exchange)]
  /\ requests' = [requests EXCEPT ![p] = Allocated(exchange)]
  /\ IF exchange = "pmpi"
     THEN UNCHANGED <<commTag, tag>>
     ELSE tag' = [tag EXCEPT ![p] = commTag[p]] /\ commTag' = [commTag EXCEPT ![p] = NextTag(@)]

(* copy_to_cpu_alltoall(v): the buffers a call works on.                      *)
CopyToCpu(p, c) ==
  IF MethodOf(c).copies THEN [send |-> SendBuf(p, c), recv |-> [s \in Proc |-> Undefined]] ELSE << >>

Call(p) ==
  /\ pc[p] = "idle" /\ call[p] < Len(program)
  /\ call' = [call EXCEPT ![p] = @ + 1]
  /\ Begin(p, MethodOf(call[p] + 1).exchanges)
  /\ cpu' = [cpu EXCEPT ![p] = CopyToCpu(p, call[p] + 1)]
  /\ recvbuf' = [recvbuf EXCEPT ![p] = [s \in Proc |-> Undefined]]
  /\ UNCHANGED <<n, program, eager, flight, active>>

(* One step of the loop: an MPI_Isend and an MPI_Irecv, or the two of an      *)
(* MPI_Sendrecv.                                                             *)
LoopStep(p) ==
  /\ pc[p] = "step"
  /\ LET i == step[p]
         data == IF cpu[p] = << >> THEN SendBuf(p, call[p]) ELSE cpu[p].send
         send == Operation("send", p, SendProc(p, i))
         recv == Operation("recv", p, RecvProc(p, i))
     IN  /\ requests' = [requests EXCEPT ![p][slot[p].send] = send, ![p][slot[p].recv] = recv]
         /\ active' = [active EXCEPT ![p] = @ \cup {send, recv}]
         /\ flight' = flight \cup { [src |-> p, dst |-> send.peer, tag |-> tag[p],
                                     call |-> call[p], body |-> data[send.peer]] }
         /\ pc' = [pc EXCEPT ![p] = AfterStep(Exchange(p), i)]
         /\ step' = [step EXCEPT ![p] = i + 1]
         /\ slot' = [slot EXCEPT ![p] = NextSlots(Exchange(p), @)]
  /\ UNCHANGED <<n, program, eager, call, todo, commTag, tag, recvbuf, cpu>>

(* MPI_Waitany over the entries K frees one of them, k, and gives it as the next *)
(* entry to use.                                                             *)
Waitany(p, k, next) ==
  /\ requests[p][k].kind \in {"send", "recv"} /\ Completed(p, requests[p][k])
  /\ Wait(p, {k})
  /\ Store(p, Received(Target(p), Arrived(p, {k})))
  /\ requests' = [requests EXCEPT ![p][k] = Null]
  /\ slot' = [slot EXCEPT ![p] = next]

SendSlot(s, k) == [s EXCEPT !.send = k]
RecvSlotOfSend(s, k) == [s EXCEPT !.recv = Stride + s.send]
RecvSlot(s, k) == [s EXCEPT !.recv = k]

WaitanySend(p) ==
  /\ pc[p] = "waitanySend"
  /\ \E k \in 0 .. Stride - 1 : Waitany(p, k, SendSlot(slot[p], k))
  /\ pc' = [pc EXCEPT ![p] = "waitanyRecv"]
  /\ UNCHANGED <<n, program, eager, call, todo, step, commTag, tag>>

WaitanyRecv(p) ==
  /\ pc[p] = "waitanyRecv"
  /\ \E k \in Stride .. 2 * Stride - 1 : Waitany(p, k, RecvSlot(slot[p], k))
  /\ pc' = [pc EXCEPT ![p] = IF step[p] < n THEN "step" ELSE "waitall"]
  /\ UNCHANGED <<n, program, eager, call, todo, step, commTag, tag>>

Waitall(p) ==
  /\ pc[p] = "waitall"
  /\ \A k \in Awaited(p) :
       requests[p][k].kind \in {"send", "recv"} => Completed(p, requests[p][k])
  /\ Wait(p, Awaited(p))

(* A Waitall inside the loop.                                                *)
WaitallAndGoOn(p) ==
  /\ Waitall(p) /\ step[p] < n
  /\ Store(p, Received(Target(p), Arrived(p, Awaited(p))))
  /\ requests' = [requests EXCEPT ![p] =
                    [k \in DOMAIN @ |-> IF k \in Awaited(p) THEN Null ELSE @[k]]]
  /\ slot' = [slot EXCEPT ![p] = FirstSlots(Exchange(p))]
  /\ pc' = [pc EXCEPT ![p] = "step"]
  /\ UNCHANGED <<n, program, eager, call, todo, step, commTag, tag>>

(* The Waitall after the last step and the end of the exchange, which frees    *)
(* requests: the call makes its other exchange, or returns, after a copy of     *)
(* cpu_recvbuf to the user's buffer.                                          *)
WaitallAndFinish(p) ==
  /\ Waitall(p) /\ step[p] = n
  /\ LET buf == Received(Target(p), Arrived(p, Awaited(p))) IN
     IF Len(todo[p]) > 1
     THEN Begin(p, Tail(todo[p])) /\ Store(p, buf)
     ELSE /\ pc' = [pc EXCEPT ![p] = "idle"]
          /\ todo' = [todo EXCEPT ![p] = << >>]
          /\ requests' = [requests EXCEPT ![p] = << >>]
          /\ recvbuf' = [recvbuf EXCEPT ![p] = buf]
          /\ cpu' = [cpu EXCEPT ![p] = << >>]
          /\ UNCHANGED <<step, slot, commTag, tag>>
  /\ UNCHANGED <<n, program, eager, call>>

(* PMPI_Alltoall(v) of the MPI library.                                      *)
PmpiReturn(p) ==
  /\ pc[p] = "pmpi" /\ \A q \in Proc : call[q] >= call[p]
  /\ recvbuf' = [recvbuf EXCEPT ![p] = [s \in Proc |-> SendBuf(s, call[p])[p]]]
  /\ pc' = [pc EXCEPT ![p] = "idle"]
  /\ todo' = [todo EXCEPT ![p] = << >>]
  /\ UNCHANGED <<n, program, eager, call, step, slot, requests, commTag, tag,
                 flight, active, cpu>>

Step(p) ==
  \/ Call(p) \/ LoopStep(p) \/ WaitanySend(p) \/ WaitanyRecv(p)
  \/ WaitallAndGoOn(p) \/ WaitallAndFinish(p) \/ PmpiReturn(p)

Returned(p) == pc[p] = "idle" /\ call[p] = Len(program)
AllReturned == (\A p \in Proc : Returned(p)) /\ UNCHANGED vars

Next == AllReturned \/ \E p \in Proc : Step(p)
Spec == Init /\ [][Next]_vars
(* As long as a rank can take a step, some rank does.                          *)
FairSpec == Spec /\ WF_vars(\E p \in Proc : Step(p))
-----------------------------------------------------------------------------
(* No request is lost: every operation under way is in exactly one entry of     *)
(* the array of its rank, so that an entry is used again only after a wait      *)
(* has freed it, and no call returns or frees its array while one of its       *)
(* operations can still read or write a buffer.  And a Waitall is given no      *)
(* entry that was never set.                                                 *)
RequestsTracked ==
  \A p \in Proc :
    /\ \A op \in active[p] :
         \E k \in DOMAIN requests[p] :
           requests[p][k] = op /\ \A j \in DOMAIN requests[p] \ {k} : requests[p][j] # op
    /\ pc[p] = "waitall" => \A k \in Awaited(p) : requests[p][k] # Garbage

Promise == INSTANCE AlltoallPromise WITH
  started <- call,
  returned <- [p \in Proc |-> IF pc[p] = "idle" THEN call[p] ELSE call[p] - 1],
  result <- [p \in Proc |-> IF pc[p] = "idle" THEN recvbuf[p] ELSE Undefined]

(* Each method implements the promise: whoever returns has the blocks of its    *)
(* own call at the places of their sources, and nothing writes to the buffer    *)
(* of a rank between its calls, however far ahead the others are.               *)
KeepsPromise == Promise!Spec

(* Every call returns, also if a send completes only when it is received.       *)
CallsReturn == <>(\A p \in Proc : Returned(p))
=============================================================================
