------------------------- MODULE NeighborPersistent -------------------------
(***************************************************************************)
(* Persistent neighbor alltoallv: MPIL_Start and MPIL_Wait on the requests   *)
(* made by neighbor_alltoallv_init_standard and                              *)
(* neighbor_alltoallv_init_locality (neighbor_start.c, neighbor_wait.c).      *)
(*                                                                          *)
(* A locality-aware request moves data within a node in one local step, L,    *)
(* and between nodes in three: S to the local rank in charge of the other    *)
(* node, G (global_comm) to its counterpart there, R to the destination.      *)
(* Start launches L, launches S and waits for it, and launches G; Wait waits  *)
(* for G, launches R and waits for it, and waits for L.  A standard request   *)
(* has only G, straight from the user's buffer into the user's buffer.        *)
(*                                                                          *)
(* Every request has its own tags, so a message is identified by its request, *)
(* step and ends, and messages of one such edge stay in order.  The data of a *)
(* pair of ranks is the number of the Start it was packed by.                 *)
(***************************************************************************)
EXTENDS Naturals, Sequences

CONSTANTS
  Proc,      \* the ranks
  Req,       \* the requests
  Kind,      \* Kind[q]: "locality" or "standard"
  Items,     \* Items[q]: the pairs <<source, destination>> of request q
  Node,      \* Node[p]: the node of rank p
  Via,       \* Via[q][n, m]: the ranks [send, recv] in charge, on nodes n and m,
             \* of what request q sends from n to m
  Programs   \* what the ranks may do: functions from ranks to sequences of
             \* <<"start", q>> and <<"wait", q>>

ASSUME NeighborAssumption ==
  /\ Kind \in [Req -> {"locality", "standard"}]
  /\ \A q \in Req : Items[q] \subseteq Proc \X Proc
  /\ \A q \in Req : \A i \in Items[q] :
       Kind[q] = "locality" /\ Node[i[1]] # Node[i[2]] =>
         LET v == Via[q][Node[i[1]], Node[i[2]]]
         IN  /\ v.send \in Proc /\ Node[v.send] = Node[i[1]]
             /\ v.recv \in Proc /\ Node[v.recv] = Node[i[2]]
  /\ \A prog \in Programs, p \in Proc :
       prog[p] \in Seq({"start", "wait"} \X Req)

(* As MPI demands, a rank starts and waits for each request in turn.            *)
ASSUME ProgramAssumption ==
  \A prog \in Programs, p \in Proc : \A k \in DOMAIN prog[p] :
    /\ (\A j \in 1 .. k - 1 : prog[p][j][2] # prog[p][k][2]) => prog[p][k][1] = "start"
    /\ \A j \in 1 .. k - 1 :
         /\ prog[p][j][2] = prog[p][k][2]
         /\ \A l \in j + 1 .. k - 1 : prog[p][l][2] # prog[p][k][2]
         => prog[p][j][1] # prog[p][k][1]

Steps == {"L", "S", "G", "R"}

(* The step a pair's data takes is from which rank to which, if it takes it. *)
Hop(q, i, step) ==
  LET v == Via[q][Node[i[1]], Node[i[2]]]
  IN  CASE Kind[q] = "standard" -> IF step = "G" THEN i ELSE << >>
        [] Kind[q] = "locality" /\ Node[i[1]] = Node[i[2]] -> IF step = "L" THEN i ELSE << >>
        [] OTHER -> CASE step = "S" -> <<i[1], v.send>>
                      [] step = "G" -> <<v.send, v.recv>>
                      [] step = "R" -> <<v.recv, i[2]>>
                      [] OTHER -> << >>

Edge(q, i, step) ==
  [req |-> q, step |-> step, src |-> Hop(q, i, step)[1], dst |-> Hop(q, i, step)[2]]

Edges ==
  { e \in [req : Req, step : Steps, src : Proc, dst : Proc] :
      \E i \in Items[e.req] : Hop(e.req, i, e.step) = <<e.src, e.dst>> }

(* The pairs whose data an edge carries. *)
Load == [e \in Edges |-> { i \in Items[e.req] : Hop(e.req, i, e.step) = <<e.src, e.dst>> }]

(* The edges of request q that rank p has requests for. *)
Mine(p, q, S) == { e \in Edges : e.req = q /\ e.step \in S /\ p \in {e.src, e.dst} }

VARIABLES
  program,    \* what each rank does
  eager,      \* whether the MPI library buffers sends
  pos,        \* the call each rank is in or about to make
  pc,         \* where it waits in it
  started,    \* started[p][q]: Starts of q by p
  done,       \* done[p][q]: Waits of q by p that have returned
  sendbuf,    \* the send buffer of each edge
  recvbuf,    \* the receive buffer of each edge
  channel,    \* the sends of each edge not yet received
  sending,    \* edges whose send is active
  receiving,  \* edges whose receive is active
  out         \* out[q][i]: what the destination of i has in its user buffer

vars == <<program, eager, pos, pc, started, done,
          sendbuf, recvbuf, channel, sending, receiving, out>>

Constantly(e, k) == [i \in Load[e] |-> k]

Init ==
  /\ program \in Programs
  /\ eager \in BOOLEAN
  /\ pos = [p \in Proc |-> 1]
  /\ pc = [p \in Proc |-> "call"]
  /\ started = [p \in Proc |-> [q \in Req |-> 0]]
  /\ done = [p \in Proc |-> [q \in Req |-> 0]]
  /\ sendbuf = [e \in Edges |-> Constantly(e, 0)]
  /\ recvbuf = [e \in Edges |-> Constantly(e, 0)]
  /\ channel = [e \in Edges |-> << >>]
  /\ sending = {}
  /\ receiving = {}
  /\ out = [q \in Req |-> [i \in Items[q] |-> 0]]

Running(p) == pos[p] <= Len(program[p])
Call(p) == program[p][pos[p]]
About(p, op) == Running(p) /\ pc[p] = "call" /\ Call(p)[1] = op

(* MPI_Startall by p on the edges E, whose send buffers hold data. *)
Startall(p, E, data) ==
  LET sends == { e \in E : e.src = p }
  IN  /\ sendbuf' = [e \in Edges |-> IF e \in sends THEN data[e] ELSE sendbuf[e]]
      /\ channel' = [e \in Edges |->
                       IF e \in sends THEN Append(channel[e], data[e]) ELSE channel[e]]
      /\ sending' = IF eager THEN sending ELSE sending \cup sends
      /\ receiving' = receiving \cup { e \in E : e.dst = p }

(* MPI_Waitall by p on the edges E has nothing to wait for. *)
Complete(p, E) ==
  \A e \in E : ~ (e.src = p /\ e \in sending) /\ ~ (e.dst = p /\ e \in receiving)

(* What p received for the pair i in a step. *)
Received(q, i, step) == recvbuf[Edge(q, i, step)][i]

(* What the edges E forward of what the previous step brought. *)
ForwardUnpacked(E, step) == [e \in E |-> sendbuf[e]]
ForwardFirst(E, step) ==
  [e \in E |-> recvbuf[CHOOSE f \in Edges : f.req = e.req /\ f.step = step /\ f.dst = e.src]]
Forward(E, step) ==
  [e \in E |-> [i \in Load[e] |-> Received(e.req, i, step)]]

Return(p) == pos' = [pos EXCEPT ![p] = @ + 1] /\ pc' = [pc EXCEPT ![p] = "call"]

(* neighbor_start up to the Waitall for S, or to its end if p has no S: the   *)
(* user has filled its buffer, L and S are packed from it.                    *)
Start(p) ==
  /\ About(p, "start")
  /\ LET q == Call(p)[2]
         S == Mine(p, q, {"S"})
         E == Mine(p, q, IF S = {} THEN {"L", "G"} ELSE {"L", "S"})
     IN  /\ started' = [started EXCEPT ![p][q] = @ + 1]
         /\ Startall(p, E, [e \in E |-> Constantly(e, started[p][q] + 1)])
         /\ IF S = {} THEN Return(p) ELSE pc' = [pc EXCEPT ![p] = "S"] /\ UNCHANGED pos
  /\ UNCHANGED <<program, eager, done, recvbuf, out>>

(* S has completed: copy what arrived into the global buffer, start G. *)
StartGlobal(p) ==
  /\ pc[p] = "S"
  /\ LET q == Call(p)[2]
         E == Mine(p, q, {"G"})
     IN  /\ Complete(p, Mine(p, q, {"S"}))
         /\ Startall(p, E, Forward({ e \in E : e.src = p }, "S"))
  /\ Return(p)
  /\ UNCHANGED <<program, eager, started, done, recvbuf, out>>

(* neighbor_wait: G has completed, R is packed from it and started. *)
WaitGlobalIfAny(p) ==
  /\ About(p, "wait")
  /\ LET q == Call(p)[2]
         E == IF Mine(p, q, {"G"}) = {} THEN {} ELSE Mine(p, q, {"R"})
     IN  /\ Complete(p, Mine(p, q, {"G"}))
         /\ Startall(p, E, Forward({ e \in E : e.src = p }, "G"))
  /\ pc' = [pc EXCEPT ![p] = "R"]
  /\ UNCHANGED <<program, eager, pos, started, done, recvbuf, out>>
WaitGlobal(p) ==
  /\ About(p, "wait")
  /\ LET q == Call(p)[2]
         E == Mine(p, q, {"R"})
     IN  /\ Complete(p, Mine(p, q, {"G"}))
         /\ Startall(p, E, Forward({ e \in E : e.src = p }, "G"))
  /\ pc' = [pc EXCEPT ![p] = "R"]
  /\ UNCHANGED <<program, eager, pos, started, done, recvbuf, out>>

(* What p's user buffer for request q holds once a step is unpacked into it. *)
Unpack(p, q, step) ==
  out' = [out EXCEPT ![q] =
            [i \in Items[q] |->
               IF i[2] = p /\ Hop(q, i, step) # << >> THEN Received(q, i, step) ELSE @[i]]]

WaitLocalR(p) ==
  /\ pc[p] = "R"
  /\ Complete(p, Mine(p, Call(p)[2], {"R"}))
  /\ Unpack(p, Call(p)[2], "R")
  /\ pc' = [pc EXCEPT ![p] = "L"]
  /\ UNCHANGED <<program, eager, pos, started, done, sendbuf, recvbuf, channel,
                 sending, receiving>>

WaitLocalLNever(p) ==
  /\ pc[p] = "L"
  /\ Unpack(p, Call(p)[2], "L")
  /\ done' = [done EXCEPT ![p][Call(p)[2]] = @ + 1]
  /\ Return(p)
  /\ UNCHANGED <<program, eager, started, sendbuf, recvbuf, channel, sending, receiving>>
WaitLocalL(p) ==
  /\ pc[p] = "L"
  /\ Complete(p, Mine(p, Call(p)[2], {"L"}))
  /\ Unpack(p, Call(p)[2], "L")
  /\ done' = [done EXCEPT ![p][Call(p)[2]] = @ + 1]
  /\ Return(p)
  /\ UNCHANGED <<program, eager, started, sendbuf, recvbuf, channel, sending, receiving>>

(* An active receive meets the oldest send of its edge.  Unless the send was *)
(* buffered the data is read from the send buffer now.  The receive buffer of *)
(* a standard request is the user's.                                         *)
Deliver(e) ==
  /\ e \in receiving
  /\ channel[e] # << >>
  /\ LET data == IF eager THEN Head(channel[e]) ELSE sendbuf[e]
     IN  /\ recvbuf' = [recvbuf EXCEPT ![e] = data]
         /\ out' = IF Kind[e.req] = "standard"
                   THEN [out EXCEPT ![e.req] =
                           [i \in Items[e.req] |-> IF i \in Load[e] THEN data[i] ELSE @[i]]]
                   ELSE out
  /\ channel' = [channel EXCEPT ![e] = Tail(@)]
  /\ receiving' = receiving \ {e}
  /\ sending' = sending \ {e}
  /\ UNCHANGED <<program, eager, pos, pc, started, done, sendbuf>>

Finished == (\A p \in Proc : ~ Running(p)) /\ UNCHANGED vars

RankStep(p) ==
  Start(p) \/ StartGlobal(p) \/ WaitGlobal(p) \/ WaitLocalR(p) \/ WaitLocalL(p)

Step == (\E p \in Proc : RankStep(p)) \/ (\E e \in Edges : Deliver(e))

Next == Step \/ Finished

Spec == Init /\ [][Next]_vars

(* Something goes on while anything can.  No call polls, so this weakest       *)
(* fairness is enough: every step brings some call nearer to its end.         *)
FairSpec == Spec /\ WF_vars(Step)
-----------------------------------------------------------------------------
(* Types, and the requests: a rank has at most one exchange of a request      *)
(* open.                                                                      *)
TypeOK ==
  /\ program \in Programs /\ eager \in BOOLEAN
  /\ pos \in [Proc -> Nat]
  /\ pc \in [Proc -> {"call", "S", "R", "L"}]
  /\ \A p \in Proc, q \in Req : started[p][q] - done[p][q] \in 0 .. 1
  /\ sending \subseteq Edges /\ receiving \subseteq Edges
  /\ \A e \in Edges : DOMAIN sendbuf[e] = Load[e] /\ DOMAIN recvbuf[e] = Load[e]

(* A Wait that returned leaves in the user's buffer the data of this very     *)
(* exchange from every neighbor, not of the previous or the next one, though  *)
(* four sets of buffers are reused and neighbors run ahead.                   *)
OwnIteration ==
  \A p \in Proc, q \in Req :
    started[p][q] = done[p][q] =>
      \A i \in Items[q] : i[2] = p => out[q][i] = done[p][q]

(* A rank never restarts a send or a receive that is still active, nor packs  *)
(* the buffer of an active send: both are erroneous in MPI.                   *)
IdleWhenRestarted ==
  \A p \in Proc :
    LET mine(S) == Mine(p, Call(p)[2], S)
    IN  /\ About(p, "start") => Complete(p, mine(Steps))
        /\ Running(p) /\ pc[p] = "S" => Complete(p, mine({"G", "R"}))
        /\ About(p, "wait") => Complete(p, mine({"S", "R"}))

(* Every rank comes to the end of its program. *)
CallsReturn == <>(\A p \in Proc : ~ Running(p))

(* The exchange implements its promise; between a Start and the return of the *)
(* Wait the user's buffer belongs to the library.                             *)
Promise == INSTANCE NeighborPromise WITH
  out <- [q \in Req |-> [i \in Items[q] |->
            IF started[i[2]][q] = done[i[2]][q] THEN out[q][i] ELSE done[i[2]][q]]]
KeepsPromise == Promise!Spec
=============================================================================
