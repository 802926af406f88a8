--------------------------- MODULE MCSparseMethods ---------------------------
(* A small instance of SparseMethods for TLC: two nodes of two ranks. *)
EXTENDS SparseMethods, TLC

(* Sequences of calls in which ranks can run ahead into another phase or    *)
(* another method.                                                          *)
MCMethodSeqs ==
  { <<"alltoall_personalized_loc", "alltoall_nonblocking_loc">>,
    <<"alltoallv_nonblocking_loc", "alltoallv_personalized_loc">>,
    <<"alltoallv_personalized_loc", "alltoallv_nonblocking_loc">>,
    <<"alltoall_nonblocking_loc", "rma">>,
    <<"rma", "rma">> }

(* Everyone sends to the rank after it, across the nodes in one half of the *)
(* cases; rank 0 also to its whole node, once an empty message.             *)
Ring == [p \in Proc |->
  IF p = 0 THEN [d \in {0, 1, 3} |-> IF d = 1 THEN 0 ELSE 1] ELSE (p + 1) % 4 :> 2]
(* Ranks 0 and 1 send to the same rank of the other node, 3 sends nothing.  *)
Funnel == [p \in Proc |->
  IF p = 3 THEN << >> ELSE IF p = 2 THEN 1 :> 1 @@ 0 :> 0 ELSE 2 :> 1 @@ 3 :> p]
MCLoads == { [p \in Proc |-> << Ring[p], Funnel[p] >>],
             [p \in Proc |-> << Funnel[p], Funnel[p] >>] }

(* Few messages are buffered: neither the ones that are never waited for    *)
(* nor most of the ones that are.                                           *)
MCEager == { <<"alltoallv_nonblocking_loc", "local">> }
=============================================================================
