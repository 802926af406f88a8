-------------------------- MODULE MCSparseExchange --------------------------
(* Small instances of SparseExchange for TLC. *)
EXTENDS SparseExchange, TLC

CONSTANTS p1, p2, p3

Const(S, v) == [x \in S |-> v]

(* Three ranks, two calls: one element to the next two ranks, or two        *)
(* elements to p1 and an empty message to p2 (the sender itself included).   *)
PatternsThree == { p1 :> 1 @@ p3 :> 1, p1 :> 2 @@ p2 :> 0 }
SeqsThree ==
  { <<"nonblocking", "alltoallv_personalized">>,
    <<"alltoallv_personalized", "nonblocking">>,
    <<"alltoall_personalized", "alltoallv_personalized">>,
    <<"nonblocking", "nonblocking">> }
MaxTagLarge == Const(Proc, 32767)

(* Two ranks, three calls: the tag counter wraps (tags 0, 1, 0). *)
PatternsPair == { << >>, p1 :> 1 @@ p2 :> 2 }
SeqsPair ==
  { <<"nonblocking", "nonblocking", "alltoallv_personalized">>,
    <<"alltoallv_personalized", "nonblocking", "alltoall_personalized">>,
    <<"alltoall_personalized", "alltoallv_personalized", "nonblocking">> }
MaxTagTwo == Const(Proc, 2)
=============================================================================
