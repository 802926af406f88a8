--------------------------- MODULE MCFlatAlltoall ---------------------------
(* A small instance of FlatAlltoall for TLC.  With nb_stride = 2, three ranks   *)
(* are more than a batch and no multiple of one, four are two batches; one and  *)
(* two ranks fall back to the nonblocking exchange.                           *)
EXTENDS FlatAlltoall

MCPrograms ==
  << { << <<"alltoallv", "NONBLOCKING">>, <<"alltoallv", "CTC_NONBLOCKING">> >>,
       << <<"alltoallv", "BATCH">>, <<"alltoall", "NONBLOCKING">> >> },
     { << <<"alltoallv", "BATCH_ASYNC">>, <<"alltoall", "GPU_PAIRWISE">> >> },
     { << <<"alltoallv", "BATCH_ASYNC">>, <<"alltoallv", "PAIRWISE">> >>,
       << <<"alltoallv", "BATCH">>, <<"alltoall", "CTC_PAIRWISE">> >>,
       << <<"alltoallv", "CTC_NONBLOCKING">>, <<"alltoallv", "PAIRWISE">> >>,
       << <<"alltoall", "NONBLOCKING">>, <<"alltoallv", "PMPI">> >> },
     { << <<"alltoallv", "BATCH">>, <<"alltoall", "PAIRWISE">> >>,
       << <<"alltoallv", "NONBLOCKING">>, <<"alltoallv", "BATCH">> >> } >>
=============================================================================
