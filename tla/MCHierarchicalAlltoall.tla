----------------------- MODULE MCHierarchicalAlltoall -----------------------
(* Small instances of HierarchicalAlltoall for TLC: two leaders on a node, with *)
(* more nodes than ranks on each, as many, and fewer, and groups of one rank    *)
(* and of two.                                                               *)
EXTENDS HierarchicalAlltoall

MCShapes == { <<2, 2>>, <<3, 2>>, <<1, 4>>, <<2, 4>> }
MCPrograms ==
  [s \in MCShapes |->
     CASE s = <<2, 2>> -> { <<a, b>> : a \in Algorithms, b \in {"MULTILEADER", "LOCALITY_AWARE"} }
       [] s = <<2, 4>> -> { <<"MULTILEADER">>, <<"LOCALITY_AWARE">>, <<"MULTILEADER_LOCALITY">> }
       [] OTHER -> { <<a>> : a \in Algorithms }]
=============================================================================
