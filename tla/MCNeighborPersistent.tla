------------------------ MODULE MCNeighborPersistent ------------------------
(* Small instances of NeighborPersistent: two nodes of two ranks. *)
EXTENDS NeighborPersistent

NodeOf == << 1, 1, 2, 2 >>

(* Request a goes both ways between ranks 1 and 4 through ranks 2 and 3, with  *)
(* data of rank 2 travelling along, and from 3 to 4 within their node; b goes  *)
(* between 2 and 3 through 1 and 4; c is a standard request.                  *)
ItemsOf ==
  [a |-> { <<1, 4>>, <<2, 4>>, <<4, 1>>, <<3, 4>> },
   b |-> { <<2, 3>>, <<3, 2>> },
   c |-> { <<1, 4>>, <<4, 1>> }]
KindOf == [a |-> "locality", b |-> "locality", c |-> "standard"]

Through(r1, r2) ==
  [n, m \in {1, 2} |->
     IF n = m THEN [send |-> 1, recv |-> 1]
     ELSE [send |-> IF n = 1 THEN r1 ELSE r2, recv |-> IF m = 1 THEN r1 ELSE r2]]
ViaOf == [a |-> Through(2, 3), b |-> Through(1, 4), c |-> Through(1, 3)]

Everyone(s) == [p \in Proc |-> s]

(* All ranks make the same calls. *)
Alike ==
  { Everyone(<< <<"start", "a">>, <<"wait", "a">>, <<"start", "a">>, <<"wait", "a">> >>),
    Everyone(<< <<"start", "a">>, <<"start", "b">>, <<"wait", "b">>, <<"wait", "a">> >>),
    Everyone(<< <<"start", "c">>, <<"wait", "c">>, <<"start", "c">>, <<"wait", "c">>,
                <<"start", "c">>, <<"wait", "c">> >>) }

(* Ranks 1 and 2 wait for two requests in different orders. *)
WaitOrders ==
  { [p \in Proc |->
       IF p \in {1, 3} THEN << <<"start", "a">>, <<"start", "b">>, <<"wait", "a">>, <<"wait", "b">> >>
       ELSE << <<"start", "a">>, <<"start", "b">>, <<"wait", "b">>, <<"wait", "a">> >>] }
=============================================================================
