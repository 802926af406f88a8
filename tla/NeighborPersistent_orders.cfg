\* Two nodes of two ranks; the ranks of a node wait for two requests in different orders.
SPECIFICATION FairSpec
CONSTANTS
  Proc = {1, 2, 3, 4}
  Req = {"a", "b", "c"}
  Kind <- KindOf
  Items <- ItemsOf
  Node <- NodeOf
  Via <- ViaOf
  Programs <- WaitOrders
PROPERTY CallsReturn
CHECK_DEADLOCK FALSE
