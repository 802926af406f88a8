\* Two nodes of two ranks; the same calls on every rank, requests restarted and overlapping.
SPECIFICATION FairSpec
CONSTANTS
  Proc = {1, 2, 3, 4}
  Req = {"a", "b", "c"}
  Kind <- KindOf
  Items <- ItemsOf
  Node <- NodeOf
  Via <- ViaOf
  Programs <- Alike
INVARIANTS TypeOK OwnIteration IdleWhenRestarted
PROPERTIES KeepsPromise CallsReturn
