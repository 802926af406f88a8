\* Two hosts whose ranks interleave in opposite orders.
SPECIFICATION Spec
CONSTANTS
  hostA = hostA
  hostB = hostB
  NumProcs = 4
  Placements <- Crossed
  PpnArgs = {1, 2, 4}
  LeaderArgs = {1, 2}
  RequestArgs = {0, 1}
  WinArgs = {4, 8}
  LeadersPerNode = 2
  MaxTag = 2
  Careful = TRUE
INVARIANT NodesAreLocalComms
