\* Four ranks, two leaders per node, the leaders after a change of locality.
SPECIFICATION Spec
CONSTANTS
  hostA = hostA
  hostB = hostB
  NumProcs = 4
  Placements <- Regular
  PpnArgs = {1, 2, 4}
  LeaderArgs = {}
  RequestArgs = {0, 1}
  WinArgs = {4, 8}
  LeadersPerNode = 2
  MaxTag = 2
  Careful = TRUE
INVARIANT LeadersOnOneNode
