\* Four ranks, two leaders per node, every order of calls.
SPECIFICATION Spec
CONSTANTS
  hostA = hostA
  hostB = hostB
  NumProcs = 4
  Placements <- Regular
  PpnArgs = {1, 2, 4}
  LeaderArgs = {1, 2, 3}
  RequestArgs = {0, 1}
  WinArgs = {4, 8}
  LeadersPerNode = 2
  MaxTag = 2
  Careful = TRUE
INVARIANTS TypeOK NoDanglingUse MapsLocate NodesAreLocalComms ExchangesOverGrid LeadersWithinNode
PROPERTY RanksPartOnlyIfUneven
