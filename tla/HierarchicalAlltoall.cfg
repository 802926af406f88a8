\* Up to eight ranks, two leaders per node, one call or two.
SPECIFICATION FairSpec
CONSTANTS
  Shapes <- MCShapes
  NumLeaders = 2
  LeaderSizes = {0, 2}
  MaxCalls = 2
  Programs <- MCPrograms
PROPERTIES KeepsPromise CallsReturn
