\* Two nodes of two ranks, two calls: every order of the two-phase methods and
\* of the one-sided method in which one rank can be a call ahead.
SPECIFICATION FairSpec
CONSTANTS
  NumNodes = 2
  PPN = 2
  MaxCalls = 2
  MaxCount = 2
  MaxTag = 5
  Eager <- MCEager
  Loads <- MCLoads
  MethodSeqs <- MCMethodSeqs
INVARIANTS TypeOK TagsSeparateCalls HeldIsForThisNode FirstPhaseComplete OnlyUnawaitedOutlive EverySourceReported
PROPERTIES KeepsPromise CallsReturn
