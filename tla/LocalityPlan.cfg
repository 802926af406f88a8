\* Two nodes of two ranks, two calls.
SPECIFICATION FairSpec
CONSTANTS
  NumNodes = 2
  PPN = 2
  MaxTag = 7
  Place <- MCPlace
  Inputs <- MCInputs
INVARIANTS TypeOK HandshakesSeparate EndsAgree CrossesOnce PlanDelivers
PROPERTY CallsReturn
