\* Two ranks, three calls that mix the methods, two tags: the tag counter wraps.
SPECIFICATION FairSpec
CONSTANTS
  p1 = p1
  p2 = p2
  p3 = p3
  Proc = {p1, p2}
  MaxCalls = 3
  MaxCount = 2
  MaxTag <- MaxTagTwo
  Buffered = {0, 1}
  Patterns <- PatternsPair
  MethodSeqs <- SeqsPair
INVARIANTS TypeOK TagsSeparateCalls NothingLeftBehind
PROPERTIES KeepsPromise CallsReturn
