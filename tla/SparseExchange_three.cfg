\* Three ranks, two calls, messages of zero, one and two elements, self-messages.
SPECIFICATION Spec
CONSTANTS
  p1 = p1
  p2 = p2
  p3 = p3
  Proc = {p1, p2, p3}
  MaxCalls = 2
  MaxCount = 2
  MaxTag <- MaxTagLarge
  Buffered = {0, 1}
  Patterns <- PatternsThree
  MethodSeqs <- SeqsThree
INVARIANTS TagsSeparateCalls NothingLeftBehind EmptyMessagesReported
PROPERTIES KeepsPromise
