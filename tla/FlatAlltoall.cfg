\* One to four ranks, batches of two, two calls.
SPECIFICATION FairSpec
CONSTANTS
  Sizes = {1, 2, 3, 4}
  Stride = 2
  MaxTag = 2
  MaxCalls = 2
  Programs <- MCPrograms
INVARIANT RequestsTracked
PROPERTIES KeepsPromise CallsReturn
