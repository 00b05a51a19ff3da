CONSTANTS
  PageUnits = 3
  NALLOC = 2
  HeapPages = 4
  NumFrames = 2
  Sizes = {2, 3, 5}
SPECIFICATION FairSpec
INVARIANTS
  HeapTiled
  ListOrdered
  SearchIsComplete
PROPERTIES
  ImplementsArena
  HeapCallsReturn
