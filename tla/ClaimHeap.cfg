\* Two frames; an allocation of five units needs a second page.
CONSTANTS
  PageUnits = 3
  NALLOC = 2
  HeapPages = 4
  NumFrames = 2
  Sizes = {2, 3, 5}
SPECIFICATION FairSpec
INVARIANT FramesStayMapped
