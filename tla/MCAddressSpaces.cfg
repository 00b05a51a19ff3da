CONSTANTS
  Procs = {p1, p2}
  NULL = NULL
  NumFrames = 13
  MaxPages = 2
  Contents = {0, 1}
SPECIFICATION FairSpec
INVARIANTS
  FramesAccounted
  NoSharing
  KernelMapped
PROPERTIES
  ForkCopies
  Undisturbed
  CallsReturn
