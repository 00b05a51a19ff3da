CONSTANTS
  PCBs = {p1, p2, p3}
  NULL = NULL
  Capacity = 3
  MaxBurst = 1
SPECIFICATION FairSpec
INVARIANTS
  TypeOK
  TailFollowsHead
  SjfInv
PROPERTIES
  ImplementsList
  SjfReturns
