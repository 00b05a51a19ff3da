\* Cooperative SJF: bursts of different lengths, with overflow; the queue fills.
CONSTANTS
  PCBs = {p1, p2, p3, p4}
  NULL = NULL
  Capacity = 2
  Policy = "SJF"
  Quantum = 3
  Preemptive = FALSE
  NumModules = 2
  UintMod = 5
SPECIFICATION SchedSpec
SYMMETRY Symmetry
INVARIANTS
  ReadyQueueSound
  NoProcessLost
  QueuedKeysAreReal
