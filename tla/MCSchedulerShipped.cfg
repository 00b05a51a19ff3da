\* kmain.c as it stands: preemptive SJF; the queue can hold every process.
CONSTANTS
  PCBs = {p1, p2, p3, p4}
  NULL = NULL
  Capacity = 4
  Policy = "SJF"
  Quantum = 3
  Preemptive = TRUE
  NumModules = 3
  UintMod = 4
SPECIFICATION FairSchedSpec
INVARIANTS
  PredictionsPinned
PROPERTIES
  OldestFirst
  ReadyEventuallyRuns
