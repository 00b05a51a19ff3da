\* Round robin, three ticks per turn; the queue can hold every process.
CONSTANTS
  PCBs = {p1, p2, p3}
  NULL = NULL
  Capacity = 3
  Policy = "RR"
  Quantum = 3
  Preemptive = TRUE
  NumModules = 2
  UintMod = 5
SPECIFICATION FairSchedSpec
INVARIANTS
  SchedTypeOK
  QuantumBound
PROPERTIES
  ReadyEventuallyRuns
