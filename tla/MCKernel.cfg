\* Two processes, a queue of one slot, two user values: every kind of step.
CONSTANTS
  PCBs = {p1, p2}
  NULL = NULL
  Capacity = 1
  Policy = "RR"
  Quantum = 2
  Preemptive = TRUE
  NumModules = 2
  UintMod = 3
  PDTs = {d1, d2, d3}
  Values = {0, 1}
  PidMod = 3
SPECIFICATION KernelSpec
SYMMETRY Symmetry
INVARIANTS
  KernelTypeOK
  MachineMatchesCurrent
  SpacesAccounted
  ContextIntegrity
PROPERTIES
  ForkTellsApart
  ImplementsScheduler
