\* One process and a key press.
CONSTANTS
  PCBs = {p1}
  NULL = NULL
  Capacity = 1
  Policy = "SJF"
  Quantum = 3
  Preemptive = TRUE
  NumModules = 1
  UintMod = 4
  PDTs = {d1, d2}
  Values = {0, 1}
  PidMod = 3
SPECIFICATION KernelSpec
PROPERTY KeyboardTransparent
