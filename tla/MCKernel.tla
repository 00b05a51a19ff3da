------------------------------ MODULE MCKernel ------------------------------
(***************************************************************************)
(* Kernel on two PCBs and three page directories (one more than the        *)
(* processes, which exec needs), a ready queue of one slot and two user    *)
(* values.  next_pid wraps after three pids.                               *)
(***************************************************************************)
EXTENDS Kernel, TLC

Symmetry == Permutations(PCBs) \cup Permutations(PDTs)
=============================================================================
