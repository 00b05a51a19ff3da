----------------------------- MODULE MCScheduler -----------------------------
(***************************************************************************)
(* Scheduler on a few PCBs, in the configurations kmain.c offers (its      *)
(* comment at lines 90-94 lists the policies).  A PCB is never reused, so  *)
(* the number of PCBs bounds the number of forks.  UintMod replaces 2^32   *)
(* by a modulus small enough for the tick counter to wrap in every run.    *)
(***************************************************************************)
EXTENDS BootFits, TLC

\* PCBs differ only by the order in which they were allocated.
Symmetry == Permutations(PCBs)
=============================================================================
