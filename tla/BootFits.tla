------------------------------ MODULE BootFits ------------------------------
(***************************************************************************)
(* The scheduler when the boot modules beyond the running one fit in the   *)
(* ready queue, as the three of menu.lst fit in its 32 slots.  kmain only  *)
(* logs a module that does not fit, and never runs it.                     *)
(***************************************************************************)
EXTENDS Scheduler

ASSUME ModulesFit == NumModules <= Capacity + 1
=============================================================================
