---------------------------- MODULE KernelClaims ----------------------------
(***************************************************************************)
(* What a comment of the source says of the interrupt entry code and the   *)
(* code does not do.                                                       *)
(***************************************************************************)
EXTENDS Kernel

\* interrupt_handler.s:16, "Guarda valores antigos dos registradores": the
\* keyboard interrupt gives the interrupted program its registers back.  Only
\* eax and ebx are saved; edx comes back with a port number in it.
KeyboardTransparent == [][KeyboardInterrupt => regs' = regs]_kernelVars
=============================================================================
