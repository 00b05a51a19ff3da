--------------------------- MODULE MCAddressSpaces ---------------------------
(***************************************************************************)
(* AddressSpaces on two processes.  A boot image takes six frames, so a    *)
(* fork needs six more and an exec of two pages six for a moment; the heap *)
(* takes any number of frames in between, so that each allocation of each  *)
(* call is, in some run, the one that fails.                               *)
(***************************************************************************)
EXTENDS AddressSpaces
=============================================================================
