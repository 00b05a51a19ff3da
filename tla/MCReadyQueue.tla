---------------------------- MODULE MCReadyQueue ----------------------------
(***************************************************************************)
(* ReadyQueue on three PCBs, a ring of three slots and predicted bursts    *)
(* 0 .. 1: the ring wraps, fills and empties, and the SJF removal happens  *)
(* at every position, with ties, while the list straddles the array's end. *)
(***************************************************************************)
EXTENDS ReadyQueue
=============================================================================
