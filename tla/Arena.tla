-------------------------------- MODULE Arena --------------------------------
(***************************************************************************)
(* What kmalloc and kfree promise their callers: a block that is handed    *)
(* out lies inside the heap, overlaps no other block that is out, and      *)
(* keeps its size until it is given back.                                  *)
(***************************************************************************)
EXTENDS Integers

CONSTANTS
  Units,       \* the addresses of the heap, in units of a header
  Sizes        \* the sizes in units that are asked for, header included

VARIABLE live  \* the blocks that are out: address |-> size

Extent(a, n) == a .. a + n - 1

Init == live = [a \in {} |-> 0]

Alloc(n) ==
  \E a \in Units :
    /\ Extent(a, n) \subseteq Units
    /\ \A b \in DOMAIN live : Extent(a, n) \cap Extent(b, live[b]) = {}
    /\ live' = [b \in DOMAIN live \cup {a} |-> IF b = a THEN n ELSE live[b]]

Free(a) == live' = [b \in DOMAIN live \ {a} |-> live[b]]

Next ==
  \/ \E n \in Sizes : Alloc(n)
  \/ \E a \in DOMAIN live : Free(a)

Spec == Init /\ [][Next]_live
=============================================================================
