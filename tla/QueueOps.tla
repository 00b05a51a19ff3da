------------------------------ MODULE QueueOps ------------------------------
(***************************************************************************)
(* The operators on queues that the ready list and the scheduler share.    *)
(***************************************************************************)
EXTENDS Naturals, Sequences

\* s without its k-th element, the later ones moved one place forward.
Without(s, k) ==
  [i \in 1 .. Len(s) - 1 |-> IF i < k THEN s[i] ELSE s[i + 1]]

\* k is the position of the first element of s whose burst is minimal: an
\* equal burst later in the queue never overtakes an earlier one.
IsShortest(s, burst, k) ==
  /\ k \in 1 .. Len(s)
  /\ \A j \in 1 .. Len(s) : burst[s[k]] <= burst[s[j]]
  /\ \A j \in 1 .. k - 1 : burst[s[k]] < burst[s[j]]

\* p is one of the elements of s.
InQueue(s, p) == \E k \in 1 .. Len(s) : s[k] = p

\* No element occurs twice in s.
NoRepeats(s) == \A j, k \in 1 .. Len(s) : s[j] = s[k] => j = k
=============================================================================
