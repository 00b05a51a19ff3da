------------------------------ MODULE ReadyList ------------------------------
(***************************************************************************)
(* What the ready queue of scheduler.c promises: a bounded list of PCBs    *)
(* with three operations, each atomic and each leaving its return value in *)
(* ret.  ReadyQueue.tla, the ring buffer of the code with its SJF scan and *)
(* shift loops, is shown to implement this module, and Scheduler.tla uses  *)
(* the list and its operators in place of the ring.                        *)
(***************************************************************************)
EXTENDS Integers, QueueOps

CONSTANTS
  PCBs,       \* the process control blocks (pointers into the kernel heap)
  NULL,       \* the null pointer
  Capacity,   \* SCHEDULER_READY_QUEUE_CAPACITY
  MaxBurst    \* the largest predicted burst (0xFFFFFFFF)

VARIABLES
  list,       \* the queued PCBs, oldest first
  ret         \* what the last call returned

listVars == <<list, ret>>

\* Every assignment of a predicted burst to the PCBs.
Bursts == [PCBs -> 0 .. MaxBurst]

-----------------------------------------------------------------------------
Init ==
  /\ list = << >>
  /\ ret = 0

\* scheduler_enqueue_ready: 0 if the PCB went to the end, -1 if refused.
Enqueue(p) ==
  IF p # NULL /\ Len(list) < Capacity
  THEN /\ list' = Append(list, p)
       /\ ret' = 0
  ELSE /\ ret' = -1
       /\ UNCHANGED list

\* scheduler_dequeue_ready: the oldest PCB, NULL if there is none.
DequeueReady ==
  IF list = << >>
  THEN /\ ret' = NULL
       /\ UNCHANGED list
  ELSE /\ ret' = Head(list)
       /\ list' = Tail(list)

\* scheduler_dequeue_sjf: the first PCB with the smallest predicted burst.
DequeueSjf(burst) ==
  \/ /\ list = << >>
     /\ ret' = NULL
     /\ UNCHANGED list
  \/ \E k \in 1 .. Len(list) :
       /\ IsShortest(list, burst, k)
       /\ ret' = list[k]
       /\ list' = Without(list, k)

Next ==
  \/ \E p \in PCBs \cup {NULL} : Enqueue(p)
  \/ DequeueReady
  \/ \E burst \in Bursts : DequeueSjf(burst)

Spec == Init /\ [][Next]_listVars
=============================================================================
