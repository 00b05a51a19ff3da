----------------------------- MODULE ReadyQueue -----------------------------
(***************************************************************************)
(* The ready queue as scheduler.c stores it: an array used as a ring, with *)
(* ready_head, ready_tail and ready_len.  scheduler_enqueue_ready and      *)
(* scheduler_dequeue_ready are one action each; scheduler_dequeue_sjf is   *)
(* one action per iteration of its two loops (the scan for the smallest    *)
(* burst and the shift that closes the hole), so that what the loops do is *)
(* checked and not assumed.  The kernel runs with interrupts off, so no    *)
(* other call starts while pc is not "idle".                               *)
(***************************************************************************)
EXTENDS Integers, Sequences

CONSTANTS PCBs, NULL, Capacity, MaxBurst

ASSUME ReadyQueueAssumption ==
  /\ NULL \notin PCBs
  /\ Capacity \in Nat \ {0}
  /\ MaxBurst \in Nat

VARIABLES
  ready_queue, ready_head, ready_tail, ready_len,
  ret,                    \* what the last call returned
  pc,                     \* "idle", or the loop dequeue_sjf is in
  i, best_index, best_burst, best_pcb,  \* its locals
  burst                   \* predicted_burst_for_sjf of every PCB in this call

ring == <<ready_queue, ready_head, ready_tail, ready_len>>
locals == <<i, best_index, best_burst, best_pcb, burst>>
vars == <<ring, ret, pc, locals>>

Slots == 0 .. Capacity - 1

\* The slot n places after the head.
Slot(n) == (ready_head + n) % Capacity

TypeOK ==
  /\ ready_queue \in [Slots -> PCBs \cup {NULL}]
  /\ ready_head \in Slots
  /\ ready_tail \in Slots
  /\ ready_len \in 0 .. Capacity
  /\ ret \in PCBs \cup {NULL, 0, -1}
  /\ pc \in {"idle", "scan", "shift"}
  /\ i \in 0 .. Capacity
  /\ best_index \in 0 .. Capacity
  /\ best_burst \in 0 .. MaxBurst
  /\ best_pcb \in PCBs \cup {NULL}
  /\ burst \in [PCBs -> 0 .. MaxBurst]

Init ==
  /\ ready_queue = [s \in Slots |-> NULL]
  /\ ready_head = 0
  /\ ready_tail = 0
  /\ ready_len = 0
  /\ ret = 0
  /\ pc = "idle"
  /\ i = 0
  /\ best_index = Capacity
  /\ best_burst = MaxBurst
  /\ best_pcb = NULL
  /\ burst = [p \in PCBs |-> MaxBurst]

-----------------------------------------------------------------------------
\* Mutant: the test for a full queue is dropped.
EnqueueUnbounded(p) ==
  /\ pc = "idle"
  /\ p # NULL
  /\ ready_queue' = [ready_queue EXCEPT ![ready_tail] = p]
  /\ ready_tail' = (ready_tail + 1) % Capacity
  /\ ready_len' = ready_len + 1
  /\ ret' = 0
  /\ UNCHANGED <<ready_head, pc, locals>>

EnqueueReady(p) ==
  /\ pc = "idle"
  /\ IF p = NULL \/ ready_len >= Capacity
     THEN /\ ret' = -1
          /\ UNCHANGED ring
     ELSE /\ ready_queue' = [ready_queue EXCEPT ![ready_tail] = p]
          /\ ready_tail' = (ready_tail + 1) % Capacity
          /\ ready_len' = ready_len + 1
          /\ ret' = 0
          /\ UNCHANGED ready_head
  /\ UNCHANGED <<pc, locals>>

\* Mutant: the PCB is read after the head has moved on.
DequeueAfterAdvance ==
  /\ pc = "idle"
  /\ ready_len > 0
  /\ ret' = ready_queue[Slot(1)]
  /\ ready_head' = Slot(1)
  /\ ready_len' = ready_len - 1
  /\ UNCHANGED <<ready_queue, ready_tail, pc, locals>>

DequeueReady ==
  /\ pc = "idle"
  /\ IF ready_len = 0
     THEN /\ ret' = NULL
          /\ UNCHANGED ring
     ELSE /\ ret' = ready_queue[ready_head]
          /\ ready_head' = (ready_head + 1) % Capacity
          /\ ready_len' = ready_len - 1
          /\ UNCHANGED <<ready_queue, ready_tail>>
  /\ UNCHANGED <<pc, locals>>

\* scheduler_dequeue_sjf up to its first loop; b is the prediction that
\* predicted_burst_for_sjf reads from each PCB during this call.
SjfBegin(b) ==
  /\ pc = "idle"
  /\ IF ready_len = 0
     THEN /\ ret' = NULL
          /\ UNCHANGED <<pc, locals>>
     ELSE /\ pc' = "scan"
          /\ i' = 0
          /\ best_index' = Capacity
          /\ best_burst' = MaxBurst
          /\ burst' = b
          /\ UNCHANGED <<ret, best_pcb>>
  /\ UNCHANGED ring

\* Mutant: <= instead of < lets a later PCB with an equal burst win.
SjfScanLastMinimum ==
  /\ pc = "scan"
  /\ i < ready_len
  /\ LET candidate == ready_queue[Slot(i)] IN
       IF best_index = Capacity \/ burst[candidate] <= best_burst
       THEN /\ best_burst' = burst[candidate]
            /\ best_index' = i
       ELSE UNCHANGED <<best_burst, best_index>>
  /\ i' = i + 1
  /\ UNCHANGED <<ring, ret, pc, best_pcb, burst>>

\* One iteration of the scan.
SjfScan ==
  /\ pc = "scan"
  /\ i < ready_len
  /\ LET candidate == ready_queue[Slot(i)] IN
       IF best_index = Capacity \/ burst[candidate] < best_burst
       THEN /\ best_burst' = burst[candidate]
            /\ best_index' = i
       ELSE UNCHANGED <<best_burst, best_index>>
  /\ i' = i + 1
  /\ UNCHANGED <<ring, ret, pc, best_pcb, burst>>

\* The scan has ended.  best_index is valid here, since ready_len > 0 and the
\* first iteration always sets it (SjfInv): the return at line 257 is dead.
SjfSelect ==
  /\ pc = "scan"
  /\ i >= ready_len
  /\ best_pcb' = ready_queue[Slot(best_index)]
  /\ i' = best_index
  /\ pc' = "shift"
  /\ UNCHANGED <<ring, ret, best_index, best_burst, burst>>

\* Mutant: the shift does not advance.
SjfShiftStuck ==
  /\ pc = "shift"
  /\ i < ready_len - 1
  /\ ready_queue' = [ready_queue EXCEPT ![Slot(i)] = ready_queue[Slot(i + 1)]]
  /\ UNCHANGED <<ready_head, ready_tail, ready_len, ret, pc, locals>>

\* One iteration of the shift.
SjfShift ==
  /\ pc = "shift"
  /\ i < ready_len - 1
  /\ ready_queue' = [ready_queue EXCEPT ![Slot(i)] = ready_queue[Slot(i + 1)]]
  /\ i' = i + 1
  /\ UNCHANGED <<ready_head, ready_tail, ready_len, ret, pc,
                 best_index, best_burst, best_pcb, burst>>

\* Mutant: the tail is left where it was.
SjfFinishKeepsTail ==
  /\ pc = "shift"
  /\ i >= ready_len - 1
  /\ ready_len' = ready_len - 1
  /\ ret' = best_pcb
  /\ pc' = "idle"
  /\ UNCHANGED <<ready_queue, ready_head, ready_tail, locals>>

SjfFinish ==
  /\ pc = "shift"
  /\ i >= ready_len - 1
  /\ ready_tail' = IF ready_tail = 0 THEN Capacity - 1 ELSE ready_tail - 1
  /\ ready_len' = ready_len - 1
  /\ ret' = best_pcb
  /\ pc' = "idle"
  /\ UNCHANGED <<ready_queue, ready_head, locals>>

Next ==
  \/ \E p \in PCBs \cup {NULL} : EnqueueReady(p)
  \/ DequeueReady
  \/ \E b \in [PCBs -> 0 .. MaxBurst] : SjfBegin(b)
  \/ SjfScan
  \/ SjfSelect
  \/ SjfShift
  \/ SjfFinish

Spec == Init /\ [][Next]_vars

\* The loops run to their end: nothing can interrupt the kernel in them.
Fairness == WF_vars(SjfScan \/ SjfSelect \/ SjfShift \/ SjfFinish)

FairSpec == Spec /\ Fairness

-----------------------------------------------------------------------------
\* Safety: the tail is always ready_len places after the head, in every loop
\* of scheduler_dequeue_sjf too (whose decrement of ready_tail wraps by hand).
\* If it slipped, an enqueue would overwrite a queued PCB or leave a stale
\* one between the head and the tail.
TailFollowsHead == ready_tail = Slot(ready_len)

\* The n-th queued PCB (from 0) of the list the ring stands for.  During the
\* shift the removed PCB is still part of the list: it is best_pcb, and the
\* PCBs between it and i have moved one place forward.
Queued(n) ==
  IF pc # "shift" \/ n < best_index \/ n > i
  THEN ready_queue[Slot(n)]
  ELSE IF n = best_index THEN best_pcb ELSE ready_queue[Slot(n - 1)]

Contents == [k \in 1 .. ready_len |-> Queued(k - 1)]

\* Safety: no slot between head and tail ever holds the null pointer, whatever
\* wrapping and shifting went before, so a dequeue never returns 0 from a
\* queue that is not empty (sys_exit would take that for "no process left").
NoNullQueued == \A k \in 1 .. ready_len : Contents[k] \in PCBs

\* Safety: the loop invariants of scheduler_dequeue_sjf.  After i iterations
\* of the scan, best_index is the first of the i PCBs seen with the smallest
\* burst; the shift starts at a valid index that was minimal over the whole
\* queue and never passes the last queued PCB.
SjfInv ==
  /\ pc = "scan" =>
       /\ ready_len > 0
       /\ i <= ready_len
       /\ i = 0 => best_index = Capacity
       /\ i > 0 =>
            /\ best_index < i
            /\ best_burst = burst[Queued(best_index)]
            /\ \A j \in 0 .. i - 1 : best_burst <= burst[Queued(j)]
            /\ \A j \in 0 .. best_index - 1 : best_burst < burst[Queued(j)]
  /\ pc = "shift" =>
       /\ best_index <= i
       /\ i < ready_len
       /\ best_pcb \in PCBs
       /\ \A j \in 0 .. ready_len - 1 : burst[best_pcb] <= burst[Queued(j)]
       /\ \A j \in 0 .. best_index - 1 : burst[best_pcb] < burst[Queued(j)]

List == INSTANCE ReadyList WITH list <- Contents

\* Refinement: the ring buffer with its scan and shift loops implements the
\* bounded list: FIFO order survives the wrap and the SJF removal, the PCB
\* that scheduler_dequeue_sjf returns is the first with the smallest
\* predicted burst, and the others keep their order.
ImplementsList == List!Spec

\* Liveness: every call of scheduler_dequeue_sjf returns: neither loop, whose
\* bounds are unsigned expressions, runs for ever.
SjfReturns == pc # "idle" ~> pc = "idle"
=============================================================================
