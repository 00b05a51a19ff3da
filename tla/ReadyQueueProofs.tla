--------------------------- MODULE ReadyQueueProofs ---------------------------
(***************************************************************************)
(* For every capacity, every set of PCBs and every range of bursts: the    *)
(* ring buffer of scheduler.c keeps its invariants and implements the      *)
(* bounded list.                                                           *)
(***************************************************************************)
EXTENDS ReadyQueue, SequenceTheorems, TLAPS

\* Leaves that name no prover go to the SMT solver, with time to spare.
USE SMTT(30)

\* Arithmetic: one step around the ring subtracts the capacity at most once.
LEMMA ModWrap ==
  ASSUME NEW N \in Nat \ {0}, NEW a \in Nat, a < N + N
  PROVE  a % N = IF a < N THEN a ELSE a - N
<1>1. CASE a < N
  BY <1>1
<1>2. CASE a >= N
  BY <1>2
<1> QED BY <1>1, <1>2

\* Where the n-th slot after the head is.
LEMMA SlotValue ==
  ASSUME ready_head \in Slots, NEW n \in 0 .. Capacity
  PROVE  /\ Slot(n) = IF ready_head + n < Capacity
                      THEN ready_head + n ELSE ready_head + n - Capacity
         /\ Slot(n) \in Slots
<1>1. /\ ready_head + n \in Nat
      /\ ready_head + n < Capacity + Capacity
      /\ Capacity \in Nat \ {0}
  BY ReadyQueueAssumption DEF Slots
<1>2. (ready_head + n) % Capacity =
        IF ready_head + n < Capacity
        THEN ready_head + n ELSE (ready_head + n) - Capacity
  BY <1>1, ModWrap
<1> QED BY <1>1, <1>2, ReadyQueueAssumption DEF Slot, Slots

\* Different places in the queue are different slots.
LEMMA SlotInjective ==
  ASSUME ready_head \in Slots,
         NEW m \in 0 .. Capacity - 1, NEW n \in 0 .. Capacity - 1,
         Slot(m) = Slot(n)
  PROVE  m = n
<1>1. m \in 0 .. Capacity /\ n \in 0 .. Capacity
  BY ReadyQueueAssumption
<1> QED BY <1>1, SlotValue, ReadyQueueAssumption DEF Slots

\* (s + 1) % Capacity, the step that enqueue and dequeue make.
LEMMA StepValue ==
  ASSUME NEW s \in Slots
  PROVE  (s + 1) % Capacity = IF s + 1 < Capacity THEN s + 1 ELSE 0
<1>1. s + 1 \in Nat /\ s + 1 < Capacity + Capacity /\ Capacity \in Nat \ {0}
  BY ReadyQueueAssumption DEF Slots
<1>2. (s + 1) % Capacity =
        IF s + 1 < Capacity THEN s + 1 ELSE (s + 1) - Capacity
  BY <1>1, ModWrap
<1> QED BY <1>1, <1>2 DEF Slots

\* Type correctness is inductive together with the loop invariants.
IInv == TypeOK /\ TailFollowsHead /\ NoNullQueued /\ SjfInv

LEMMA InitIInv == Init => IInv
<1> SUFFICES ASSUME Init PROVE IInv
  OBVIOUS
<1>1. TypeOK
  BY ReadyQueueAssumption DEF Init, TypeOK, Slots
<1>2. TailFollowsHead
  <2>1. ready_head \in Slots /\ 0 \in 0 .. Capacity /\ ready_len = 0
    BY <1>1, ReadyQueueAssumption DEF Init, TypeOK
  <2> QED BY <2>1, SlotValue, ReadyQueueAssumption DEF Init, TailFollowsHead, Slots
<1>3. NoNullQueued
  BY DEF Init, NoNullQueued
<1>4. SjfInv
  BY DEF Init, SjfInv
<1> QED BY <1>1, <1>2, <1>3, <1>4 DEF IInv

\* NoNullQueued, by place in the queue.
LEMMA NoNullByPlace ==
  TypeOK => (NoNullQueued <=> \A n \in 0 .. ready_len - 1 : Queued(n) \in PCBs)
<1> SUFFICES ASSUME TypeOK
             PROVE  NoNullQueued <=> \A n \in 0 .. ready_len - 1 : Queued(n) \in PCBs
  OBVIOUS
<1>1. \A k \in 1 .. ready_len : Contents[k] = Queued(k - 1)
  BY DEF Contents
<1>2. ASSUME NoNullQueued, NEW n \in 0 .. ready_len - 1
      PROVE  Queued(n) \in PCBs
  <2>1. n + 1 \in 1 .. ready_len /\ (n + 1) - 1 = n
    BY DEF TypeOK
  <2> QED BY <1>1, <1>2, <2>1 DEF NoNullQueued
<1>3. ASSUME \A n \in 0 .. ready_len - 1 : Queued(n) \in PCBs,
             NEW k \in 1 .. ready_len
      PROVE  Contents[k] \in PCBs
  <2>1. k - 1 \in 0 .. ready_len - 1
    BY DEF TypeOK
  <2> QED BY <1>1, <1>3, <2>1
<1> QED BY <1>2, <1>3 DEF NoNullQueued

\* The same of the next state.
LEMMA NoNullByPlaceNext ==
  (TypeOK => (NoNullQueued <=> \A n \in 0 .. ready_len - 1 : Queued(n) \in PCBs))'
BY NoNullByPlace, PTL

\* EnqueueReady fills the slot after the last queued PCB and no other.
LEMMA EnqueueIInv ==
  ASSUME IInv, NEW p \in PCBs \cup {NULL}, EnqueueReady(p)
  PROVE  IInv'
<1> USE ReadyQueueAssumption
<1>1. CASE p = NULL \/ ready_len >= Capacity
  <2>1. /\ ret' \in PCBs \cup {NULL, 0, -1}
        /\ UNCHANGED <<ready_queue, ready_head, ready_tail, ready_len, pc, i,
                       best_index, best_burst, best_pcb, burst>>
    BY <1>1 DEF EnqueueReady, ring, locals
  <2> QED BY <2>1 DEF IInv, TypeOK, TailFollowsHead, NoNullQueued, SjfInv,
                      Contents, Queued, Slot
<1>2. CASE ~ (p = NULL \/ ready_len >= Capacity)
  <2>1. /\ pc = "idle" /\ pc' = "idle"
        /\ p \in PCBs /\ ready_len < Capacity
        /\ ready_queue' = [ready_queue EXCEPT ![ready_tail] = p]
        /\ ready_tail' = (ready_tail + 1) % Capacity
        /\ ready_len' = ready_len + 1
        /\ ret' = 0
        /\ UNCHANGED <<ready_head, i, best_index, best_burst, best_pcb, burst>>
    BY <1>2 DEF EnqueueReady, ring, locals, IInv, TypeOK
  <2>2. ready_tail' = IF ready_tail + 1 < Capacity THEN ready_tail + 1 ELSE 0
    BY <2>1, StepValue DEF IInv, TypeOK
  <2>3. TypeOK'
    BY <2>1, <2>2 DEF IInv, TypeOK, Slots
  <2>4. /\ ready_head \in Slots
        /\ ready_len \in 0 .. Capacity /\ ready_len + 1 \in 0 .. Capacity
        /\ ready_tail = Slot(ready_len)
    BY <2>1 DEF IInv, TypeOK, TailFollowsHead
  <2>5. TailFollowsHead'
    <3>1. Slot(ready_len)' = Slot(ready_len + 1)
      BY <2>1 DEF Slot
    <3> QED BY <2>1, <2>2, <2>4, <3>1, SlotValue DEF TailFollowsHead, Slots
  <2>6. NoNullQueued'
    <3>1. SUFFICES ASSUME NEW n \in 0 .. ready_len PROVE ready_queue'[Slot(n)] \in PCBs
      <4>1. \A n : Queued(n)' = ready_queue'[Slot(n)]
        BY <2>1 DEF Queued, Slot
      <4>2. (0 .. ready_len - 1)' = 0 .. ready_len
        BY <2>1, <2>4
      <4> QED BY <2>3, <4>1, <4>2, NoNullByPlaceNext, Zenon
    <3>2. Slot(n) \in Slots
      BY <2>4, SlotValue
    <3>3. CASE n = ready_len
      BY <2>1, <2>4, <3>2, <3>3 DEF IInv, TypeOK
    <3>4. CASE n < ready_len
      <4>1. Slot(n) # ready_tail
        BY <2>1, <2>4, <3>4, SlotInjective
      <4>2. ready_queue[Slot(n)] \in PCBs
        BY <2>1, <2>4, <3>4, NoNullByPlace DEF IInv, Queued
      <4> QED BY <2>1, <3>2, <4>1, <4>2 DEF IInv, TypeOK
    <3> QED BY <2>4, <3>3, <3>4
  <2>7. SjfInv'
    BY <2>1 DEF SjfInv
  <2> QED BY <2>3, <2>5, <2>6, <2>7 DEF IInv
<1> QED BY <1>1, <1>2

\* DequeueReady moves the head: every remaining PCB is one place nearer.
LEMMA DequeueSlots ==
  ASSUME IInv, DequeueReady, ready_len # 0, NEW n \in 0 .. ready_len - 1
  PROVE  Slot(n)' = Slot(n + 1)
<1> USE ReadyQueueAssumption
<1>1. /\ ready_head \in Slots /\ ready_len \in 0 .. Capacity
      /\ ready_head' = (ready_head + 1) % Capacity
  BY DEF IInv, TypeOK, DequeueReady
<1>2. /\ ready_head' = IF ready_head + 1 < Capacity THEN ready_head + 1 ELSE 0
      /\ ready_head' \in Slots
  BY <1>1, StepValue DEF Slots
<1>3. n \in 0 .. Capacity /\ n + 1 \in 0 .. Capacity
  BY <1>1
<1>4. Slot(n)' = (ready_head' + n) % Capacity
  BY DEF Slot
<1>5. ready_head' + n \in Nat /\ ready_head' + n < Capacity + Capacity
  BY <1>1, <1>2, <1>3 DEF Slots
<1>6. (ready_head' + n) % Capacity =
        IF ready_head' + n < Capacity
        THEN ready_head' + n ELSE (ready_head' + n) - Capacity
  BY <1>5, ModWrap
<1>7. Slot(n + 1) = IF ready_head + (n + 1) < Capacity
                    THEN ready_head + (n + 1) ELSE ready_head + (n + 1) - Capacity
  BY <1>1, <1>3, SlotValue
<1> QED BY <1>1, <1>2, <1>3, <1>4, <1>6, <1>7 DEF Slots

LEMMA DequeueIInv ==
  ASSUME IInv, DequeueReady
  PROVE  IInv'
<1> USE ReadyQueueAssumption
<1>1. CASE ready_len = 0
  <2>1. /\ ret' \in PCBs \cup {NULL, 0, -1}
        /\ UNCHANGED <<ready_queue, ready_head, ready_tail, ready_len, pc, i,
                       best_index, best_burst, best_pcb, burst>>
    BY <1>1 DEF DequeueReady, ring, locals
  <2> QED BY <2>1 DEF IInv, TypeOK, TailFollowsHead, NoNullQueued, SjfInv,
                      Contents, Queued, Slot
<1>2. CASE ready_len # 0
  <2>1. /\ pc = "idle" /\ pc' = "idle"
        /\ ready_head' = (ready_head + 1) % Capacity
        /\ ready_len' = ready_len - 1
        /\ ret' = ready_queue[ready_head]
        /\ UNCHANGED <<ready_queue, ready_tail, i, best_index, best_burst,
                       best_pcb, burst>>
    BY <1>2 DEF DequeueReady, ring, locals
  <2>2. ready_head' = IF ready_head + 1 < Capacity THEN ready_head + 1 ELSE 0
    BY <2>1, StepValue DEF IInv, TypeOK
  <2>3. TypeOK'
    BY <1>2, <2>1, <2>2 DEF IInv, TypeOK, Slots
  <2>4. \A n \in 0 .. ready_len - 1 : Slot(n)' = Slot(n + 1)
    BY <1>2, DequeueSlots
  <2>5. TailFollowsHead'
    <3>1. PICK m \in 0 .. ready_len - 1 : m = ready_len - 1 /\ m + 1 = ready_len
      BY <1>2 DEF IInv, TypeOK
    <3>2. Slot(m)' = Slot(ready_len)
      BY <2>4, <3>1
    <3>3. Slot(m)' = (ready_head' + ready_len') % Capacity
      BY <2>1, <3>1 DEF Slot
    <3> QED BY <2>1, <3>2, <3>3 DEF IInv, TailFollowsHead, Slot
  <2>6. NoNullQueued'
    <3>1. \A n \in 0 .. ready_len - 2 : Queued(n)' = Queued(n + 1)
      <4> TAKE n \in 0 .. ready_len - 2
      <4>1. n \in 0 .. ready_len - 1
        BY DEF IInv, TypeOK
      <4> QED BY <2>1, <2>4, <4>1 DEF Queued
    <3>2. \A n \in 0 .. ready_len - 2 : Queued(n + 1) \in PCBs
      BY NoNullByPlace DEF IInv, TypeOK
    <3>3. (0 .. ready_len - 1)' = 0 .. ready_len - 2
      BY <2>1 DEF IInv, TypeOK
    <3> QED BY <2>3, <3>1, <3>2, <3>3, NoNullByPlaceNext, Zenon
  <2>7. SjfInv'
    BY <2>1 DEF SjfInv
  <2> QED BY <2>3, <2>5, <2>6, <2>7 DEF IInv
<1> QED BY <1>1, <1>2

\* dequeue_sjf up to the scan: the ring is untouched.
LEMMA SjfBeginIInv ==
  ASSUME IInv, NEW b \in [PCBs -> 0 .. MaxBurst], SjfBegin(b)
  PROVE  IInv'
<1> USE ReadyQueueAssumption
<1>1. UNCHANGED <<ready_queue, ready_head, ready_tail, ready_len>>
  BY DEF SjfBegin, ring
<1>2. CASE ready_len = 0
  <2>1. /\ ret' = NULL
        /\ UNCHANGED <<pc, i, best_index, best_burst, best_pcb, burst>>
    BY <1>2 DEF SjfBegin, locals
  <2> QED BY <1>1, <2>1 DEF IInv, TypeOK, TailFollowsHead, NoNullQueued, SjfInv,
                      Contents, Queued, Slot
<1>3. CASE ready_len # 0
  <2>1. /\ pc = "idle" /\ pc' = "scan"
        /\ i' = 0 /\ best_index' = Capacity /\ best_burst' = MaxBurst
        /\ burst' = b /\ UNCHANGED <<ret, best_pcb>>
    BY <1>3 DEF SjfBegin
  <2>2. TypeOK'
    BY <1>1, <2>1 DEF IInv, TypeOK
  <2>3. TailFollowsHead'
    BY <1>1 DEF IInv, TailFollowsHead, Slot
  <2>4. NoNullQueued'
    BY <1>1, <2>1 DEF IInv, NoNullQueued, Contents, Queued, Slot
  <2>5. SjfInv'
    BY <1>1, <1>3, <2>1 DEF IInv, TypeOK, SjfInv
  <2> QED BY <2>2, <2>3, <2>4, <2>5 DEF IInv
<1> QED BY <1>2, <1>3

\* The scan keeps its loop invariant.
LEMMA SjfScanIInv ==
  ASSUME IInv, SjfScan
  PROVE  IInv'
<1> USE ReadyQueueAssumption
<1>1. /\ pc = "scan" /\ pc' = "scan"
      /\ i < ready_len /\ i' = i + 1
      /\ UNCHANGED <<ready_queue, ready_head, ready_tail, ready_len, ret,
                     best_pcb, burst>>
  BY DEF SjfScan, ring
<1>2. \A n : Queued(n) = ready_queue[Slot(n)] /\ Queued(n)' = Queued(n)
  BY <1>1 DEF Queued, Slot
<1>3. \A n \in 0 .. ready_len - 1 : Queued(n) \in PCBs
  BY NoNullByPlace DEF IInv
<1>4. i \in 0 .. ready_len - 1 /\ burst[Queued(i)] \in 0 .. MaxBurst
  BY <1>1, <1>3 DEF IInv, TypeOK
<1>5. \/ /\ best_index = Capacity \/ burst[Queued(i)] < best_burst
         /\ best_burst' = burst[Queued(i)]
         /\ best_index' = i
      \/ /\ best_index # Capacity
         /\ ~ (burst[Queued(i)] < best_burst)
         /\ best_burst' = best_burst
         /\ best_index' = best_index
  BY <1>2 DEF SjfScan
<1>6. TypeOK'
  BY <1>1, <1>4, <1>5 DEF IInv, TypeOK
<1>7. TailFollowsHead'
  BY <1>1 DEF IInv, TailFollowsHead, Slot
<1>8. NoNullQueued'
  BY <1>1, <1>2 DEF IInv, NoNullQueued, Contents
<1>9. SjfInv'
  <2> DEFINE b(n) == burst[Queued(n)]
  <2>1. \A n \in 0 .. ready_len - 1 : b(n) \in Nat
    BY <1>3 DEF IInv, TypeOK
  <2>2. SUFFICES /\ best_index' < i + 1
                 /\ best_burst' = b(best_index')
                 /\ \A j \in 0 .. i : best_burst' <= b(j)
                 /\ \A j \in 0 .. best_index' - 1 : best_burst' < b(j)
    <3>1. (i + 1) - 1 = i
      BY <1>4
    <3>2. /\ \A n : b(n) = burst[ready_queue[(ready_head + n) % Capacity]]
          /\ i' > 0 /\ i' <= ready_len' /\ ready_len' > 0
      BY <1>1, <1>2, <1>4 DEF Slot, IInv, TypeOK
    <3> HIDE DEF b
    <3> QED BY <1>1, <2>2, <3>1, <3>2 DEF SjfInv, Queued, Slot
  <2>3. i = 0 => best_index = Capacity
    BY <1>1 DEF IInv, SjfInv
  <2>4. i > 0 => /\ best_index < i
                 /\ best_burst = b(best_index)
                 /\ \A j \in 0 .. i - 1 : best_burst <= b(j)
                 /\ \A j \in 0 .. best_index - 1 : best_burst < b(j)
    BY <1>1 DEF IInv, SjfInv
  <2>5. best_index \in 0 .. Capacity /\ i \in 0 .. Capacity
        /\ ready_len \in 0 .. Capacity /\ best_burst \in Nat
    BY DEF IInv, TypeOK
  <2> HIDE DEF b
  <2>6. \/ /\ best_index = Capacity \/ b(i) < best_burst
           /\ best_burst' = b(i)
           /\ best_index' = i
        \/ /\ best_index # Capacity
           /\ ~ (b(i) < best_burst)
           /\ best_burst' = best_burst
           /\ best_index' = best_index
    BY <1>5 DEF b
  <2>7. CASE i = 0
    BY <1>4, <2>1, <2>3, <2>5, <2>6, <2>7
  <2>8. CASE i > 0
    BY <1>4, <2>1, <2>4, <2>5, <2>6, <2>8
  <2> QED BY <1>4, <2>7, <2>8
<1> QED BY <1>6, <1>7, <1>8, <1>9 DEF IInv

\* The end of the scan changes nothing in the list.
LEMMA SjfSelectKeeps ==
  ASSUME IInv, SjfSelect
  PROVE  /\ i = ready_len /\ best_index < ready_len
         /\ \A n \in 0 .. ready_len - 1 :
              Queued(n) = ready_queue[Slot(n)] /\ Queued(n)' = Queued(n)
<1> USE ReadyQueueAssumption
<1>1. i = ready_len /\ best_index < ready_len
  BY DEF SjfSelect, IInv, TypeOK, SjfInv
<1>2. /\ pc = "scan" /\ pc' = "shift"
      /\ best_pcb' = ready_queue[Slot(best_index)]
      /\ i' = best_index
      /\ UNCHANGED <<ready_queue, ready_head, best_index>>
  BY DEF SjfSelect, ring
<1>3. \A n \in 0 .. ready_len - 1 : Queued(n) = ready_queue[Slot(n)]
  BY <1>2 DEF Queued
<1>4. ASSUME NEW n \in 0 .. ready_len - 1
      PROVE  Queued(n)' = ready_queue[Slot(n)]
  <2>1. Slot(n)' = Slot(n)
    BY <1>2 DEF Slot
  <2>2. CASE n = best_index
    BY <1>2, <2>2 DEF Queued
  <2>3. CASE n < best_index \/ n > best_index
    BY <1>2, <2>1, <2>3 DEF Queued
  <2> QED BY <2>2, <2>3 DEF IInv, TypeOK
<1> QED BY <1>1, <1>3, <1>4

LEMMA SjfSelectIInv ==
  ASSUME IInv, SjfSelect
  PROVE  IInv'
<1> USE ReadyQueueAssumption
<1>1. /\ pc = "scan" /\ pc' = "shift"
      /\ best_pcb' = ready_queue[Slot(best_index)]
      /\ i' = best_index
      /\ UNCHANGED <<ready_queue, ready_head, ready_tail, ready_len, ret,
                     best_index, best_burst, burst>>
  BY DEF SjfSelect, ring
<1>2. /\ i = ready_len /\ best_index < ready_len
      /\ \A n \in 0 .. ready_len - 1 :
           Queued(n) = ready_queue[Slot(n)] /\ Queued(n)' = Queued(n)
  BY SjfSelectKeeps
<1>3. \A n \in 0 .. ready_len - 1 : Queued(n) \in PCBs
  BY NoNullByPlace DEF IInv
<1>4. best_index \in 0 .. ready_len - 1 /\ best_pcb' = Queued(best_index)
  BY <1>1, <1>2 DEF IInv, TypeOK
<1>5. TypeOK'
  BY <1>1, <1>3, <1>4 DEF IInv, TypeOK
<1>6. TailFollowsHead'
  BY <1>1 DEF IInv, TailFollowsHead, Slot
<1>7. NoNullQueued'
  BY <1>1, <1>2, <1>3, <1>5, NoNullByPlaceNext
<1>8. SjfInv'
  <2>1. /\ best_burst = burst[best_pcb']
        /\ \A j \in 0 .. ready_len - 1 : best_burst <= burst[Queued(j)]
        /\ \A j \in 0 .. best_index - 1 : best_burst < burst[Queued(j)]
    BY <1>1, <1>2, <1>4 DEF IInv, TypeOK, SjfInv
  <2>2. /\ \A j \in 0 .. ready_len - 1 : burst[best_pcb'] <= burst[Queued(j)']
        /\ \A j \in 0 .. best_index - 1 : burst[best_pcb'] < burst[Queued(j)']
    BY <1>2, <1>4, <2>1 DEF IInv, TypeOK
  <2> QED BY <1>1, <1>2, <1>3, <1>4, <2>2 DEF IInv, TypeOK, SjfInv
<1> QED BY <1>5, <1>6, <1>7, <1>8 DEF IInv

\* Each turn of the shift leaves the list as it is: what it overwrites is
\* still in best_pcb or one place further on.
LEMMA SjfShiftKeeps ==
  ASSUME IInv, SjfShift, NEW n \in 0 .. ready_len - 1
  PROVE  Queued(n)' = Queued(n)
<1> USE ReadyQueueAssumption
<1>1. /\ pc = "shift" /\ pc' = "shift"
      /\ i < ready_len - 1 /\ i' = i + 1
      /\ ready_queue' = [ready_queue EXCEPT ![Slot(i)] = ready_queue[Slot(i + 1)]]
      /\ UNCHANGED <<ready_head, best_index, best_pcb>>
  BY DEF SjfShift
<1>2. /\ i \in 0 .. Capacity - 1 /\ n \in 0 .. Capacity - 1
      /\ best_index \in 0 .. i /\ ready_head \in Slots
      /\ ready_len \in 0 .. Capacity
      /\ ready_queue \in [Slots -> PCBs \cup {NULL}]
  BY <1>1 DEF IInv, TypeOK, SjfInv
<1>3. \A m : Slot(m)' = Slot(m)
  BY <1>1 DEF Slot
<1>4. ASSUME NEW m \in 0 .. Capacity - 1
      PROVE  ready_queue'[Slot(m)] =
               IF m = i THEN ready_queue[Slot(i + 1)] ELSE ready_queue[Slot(m)]
  <2>1. Slot(m) \in Slots /\ Slot(i) \in Slots
    BY <1>2, SlotValue
  <2>2. m # i => Slot(m) # Slot(i)
    BY <1>2, SlotInjective
  <2> QED BY <1>1, <1>2, <2>1, <2>2
<1>5. CASE n < best_index \/ n > i + 1
  <2>1. Queued(n) = ready_queue[Slot(n)] /\ Queued(n)' = ready_queue'[Slot(n)]
    BY <1>1, <1>2, <1>3, <1>5 DEF Queued
  <2> QED BY <1>2, <1>4, <1>5, <2>1
<1>6. CASE n = best_index
  BY <1>1, <1>2, <1>6 DEF Queued
<1>7. CASE best_index < n /\ n <= i
  <2>1. Queued(n) = ready_queue[Slot(n - 1)] /\ Queued(n)' = ready_queue'[Slot(n - 1)]
    BY <1>1, <1>2, <1>3, <1>7 DEF Queued
  <2>2. n - 1 \in 0 .. Capacity - 1 /\ n - 1 # i
    BY <1>2, <1>7
  <2> QED BY <1>4, <2>1, <2>2
<1>8. CASE n = i + 1
  <2>1. Queued(n) = ready_queue[Slot(i + 1)] /\ Queued(n)' = ready_queue'[Slot(n - 1)]
    BY <1>1, <1>2, <1>3, <1>8 DEF Queued
  <2>2. n - 1 = i
    BY <1>2, <1>8
  <2> QED BY <1>2, <1>4, <2>1, <2>2
<1> QED BY <1>2, <1>5, <1>6, <1>7, <1>8

LEMMA SjfShiftIInv ==
  ASSUME IInv, SjfShift
  PROVE  IInv'
<1> USE ReadyQueueAssumption
<1>1. /\ pc = "shift" /\ pc' = "shift"
      /\ i < ready_len - 1 /\ i' = i + 1
      /\ ready_queue' = [ready_queue EXCEPT ![Slot(i)] = ready_queue[Slot(i + 1)]]
      /\ UNCHANGED <<ready_head, ready_tail, ready_len, ret, best_index,
                     best_burst, best_pcb, burst>>
  BY DEF SjfShift
<1>2. \A n \in 0 .. ready_len - 1 : Queued(n)' = Queued(n)
  BY SjfShiftKeeps
<1>3. \A n \in 0 .. ready_len - 1 : Queued(n) \in PCBs
  BY NoNullByPlace DEF IInv
<1>4. TypeOK'
  <2>1. i + 1 \in 0 .. Capacity - 1 /\ ready_head \in Slots
    BY <1>1 DEF IInv, TypeOK
  <2>2. Slot(i + 1) \in Slots
    BY <2>1, SlotValue
  <2>3. ready_queue' \in [Slots -> PCBs \cup {NULL}]
    BY <1>1, <2>2, Zenon DEF IInv, TypeOK
  <2> QED BY <1>1, <2>1, <2>3 DEF IInv, TypeOK
<1>5. TailFollowsHead'
  BY <1>1 DEF IInv, TailFollowsHead, Slot
<1>6. NoNullQueued'
  BY <1>1, <1>2, <1>3, <1>4, NoNullByPlaceNext
<1>7. SjfInv'
  <2>1. /\ best_index <= i /\ best_pcb \in PCBs
        /\ \A j \in 0 .. ready_len - 1 : burst[best_pcb] <= burst[Queued(j)]
        /\ \A j \in 0 .. best_index - 1 : burst[best_pcb] < burst[Queued(j)]
    BY <1>1 DEF IInv, SjfInv
  <2>2. /\ \A j \in 0 .. ready_len - 1 : burst[best_pcb] <= burst[Queued(j)']
        /\ \A j \in 0 .. best_index - 1 : burst[best_pcb] < burst[Queued(j)']
    BY <1>1, <1>2, <2>1 DEF IInv, TypeOK
  <2> QED BY <1>1, <2>1, <2>2 DEF IInv, TypeOK, SjfInv
<1> QED BY <1>4, <1>5, <1>6, <1>7 DEF IInv

\* The end of the shift takes best_pcb out and leaves the others in order.
LEMMA SjfFinishSlots ==
  ASSUME IInv, SjfFinish, NEW n \in 0 .. ready_len - 2
  PROVE  Queued(n)' = IF n < best_index THEN Queued(n) ELSE Queued(n + 1)
<1> USE ReadyQueueAssumption
<1>1. /\ pc = "shift" /\ pc' = "idle"
      /\ UNCHANGED <<ready_queue, ready_head>>
  BY DEF SjfFinish
<1>2. /\ ready_len \in Nat /\ i \in Nat /\ best_index \in Nat
      /\ i = ready_len - 1 /\ best_index <= i
  BY <1>1 DEF SjfFinish, IInv, TypeOK, SjfInv
<1>3. Queued(n)' = ready_queue[Slot(n)]
  BY <1>1 DEF Queued, Slot
<1>4. CASE n < best_index
  BY <1>3, <1>4 DEF Queued
<1>5. CASE n >= best_index
  <2>1. ~(n + 1 < best_index) /\ ~(n + 1 > i) /\ n + 1 # best_index /\ (n + 1) - 1 = n
    BY <1>2, <1>5
  <2>2. Queued(n + 1) = ready_queue[Slot(n)]
    BY <1>1, <2>1 DEF Queued
  <2> QED BY <1>2, <1>3, <1>5, <2>2
<1> QED BY <1>2, <1>4, <1>5

LEMMA SjfFinishIInv ==
  ASSUME IInv, SjfFinish
  PROVE  IInv'
<1> USE ReadyQueueAssumption
<1>1. /\ pc = "shift" /\ pc' = "idle"
      /\ ready_tail' = IF ready_tail = 0 THEN Capacity - 1 ELSE ready_tail - 1
      /\ ready_len' = ready_len - 1 /\ ret' = best_pcb
      /\ UNCHANGED <<ready_queue, ready_head, i, best_index, best_burst,
                     best_pcb, burst>>
  BY DEF SjfFinish, locals
<1>2. i < ready_len /\ best_pcb \in PCBs
  BY <1>1 DEF IInv, SjfInv
<1>3. TypeOK'
  BY <1>1, <1>2 DEF IInv, TypeOK, Slots
<1>4. TailFollowsHead'
  <2>1. PICK m \in 0 .. Capacity - 1 : m = ready_len - 1
    BY <1>2 DEF IInv, TypeOK
  <2>2. /\ ready_head \in Slots /\ ready_tail \in Slots
        /\ m \in 0 .. Capacity /\ m + 1 \in 0 .. Capacity
        /\ ready_tail = Slot(m + 1)
    BY <2>1 DEF IInv, TypeOK, TailFollowsHead
  <2>3. ready_tail' = Slot(m)
    BY <1>1, <2>2, SlotValue DEF Slots
  <2> QED BY <1>1, <2>1, <2>3 DEF TailFollowsHead, Slot
<1>5. NoNullQueued'
  <2>1. \A n \in 0 .. ready_len - 1 : Queued(n) \in PCBs
    BY NoNullByPlace DEF IInv
  <2>2. ASSUME NEW n \in 0 .. ready_len' - 1
        PROVE  Queued(n)' \in PCBs
    <3>1. n \in 0 .. ready_len - 2 /\ n \in 0 .. ready_len - 1
          /\ n + 1 \in 0 .. ready_len - 1
      BY <1>1 DEF IInv, TypeOK
    <3> QED BY <2>1, <3>1, SjfFinishSlots
  <2> QED BY <1>3, <2>2, NoNullByPlaceNext
<1>6. SjfInv'
  BY <1>1 DEF SjfInv
<1> QED BY <1>3, <1>4, <1>5, <1>6 DEF IInv

\* The invariant is inductive.
LEMMA NextIInv == IInv /\ [Next]_vars => IInv'
<1> SUFFICES ASSUME IInv, [Next]_vars PROVE IInv'
  OBVIOUS
<1>1. CASE \E p \in PCBs \cup {NULL} : EnqueueReady(p)
  BY <1>1, EnqueueIInv
<1>2. CASE DequeueReady
  BY <1>2, DequeueIInv
<1>3. CASE \E b \in [PCBs -> 0 .. MaxBurst] : SjfBegin(b)
  BY <1>3, SjfBeginIInv
<1>4. CASE SjfScan
  BY <1>4, SjfScanIInv
<1>5. CASE SjfSelect
  BY <1>5, SjfSelectIInv
<1>6. CASE SjfShift
  BY <1>6, SjfShiftIInv
<1>7. CASE SjfFinish
  BY <1>7, SjfFinishIInv
<1>8. CASE UNCHANGED vars
  BY <1>8, Zenon DEF IInv, TypeOK, TailFollowsHead, NoNullQueued, SjfInv, Contents,
              Queued, Slot, vars, ring, locals
<1> QED BY <1>1, <1>2, <1>3, <1>4, <1>5, <1>6, <1>7, <1>8 DEF Next

\* Theorem: whatever calls are made in whatever order, the tail of the ring
\* is ready_len places after the head, no queued slot holds the null pointer,
\* and the loop invariants of scheduler_dequeue_sjf hold.
THEOREM RingInvariant == Spec => []IInv
BY InitIInv, NextIInv, PTL DEF Spec

\* Theorem: the types of the ring, whose indices never leave the array.
THEOREM RingTypeOK == Spec => []TypeOK
BY RingInvariant, PTL DEF IInv

\* Theorem: ready_tail is ready_len places after ready_head.
THEOREM RingTail == Spec => []TailFollowsHead
BY RingInvariant, PTL DEF IInv

\* Theorem: no slot between head and tail holds the null pointer.
THEOREM RingNoNull == Spec => []NoNullQueued
BY RingInvariant, PTL DEF IInv

\* Theorem: scheduler_dequeue_sjf selects the first PCB with the smallest
\* burst, and its shift stays inside the queue.
THEOREM RingSjf == Spec => []SjfInv
BY RingInvariant, PTL DEF IInv

-----------------------------------------------------------------------------
\* The refinement mapping gives a list of PCBs.
LEMMA ContentsSeq ==
  IInv => /\ Contents \in Seq(PCBs)
          /\ Len(Contents) = ready_len
          /\ \A n \in 0 .. ready_len - 1 : Contents[n + 1] = Queued(n)
<1> SUFFICES ASSUME IInv
             PROVE  /\ Contents \in Seq(PCBs)
                    /\ Len(Contents) = ready_len
                    /\ \A n \in 0 .. ready_len - 1 : Contents[n + 1] = Queued(n)
  OBVIOUS
<1>1. ready_len \in Nat
  BY ReadyQueueAssumption DEF IInv, TypeOK
<1>2. \A k \in 1 .. ready_len : Queued(k - 1) \in PCBs
  <2> TAKE k \in 1 .. ready_len
  <2>1. Contents[k] \in PCBs
    BY DEF IInv, NoNullQueued
  <2> QED BY <2>1 DEF Contents
<1>3. Contents \in [1 .. ready_len -> PCBs]
  BY <1>2 DEF Contents
<1>4. ASSUME NEW n \in 0 .. ready_len - 1
      PROVE  Contents[n + 1] = Queued(n)
  <2>1. n + 1 \in 1 .. ready_len /\ (n + 1) - 1 = n
    BY <1>1
  <2> QED BY <2>1 DEF Contents
<1> QED BY <1>1, <1>3, <1>4

\* The same of the next state.
LEMMA ContentsSeqNext ==
  (IInv => /\ Contents \in Seq(PCBs)
           /\ Len(Contents) = ready_len
           /\ \A n \in 0 .. ready_len - 1 : Contents[n + 1] = Queued(n))'
BY ContentsSeq, PTL

\* Two lists of the same length with the same PCB at every place are equal.
LEMMA SameList ==
  ASSUME NEW s \in Seq(PCBs), NEW t \in Seq(PCBs), Len(s) = Len(t),
         \A n \in 0 .. Len(s) - 1 : s[n + 1] = t[n + 1]
  PROVE  s = t
<1>1. ASSUME NEW k \in 1 .. Len(s) PROVE s[k] = t[k]
  <2>1. k - 1 \in 0 .. Len(s) - 1 /\ (k - 1) + 1 = k
    OBVIOUS
  <2> QED BY <2>1, Zenon
<1> QED BY <1>1, SeqEqual

\* EnqueueReady adds its PCB at the end of the list, or refuses it.
LEMMA EnqueueRefines ==
  ASSUME IInv, IInv', NEW p \in PCBs \cup {NULL}, EnqueueReady(p)
  PROVE  List!Enqueue(p)
<1> USE ReadyQueueAssumption
<1>1. Contents \in Seq(PCBs) /\ Len(Contents) = ready_len
  BY ContentsSeq
<1>2. CASE p = NULL \/ ready_len >= Capacity
  <2>1. UNCHANGED Contents
    BY <1>2 DEF EnqueueReady, ring, locals, Contents, Queued, Slot
  <2>2. ~ (p # NULL /\ Len(Contents) < Capacity)
    BY <1>1, <1>2 DEF IInv, TypeOK
  <2> QED BY <1>2, <2>1, <2>2 DEF EnqueueReady, List!Enqueue
<1>3. CASE ~ (p = NULL \/ ready_len >= Capacity)
  <2>1. /\ pc = "idle" /\ pc' = "idle" /\ p \in PCBs
        /\ ready_len \in 0 .. Capacity - 1 /\ ready_len' = ready_len + 1
        /\ ready_queue' = [ready_queue EXCEPT ![ready_tail] = p]
        /\ ready_head' = ready_head /\ ready_head \in Slots /\ ret' = 0
        /\ ready_tail = Slot(ready_len)
        /\ ready_queue \in [Slots -> PCBs \cup {NULL}]
    BY <1>3 DEF EnqueueReady, IInv, TypeOK, TailFollowsHead
  <2>2. ASSUME NEW n \in 0 .. ready_len
        PROVE  Queued(n)' = IF n = ready_len THEN p ELSE Queued(n)
    <3>1. Queued(n)' = ready_queue'[Slot(n)] /\ Queued(n) = ready_queue[Slot(n)]
      BY <2>1 DEF Queued, Slot
    <3>2. n \in 0 .. Capacity - 1 /\ n \in 0 .. Capacity
      BY <2>1
    <3>3. Slot(n) \in Slots /\ (n # ready_len => Slot(n) # ready_tail)
      BY <2>1, <3>2, SlotValue, SlotInjective
    <3> QED BY <2>1, <3>1, <3>3
  <2>3. /\ Contents' \in Seq(PCBs) /\ Len(Contents)' = ready_len + 1
        /\ \A n \in 0 .. ready_len : Contents'[n + 1] = Queued(n)'
    BY <2>1, ContentsSeqNext
  <2>4. /\ Append(Contents, p) \in Seq(PCBs)
        /\ Len(Append(Contents, p)) = ready_len + 1
        /\ \A k \in 1 .. ready_len : Append(Contents, p)[k] = Contents[k]
        /\ Append(Contents, p)[ready_len + 1] = p
    BY <1>1, <2>1, AppendProperties
  <2>5. ASSUME NEW n \in 0 .. ready_len
        PROVE  Contents'[n + 1] = Append(Contents, p)[n + 1]
    <3>1. CASE n = ready_len
      BY <2>2, <2>3, <2>4, <3>1
    <3>2. CASE n # ready_len
      <4>1. n \in 0 .. ready_len - 1 /\ n + 1 \in 1 .. ready_len
        BY <2>1, <3>2
      <4> QED BY <2>2, <2>3, <2>4, <3>2, <4>1, ContentsSeq
    <3> QED BY <3>1, <3>2, Zenon
  <2>6. Contents' = Append(Contents, p)
    <3>1. PICK t \in Seq(PCBs) : t = Contents'
      BY <2>3
    <3>2. Len(t) = ready_len + 1 /\ (ready_len + 1) - 1 = ready_len
      BY <2>1, <2>3, <3>1
    <3> QED BY <2>4, <2>5, <3>1, <3>2, SameList, Zenon
  <2> QED BY <1>1, <1>3, <2>1, <2>6 DEF List!Enqueue
<1> QED BY <1>2, <1>3

\* DequeueReady takes the first PCB off the list.
LEMMA DequeueRefines ==
  ASSUME IInv, IInv', DequeueReady
  PROVE  List!DequeueReady
<1> USE ReadyQueueAssumption
<1>1. /\ Contents \in Seq(PCBs) /\ Len(Contents) = ready_len
      /\ \A n \in 0 .. ready_len - 1 : Contents[n + 1] = Queued(n)
  BY ContentsSeq
<1>2. CASE ready_len = 0
  <2>1. UNCHANGED Contents
    BY <1>2 DEF DequeueReady, ring, locals, Contents, Queued, Slot
  <2>2. Contents = << >>
    BY <1>1, <1>2, EmptySeq
  <2> QED BY <1>2, <2>1, <2>2 DEF DequeueReady, List!DequeueReady
<1>3. CASE ready_len # 0
  <2>1. /\ pc = "idle" /\ pc' = "idle"
        /\ ready_len \in 1 .. Capacity /\ ready_len' = ready_len - 1
        /\ ret' = ready_queue[ready_head] /\ ready_queue' = ready_queue
        /\ ready_head \in Slots
    BY <1>3 DEF DequeueReady, IInv, TypeOK
  <2>2. Contents # << >>
    BY <1>1, <1>3
  <2>3. /\ Tail(Contents) \in Seq(PCBs) /\ Len(Tail(Contents)) = ready_len - 1
        /\ \A k \in 1 .. ready_len - 1 : Tail(Contents)[k] = Contents[k + 1]
        /\ Head(Contents) = Contents[1]
    BY <1>1, <2>2, HeadTailProperties
  <2>4. Head(Contents) = ret'
    <3>1. 0 \in 0 .. ready_len - 1 /\ 0 \in 0 .. Capacity /\ 0 + 1 = 1
      BY <2>1
    <3>2. Slot(0) = ready_head
      BY <2>1, <3>1, SlotValue DEF Slots
    <3>3. Contents[1] = Queued(0)
      BY <1>1, <3>1
    <3> QED BY <2>1, <2>3, <3>2, <3>3 DEF Queued
  <2>5. ASSUME NEW n \in 0 .. ready_len - 2
        PROVE  Contents'[n + 1] = Tail(Contents)[n + 1]
    <3>1. /\ n \in 0 .. ready_len - 1 /\ n + 1 \in 0 .. ready_len - 1
          /\ n + 1 \in 1 .. ready_len - 1 /\ n \in 0 .. ready_len' - 1
      BY <2>1
    <3>2. Slot(n)' = Slot(n + 1)
      BY <1>3, <3>1, DequeueSlots
    <3>3. Queued(n)' = Queued(n + 1)
      BY <2>1, <3>2 DEF Queued
    <3>4. Contents'[n + 1] = Queued(n)'
      BY <3>1, ContentsSeqNext
    <3>5. Tail(Contents)[n + 1] = Contents[(n + 1) + 1]
      BY <2>3, <3>1
    <3>6. Contents[(n + 1) + 1] = Queued(n + 1)
      BY <1>1, <3>1
    <3> QED BY <3>3, <3>4, <3>5, <3>6, Zenon
  <2>6. Contents' = Tail(Contents)
    <3>1. PICK t \in Seq(PCBs) : t = Contents' /\ Len(t) = ready_len'
      BY ContentsSeqNext
    <3>2. Len(t) = ready_len - 1 /\ Len(t) - 1 = ready_len - 2
      BY <2>1, <3>1
    <3> QED BY <2>3, <2>5, <3>1, <3>2, SameList, Zenon
  <2> QED BY <2>2, <2>4, <2>6 DEF List!DequeueReady
<1> QED BY <1>2, <1>3

\* The loops of dequeue_sjf change nothing that a caller can see.
LEMMA SjfLoopsStutter ==
  ASSUME IInv, IInv', SjfScan \/ SjfSelect \/ SjfShift
  PROVE  UNCHANGED <<Contents, ret>>
<1>1. ret' = ret /\ ready_len' = ready_len
  BY DEF SjfScan, SjfSelect, SjfShift, ring
<1>2. ASSUME NEW n \in 0 .. ready_len - 1
      PROVE  Queued(n)' = Queued(n)
  <2>1. CASE SjfScan
    BY <2>1 DEF SjfScan, ring, Queued, Slot
  <2>2. CASE SjfSelect
    BY <2>2, SjfSelectKeeps
  <2>3. CASE SjfShift
    BY <2>3, SjfShiftKeeps
  <2> QED BY <2>1, <2>2, <2>3
<1>3. ASSUME NEW k \in 1 .. ready_len
      PROVE  Queued(k - 1)' = Queued(k - 1)
  <2>1. PICK n \in 0 .. ready_len - 1 : n = k - 1
    BY ReadyQueueAssumption DEF IInv, TypeOK
  <2>2. Queued(n)' = Queued(n)
    BY <1>2
  <2> QED BY <2>1, <2>2
<1> QED BY <1>1, <1>3 DEF Contents

\* The end of dequeue_sjf is the atomic removal of the shortest job.
LEMMA SjfFinishRefines ==
  ASSUME IInv, IInv', SjfFinish
  PROVE  List!DequeueSjf(burst)
<1> USE ReadyQueueAssumption
<1>1. /\ Contents \in Seq(PCBs) /\ Len(Contents) = ready_len
      /\ \A n \in 0 .. ready_len - 1 : Contents[n + 1] = Queued(n)
  BY ContentsSeq
<1>2. /\ pc = "shift" /\ ret' = best_pcb /\ ready_len' = ready_len - 1
      /\ ready_len \in 1 .. Capacity /\ best_index \in 0 .. ready_len - 1
      /\ best_index <= i /\ i = ready_len - 1
      /\ \A j \in 0 .. ready_len - 1 : burst[best_pcb] <= burst[Queued(j)]
      /\ \A j \in 0 .. best_index - 1 : burst[best_pcb] < burst[Queued(j)]
  BY DEF SjfFinish, IInv, TypeOK, SjfInv
<1>3. PICK k \in 1 .. ready_len : k = best_index + 1
  BY <1>2
<1>4. Contents[k] = best_pcb
  <2>1. Queued(best_index) = best_pcb
    BY <1>2 DEF Queued
  <2> QED BY <1>1, <1>2, <1>3, <2>1
<1>5. List!IsShortest(Contents, burst, k)
  <2>1. ASSUME NEW j \in 1 .. ready_len
        PROVE  /\ burst[best_pcb] <= burst[Contents[j]]
               /\ j < k => burst[best_pcb] < burst[Contents[j]]
    <3>1. j - 1 \in 0 .. ready_len - 1 /\ (j - 1) + 1 = j
          /\ (j < k => j - 1 \in 0 .. best_index - 1)
      BY <1>2, <1>3
    <3>2. Contents[j] = Queued(j - 1)
      BY <1>1, <3>1
    <3> QED BY <1>2, <3>1, <3>2
  <2>2. 1 .. k - 1 \subseteq 1 .. ready_len /\ \A j \in 1 .. k - 1 : j < k
    BY <1>2
  <2> QED BY <1>1, <1>4, <2>1, <2>2 DEF List!IsShortest
<1>6. Contents' = List!Without(Contents, k)
  <2>1. ASSUME NEW m \in 1 .. ready_len - 1
        PROVE  Queued(m - 1)' = IF m < k THEN Contents[m] ELSE Contents[m + 1]
    <3>1. PICK n \in 0 .. ready_len - 2 : n = m - 1 /\ n + 1 = m
      BY <1>2
    <3>2. Queued(n)' = IF n < best_index THEN Queued(n) ELSE Queued(n + 1)
      BY SjfFinishSlots
    <3>3. /\ n \in 0 .. ready_len - 1 /\ n + 1 \in 0 .. ready_len - 1
          /\ (n < best_index <=> m < k)
      BY <1>2, <1>3, <3>1
    <3>4. Contents[m] = Queued(n) /\ Contents[m + 1] = Queued(n + 1)
      BY <1>1, <3>1, <3>3
    <3> QED BY <3>1, <3>2, <3>3, <3>4
  <2> QED BY <1>1, <1>2, <2>1, Zenon DEF Contents, List!Without
<1> QED BY <1>1, <1>2, <1>4, <1>5, <1>6 DEF List!DequeueSjf

\* Every step of the ring is a step of the list or leaves it alone.
LEMMA StepRefines ==
  ASSUME IInv, IInv', [Next]_vars
  PROVE  [List!Next]_List!listVars
<1>1. CASE \E p \in PCBs \cup {NULL} : EnqueueReady(p)
  BY <1>1, EnqueueRefines DEF List!Next
<1>2. CASE DequeueReady
  BY <1>2, DequeueRefines DEF List!Next
<1>3. CASE \E b \in [PCBs -> 0 .. MaxBurst] : SjfBegin(b)
  <2>1. PICK b \in [PCBs -> 0 .. MaxBurst] : SjfBegin(b)
    BY <1>3
  <2>2. UNCHANGED Contents
    BY <2>1 DEF SjfBegin, ring, locals, Contents, Queued, Slot
  <2>3. CASE ready_len = 0
    <3>1. Contents = << >>
      BY <2>3, ContentsSeq, EmptySeq
    <3>2. List!DequeueSjf(b)
      BY <2>1, <2>2, <2>3, <3>1 DEF SjfBegin, List!DequeueSjf
    <3> QED BY <3>2 DEF List!Next, List!Bursts
  <2>4. CASE ready_len # 0
    BY <2>1, <2>2, <2>4 DEF SjfBegin, List!listVars
  <2> QED BY <2>3, <2>4
<1>4. CASE SjfScan \/ SjfSelect \/ SjfShift
  BY <1>4, SjfLoopsStutter DEF List!listVars
<1>5. CASE SjfFinish
  <2>1. List!DequeueSjf(burst)
    BY <1>5, SjfFinishRefines
  <2> QED BY <2>1 DEF IInv, TypeOK, List!Next, List!Bursts
<1>6. CASE UNCHANGED vars
  BY <1>6 DEF vars, ring, locals, Contents, Queued, Slot, List!listVars
<1> QED BY <1>1, <1>2, <1>3, <1>4, <1>5, <1>6 DEF Next

\* Theorem: the ring buffer with its scan and shift loops implements the
\* bounded list, for every capacity, every set of PCBs and every range of
\* bursts: each call of scheduler.c's queue returns and leaves behind what the
\* list's atomic operation does.
THEOREM RingImplementsList == Spec => ImplementsList
<1>1. Init => List!Init
  <2> SUFFICES ASSUME Init PROVE List!Init
    OBVIOUS
  <2>1. ready_len = 0 /\ ret = 0
    BY DEF Init
  <2>2. Contents = << >>
    BY <2>1, InitIInv, ContentsSeq, EmptySeq
  <2> QED BY <2>1, <2>2 DEF List!Init
<1>2. IInv /\ IInv' /\ [Next]_vars => [List!Next]_List!listVars
  BY StepRefines
<1> QED BY <1>1, <1>2, RingInvariant, PTL DEF Spec, ImplementsList, List!Spec
=============================================================================
