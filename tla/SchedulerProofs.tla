--------------------------- MODULE SchedulerProofs ---------------------------
(***************************************************************************)
(* For every number of processes, every capacity, policy, quantum and      *)
(* width of the counters: the scheduler keeps its types, never queues a    *)
(* process wrongly and never loses one.                                    *)
(***************************************************************************)
EXTENDS BootFits, SequenceTheorems, FiniteSetTheorems, TLAPS

\* Leaves that name no prover go to the SMT solver, with time to spare.
USE SMTT(30)

-----------------------------------------------------------------------------
(* Queues *)

\* Appending a new element keeps a queue free of repetitions.
LEMMA AppendQueue ==
  ASSUME NEW S, NEW s \in Seq(S), NEW e \in S, NoRepeats(s), ~ InQueue(s, e)
  PROVE  /\ Append(s, e) \in Seq(S)
         /\ Len(Append(s, e)) = Len(s) + 1
         /\ NoRepeats(Append(s, e))
         /\ \A q : InQueue(Append(s, e), q) <=> InQueue(s, q) \/ q = e
<1> DEFINE t == Append(s, e)
<1>1. /\ t \in Seq(S) /\ Len(t) = Len(s) + 1 /\ Len(s) \in Nat
      /\ \A k \in 1 .. Len(s) : t[k] = s[k]
      /\ t[Len(s) + 1] = e
  BY AppendProperties
<1> HIDE DEF t
<1>2. NoRepeats(t)
  <2> SUFFICES ASSUME NEW j \in 1 .. Len(t), NEW k \in 1 .. Len(t), t[j] = t[k]
               PROVE  j = k
    BY DEF NoRepeats
  <2>1. CASE j \in 1 .. Len(s) /\ k \in 1 .. Len(s)
    BY <1>1, <2>1 DEF NoRepeats
  <2>2. CASE j = Len(s) + 1 /\ k \in 1 .. Len(s)
    BY <1>1, <2>2 DEF InQueue
  <2>3. CASE k = Len(s) + 1 /\ j \in 1 .. Len(s)
    BY <1>1, <2>3 DEF InQueue
  <2>4. CASE j = Len(s) + 1 /\ k = Len(s) + 1
    BY <2>4
  <2> QED BY <1>1, <2>1, <2>2, <2>3, <2>4
<1>3. ASSUME NEW q PROVE InQueue(t, q) <=> InQueue(s, q) \/ q = e
  <2>1. ASSUME InQueue(t, q) PROVE InQueue(s, q) \/ q = e
    <3>1. PICK k \in 1 .. Len(t) : t[k] = q
      BY <2>1 DEF InQueue
    <3>2. k \in 1 .. Len(s) \/ k = Len(s) + 1
      BY <1>1
    <3> QED BY <1>1, <3>1, <3>2 DEF InQueue
  <2>2. ASSUME InQueue(s, q) PROVE InQueue(t, q)
    <3>1. PICK k \in 1 .. Len(s) : s[k] = q
      BY <2>2 DEF InQueue
    <3>2. k \in 1 .. Len(t) /\ t[k] = q
      BY <1>1, <3>1
    <3> QED BY <3>2 DEF InQueue
  <2>3. ASSUME q = e PROVE InQueue(t, q)
    <3>1. Len(s) + 1 \in 1 .. Len(t)
      BY <1>1
    <3> QED BY <1>1, <2>3, <3>1 DEF InQueue
  <2> QED BY <2>1, <2>2, <2>3
<1> QED BY <1>1, <1>2, <1>3 DEF t

\* Taking one element out of a queue leaves all the others, and only them.
LEMMA WithoutQueue ==
  ASSUME NEW S, NEW s \in Seq(S), NEW k \in 1 .. Len(s), NoRepeats(s)
  PROVE  /\ Without(s, k) \in Seq(S)
         /\ Len(Without(s, k)) = Len(s) - 1
         /\ NoRepeats(Without(s, k))
         /\ \A q : InQueue(Without(s, k), q) <=> InQueue(s, q) /\ q # s[k]
<1> DEFINE t == Without(s, k)
           at(j) == IF j < k THEN j ELSE j + 1
<1>1. Len(s) \in Nat /\ \A j \in 1 .. Len(s) : s[j] \in S
  BY LenProperties, ElementOfSeq
<1>2. \A j \in 1 .. Len(s) - 1 : at(j) \in 1 .. Len(s) /\ at(j) # k
  BY <1>1
<1>3. /\ t \in [1 .. Len(s) - 1 -> S]
      /\ \A j \in 1 .. Len(s) - 1 : t[j] = s[at(j)]
  BY <1>1, <1>2 DEF Without
<1>4. Len(s) - 1 \in Nat
  BY <1>1
<1>5. t \in Seq(S) /\ Len(t) = Len(s) - 1
  BY <1>3, <1>4
<1> HIDE DEF t
<1>6. NoRepeats(t)
  <2> SUFFICES ASSUME NEW i \in 1 .. Len(t), NEW j \in 1 .. Len(t), t[i] = t[j]
               PROVE  i = j
    BY DEF NoRepeats
  <2>1. at(i) = at(j)
    BY <1>2, <1>3, <1>5 DEF NoRepeats
  <2> QED BY <1>1, <1>5, <2>1
<1>7. ASSUME NEW q PROVE InQueue(t, q) <=> InQueue(s, q) /\ q # s[k]
  <2>1. ASSUME InQueue(t, q) PROVE InQueue(s, q) /\ q # s[k]
    <3>1. PICK j \in 1 .. Len(t) : t[j] = q
      BY <2>1 DEF InQueue
    <3>2. at(j) \in 1 .. Len(s) /\ at(j) # k /\ q = s[at(j)]
      BY <1>2, <1>3, <1>5, <3>1
    <3> HIDE DEF at
    <3> QED BY <3>2 DEF InQueue, NoRepeats
  <2>2. ASSUME InQueue(s, q), q # s[k] PROVE InQueue(t, q)
    <3>1. PICK j \in 1 .. Len(s) : s[j] = q
      BY <2>2 DEF InQueue
    <3>2. j # k
      BY <2>2, <3>1
    <3>3. CASE j < k
      <4>1. j \in 1 .. Len(s) - 1 /\ at(j) = j
        BY <1>1, <3>3
      <4> QED BY <1>3, <1>5, <3>1, <4>1 DEF InQueue
    <3>4. CASE j > k
      <4>1. j - 1 \in 1 .. Len(s) - 1 /\ at(j - 1) = j
        BY <1>1, <3>4
      <4> QED BY <1>3, <1>5, <3>1, <4>1, Zenon DEF InQueue
    <3> QED BY <1>1, <3>2, <3>3, <3>4
  <2> QED BY <2>1, <2>2
<1> QED BY <1>5, <1>6, <1>7 DEF t

-----------------------------------------------------------------------------
(* The inductive invariant *)

\* Boot leaves room in the queue for every module still to come.
BootInv ==
  phase = "boot" =>
    /\ first_pcb = NULL => ready = << >>
    /\ first_pcb # NULL => /\ Len(ready) + mods_left <= Capacity
                           /\ state[first_pcb] = "READY"

\* The queue and the states of the PCBs say the same.
QueueInv ==
  /\ NoRepeats(ready)
  /\ Len(ready) <= Capacity
  /\ \A p \in PCBs : InQueue(ready, p) => p # Owner /\ state[p] = "READY"
  /\ \A p \in PCBs : Exists(p) => p = Owner \/ InQueue(ready, p)

PhaseInv ==
  /\ phase = "user" => current_pcb \in PCBs /\ Exists(current_pcb)
  /\ phase = "halted" => ready = << >>

NonZeroPredictions == \A p \in PCBs : predicted_burst[p] # 0

SchedIInv ==
  SchedTypeOK /\ BootInv /\ QueueInv /\ PhaseInv /\ NonZeroPredictions

\* The invariants that the runs check follow.
LEMMA SchedIInvImplies ==
  SchedIInv => ReadyQueueSound /\ NoProcessLost /\ QueuedKeysAreReal
<1> SUFFICES ASSUME SchedIInv
             PROVE  ReadyQueueSound /\ NoProcessLost /\ QueuedKeysAreReal
  OBVIOUS
<1>1. ready \in Seq(PCBs) /\ \A k \in 1 .. Len(ready) : ready[k] \in PCBs
  BY ElementOfSeq DEF SchedIInv, SchedTypeOK
<1>2. \A k \in 1 .. Len(ready) : InQueue(ready, ready[k])
  BY DEF InQueue
<1>3. \A k \in 1 .. Len(ready) : ready[k] # Owner /\ state[ready[k]] = "READY"
  BY <1>1, <1>2 DEF SchedIInv, QueueInv
<1>4. ReadyQueueSound
  BY <1>3 DEF ReadyQueueSound, SchedIInv, QueueInv
<1>5. NoProcessLost
  BY SchedulerAssumption DEF NoProcessLost, SchedIInv, QueueInv, PhaseInv
<1>6. QueuedKeysAreReal
  BY <1>1, <1>3 DEF QueuedKeysAreReal, SjfKey, SchedIInv, NonZeroPredictions
<1> QED BY <1>4, <1>5, <1>6

LEMMA SchedInitIInv == SchedInit => SchedIInv
<1> SUFFICES ASSUME SchedInit PROVE SchedIInv
  OBVIOUS
<1> USE SchedulerAssumption, ModulesFit
<1>1. ready = << >> /\ ready \in Seq(PCBs) /\ Len(ready) = 0
  BY EmptySeq DEF SchedInit
<1>2. SchedTypeOK
  BY <1>1 DEF SchedInit, SchedTypeOK, Uint32, States, quantum_ticks
<1>3. BootInv /\ PhaseInv /\ NonZeroPredictions
  BY DEF SchedInit, BootInv, PhaseInv, NonZeroPredictions
<1>4. QueueInv
  BY <1>1 DEF SchedInit, QueueInv, NoRepeats, InQueue, Exists
<1> QED BY <1>2, <1>3, <1>4 DEF SchedIInv

-----------------------------------------------------------------------------
(* Boot *)

LEMMA BootSkipsModuleIInv ==
  ASSUME SchedIInv, BootSkipsModule
  PROVE  SchedIInv'
<1>1. /\ mods_left > 0 /\ mods_left' = mods_left - 1
      /\ UNCHANGED <<phase, first_pcb, current_pcb, ready, remaining_ticks,
                     pit_ticks, state, predicted_burst, last_dispatch_tick>>
  BY DEF BootSkipsModule, sched, fields
<1>2. SchedTypeOK'
  BY <1>1, SchedulerAssumption DEF SchedIInv, SchedTypeOK
<1>3. BootInv'
  <2>1. Len(ready) \in Nat /\ mods_left \in Nat
    BY LenProperties, SchedulerAssumption DEF SchedIInv, SchedTypeOK
  <2> QED BY <1>1, <2>1, SchedulerAssumption DEF SchedIInv, BootInv
<1>4. QueueInv' /\ PhaseInv' /\ NonZeroPredictions'
  BY <1>1 DEF SchedIInv, QueueInv, PhaseInv, NonZeroPredictions, Owner, Exists
<1> QED BY <1>2, <1>3, <1>4 DEF SchedIInv

LEMMA BootModuleIInv ==
  ASSUME SchedIInv, NEW p \in PCBs, BootModule(p)
  PROVE  SchedIInv'
<1> USE SchedulerAssumption
<1>1. /\ phase = "boot" /\ mods_left > 0 /\ mods_left' = mods_left - 1
      /\ state[p] = "NONE"
      /\ state' = [state EXCEPT ![p] = "READY"]
      /\ predicted_burst' = [predicted_burst EXCEPT ![p] = 1]
      /\ last_dispatch_tick' = [last_dispatch_tick EXCEPT ![p] = 0]
      /\ UNCHANGED <<phase, current_pcb, remaining_ticks, pit_ticks>>
  BY DEF BootModule
<1>2. /\ ready \in Seq(PCBs) /\ Len(ready) \in Nat /\ mods_left \in Nat
      /\ state \in [PCBs -> States]
      /\ predicted_burst \in [PCBs -> Uint32]
      /\ last_dispatch_tick \in [PCBs -> Uint32]
      /\ 0 \in Uint32 /\ 1 \in Uint32
  BY LenProperties DEF SchedIInv, SchedTypeOK, Uint32
<1>3. ~ InQueue(ready, p) /\ NoRepeats(ready)
  BY <1>1 DEF SchedIInv, QueueInv
<1>4. NonZeroPredictions'
  BY <1>1, <1>2 DEF SchedIInv, NonZeroPredictions
<1>5. CASE first_pcb = NULL
  <2>1. first_pcb' = p /\ ready' = ready /\ ready = << >>
    BY <1>1, <1>5 DEF BootModule, SchedIInv, BootInv
  <2>2. SchedTypeOK'
    BY <1>1, <1>2, <2>1 DEF SchedIInv, SchedTypeOK, States
  <2>3. BootInv'
    <3>1. Len(ready') = 0
      BY <2>1, EmptySeq
    <3>2. mods_left' <= Capacity
      BY <1>1, ModulesFit DEF SchedIInv, SchedTypeOK
    <3>3. mods_left' \in Nat
      BY <1>1, <1>2
    <3> QED BY <1>1, <1>2, <2>1, <3>1, <3>2, <3>3 DEF BootInv
  <2>4. QueueInv'
    BY <1>1, <1>2, <1>5, <2>1 DEF SchedIInv, QueueInv, Owner, Exists
  <2>5. PhaseInv'
    BY <1>1 DEF PhaseInv
  <2> QED BY <1>4, <2>2, <2>3, <2>4, <2>5 DEF SchedIInv
<1>6. CASE first_pcb # NULL
  <2>1. /\ Len(ready) + mods_left <= Capacity /\ state[first_pcb] = "READY"
        /\ first_pcb \in PCBs /\ first_pcb # p
    BY <1>1, <1>6 DEF SchedIInv, BootInv, SchedTypeOK
  <2>2. first_pcb' = first_pcb /\ ready' = Append(ready, p)
    BY <1>1, <1>2, <1>6, <2>1 DEF BootModule
  <2>3. /\ ready' \in Seq(PCBs) /\ Len(ready') = Len(ready) + 1
        /\ NoRepeats(ready')
        /\ \A q : InQueue(ready', q) <=> InQueue(ready, q) \/ q = p
    BY <1>2, <1>3, <2>2, AppendQueue
  <2>4. SchedTypeOK'
    BY <1>1, <1>2, <2>2, <2>3 DEF SchedIInv, SchedTypeOK, States
  <2>5. BootInv'
    BY <1>1, <1>2, <2>1, <2>2, <2>3 DEF BootInv
  <2>6. QueueInv'
    <3>1. Owner = first_pcb /\ Owner' = first_pcb
      BY <1>1, <2>2 DEF Owner
    <3>2. ASSUME NEW q \in PCBs
          PROVE  /\ InQueue(ready', q) => q # Owner' /\ state'[q] = "READY"
                 /\ Exists(q)' => q = Owner' \/ InQueue(ready', q)
      BY <1>1, <1>2, <2>1, <2>3, <3>1 DEF SchedIInv, QueueInv, Exists
    <3> QED BY <1>1, <1>2, <2>1, <2>3, <3>2 DEF QueueInv
  <2>7. PhaseInv'
    BY <1>1 DEF PhaseInv
  <2> QED BY <1>4, <2>4, <2>5, <2>6, <2>7 DEF SchedIInv
<1> QED BY <1>5, <1>6

LEMMA BootEndsIInv ==
  ASSUME SchedIInv, BootRuns \/ BootHalts
  PROVE  SchedIInv'
<1> USE SchedulerAssumption
<1>1. CASE BootRuns
  <2>1. /\ phase = "boot" /\ phase' = "user" /\ first_pcb # NULL
        /\ current_pcb' = first_pcb
        /\ last_dispatch_tick' = [last_dispatch_tick EXCEPT ![first_pcb] = pit_ticks]
        /\ state' = [state EXCEPT ![first_pcb] = "RUNNING"]
        /\ UNCHANGED <<mods_left, first_pcb, ready, remaining_ticks, pit_ticks,
                       predicted_burst>>
    BY <1>1 DEF BootRuns
  <2>2. first_pcb \in PCBs /\ state \in [PCBs -> States]
    BY <2>1 DEF SchedIInv, SchedTypeOK
  <2>3. SchedTypeOK'
    BY <2>1, <2>2 DEF SchedIInv, SchedTypeOK, States
  <2>4. QueueInv'
    BY <2>1, <2>2 DEF SchedIInv, QueueInv, Owner, Exists
  <2>5. BootInv' /\ PhaseInv' /\ NonZeroPredictions'
    BY <2>1, <2>2 DEF SchedIInv, BootInv, PhaseInv, NonZeroPredictions, Exists
  <2> QED BY <2>3, <2>4, <2>5 DEF SchedIInv
<1>2. CASE BootHalts
  <2>1. /\ phase = "boot" /\ phase' = "halted" /\ first_pcb = NULL
        /\ ready = << >>
        /\ UNCHANGED <<mods_left, first_pcb, current_pcb, ready,
                       remaining_ticks, pit_ticks, state, predicted_burst,
                       last_dispatch_tick>>
    BY <1>2 DEF BootHalts, SchedIInv, BootInv, sched, fields
  <2>2. \A q : ~ InQueue(ready, q)
    BY <2>1, EmptySeq DEF InQueue
  <2>3. \A q \in PCBs : ~ Exists(q)
    BY <2>1, <2>2 DEF SchedIInv, QueueInv, Owner
  <2>4. SchedTypeOK'
    BY <2>1 DEF SchedIInv, SchedTypeOK
  <2>5. QueueInv'
    BY <2>1, <2>2, <2>3 DEF SchedIInv, QueueInv, Exists
  <2>6. BootInv' /\ PhaseInv' /\ NonZeroPredictions'
    BY <2>1 DEF SchedIInv, BootInv, PhaseInv, NonZeroPredictions
  <2> QED BY <2>4, <2>5, <2>6 DEF SchedIInv
<1> QED BY <1>1, <1>2

-----------------------------------------------------------------------------
(* scheduler_schedule_from_context *)

\* The prediction is a uint32_t and never 0, although the sum overflows.
LEMMA PredictionRange ==
  ASSUME SchedIInv, NEW p \in PCBs, NEW now \in Uint32
  PROVE  UpdatedPrediction(p, now) \in Uint32 \ {0}
<1> USE SchedulerAssumption
<1> DEFINE elapsed == IF now > last_dispatch_tick[p]
                      THEN now - last_dispatch_tick[p] ELSE 1
           sum == (predicted_burst[p] + elapsed) % UintMod
<1>1. last_dispatch_tick[p] \in Uint32 /\ predicted_burst[p] \in Uint32
  BY DEF SchedIInv, SchedTypeOK
<1>2. elapsed \in Uint32 \ {0}
  BY <1>1 DEF Uint32
<1>3. predicted_burst[p] + elapsed \in Nat /\ UintMod \in Nat \ {0}
  BY <1>1, <1>2 DEF Uint32
<1> HIDE DEF elapsed
<1>4. sum \in 0 .. UintMod - 1
  BY <1>3
<1> HIDE DEF sum
<1>5. sum \div 2 \in 0 .. UintMod - 1
  BY <1>4
<1>6. UpdatedPrediction(p, now) =
        LET average == IF predicted_burst[p] = 0 THEN elapsed ELSE sum \div 2
        IN IF average = 0 THEN 1 ELSE average
  BY DEF UpdatedPrediction, elapsed, sum
<1> QED BY <1>2, <1>5, <1>6 DEF Uint32

\* After the save and before the choice, the queue holds exactly the
\* processes that exist, each once, all READY.
LEMMA AfterSave ==
  ASSUME SchedIInv, phase = "user", NEW requeue \in BOOLEAN,
         requeue => Len(ready) < Capacity
  PROVE  /\ QueueAfterSave(requeue) \in Seq(PCBs)
         /\ NoRepeats(QueueAfterSave(requeue))
         /\ Len(QueueAfterSave(requeue)) <= Capacity
         /\ StatesAfterSave(requeue) \in [PCBs -> States]
         /\ \A p \in PCBs :
              /\ InQueue(QueueAfterSave(requeue), p) =>
                   StatesAfterSave(requeue)[p] = "READY"
              /\ StatesAfterSave(requeue)[p] \in {"READY", "RUNNING"} =>
                   InQueue(QueueAfterSave(requeue), p)
<1> USE SchedulerAssumption
<1>1. /\ ready \in Seq(PCBs) /\ Len(ready) \in Nat /\ NoRepeats(ready)
      /\ Len(ready) <= Capacity
      /\ current_pcb \in PCBs /\ Owner = current_pcb
      /\ ~ InQueue(ready, current_pcb)
      /\ state \in [PCBs -> States]
  BY LenProperties DEF SchedIInv, SchedTypeOK, QueueInv, PhaseInv, Owner
<1>2. StatesAfterSave(requeue) \in [PCBs -> States]
  BY <1>1 DEF StatesAfterSave, States
<1>3. \A p \in PCBs : StatesAfterSave(requeue)[p] =
        IF p = current_pcb THEN (IF requeue THEN "READY" ELSE "TERMINATED")
        ELSE state[p]
  BY <1>1 DEF StatesAfterSave
<1>4. \A p \in PCBs : /\ InQueue(ready, p) => p # current_pcb /\ state[p] = "READY"
                      /\ state[p] \in {"READY", "RUNNING"} =>
                           p = current_pcb \/ InQueue(ready, p)
  BY <1>1 DEF SchedIInv, QueueInv, Exists
<1>5. CASE requeue
  <2>1. QueueAfterSave(requeue) = Append(ready, current_pcb)
    BY <1>5 DEF QueueAfterSave
  <2>2. /\ Append(ready, current_pcb) \in Seq(PCBs)
        /\ Len(Append(ready, current_pcb)) = Len(ready) + 1
        /\ NoRepeats(Append(ready, current_pcb))
        /\ \A q : InQueue(Append(ready, current_pcb), q) <=>
                  InQueue(ready, q) \/ q = current_pcb
    BY <1>1, AppendQueue
  <2>3. Len(Append(ready, current_pcb)) <= Capacity
    BY <1>1, <1>5, <2>2
  <2> QED BY <1>2, <1>3, <1>4, <1>5, <2>1, <2>2, <2>3, Zenon
<1>6. CASE ~ requeue
  <2>1. QueueAfterSave(requeue) = ready
    BY <1>6 DEF QueueAfterSave
  <2> QED BY <1>1, <1>2, <1>3, <1>4, <1>6, <2>1
<1> QED BY <1>5, <1>6

\* The predictions after the save.
LEMMA SavedPredictions ==
  ASSUME SchedIInv, phase = "user", NEW requeue \in BOOLEAN, NEW now \in Uint32
  PROVE  PredictionsAfterSave(now, requeue) \in [PCBs -> Uint32 \ {0}]
<1>1. /\ predicted_burst \in [PCBs -> Uint32 \ {0}]
      /\ current_pcb \in PCBs
  BY DEF SchedIInv, SchedTypeOK, NonZeroPredictions, PhaseInv
<1>2. UpdatedPrediction(current_pcb, now) \in Uint32 \ {0}
  BY <1>1, PredictionRange
<1> QED BY <1>1, <1>2 DEF PredictionsAfterSave

\* The slice stays in its range.
LEMMA SliceRange ==
  ASSUME SchedIInv
  PROVE  /\ FreshSlice \in 1 .. quantum_ticks
         /\ remaining_ticks > 1 => remaining_ticks - 1 \in 1 .. quantum_ticks
BY SchedulerAssumption DEF SchedIInv, SchedTypeOK, FreshSlice, quantum_ticks

\* Every way scheduler_schedule_from_context returns keeps the invariant.
LEMMA DispatchIInv ==
  ASSUME SchedIInv, phase = "user", NEW requeue \in BOOLEAN, NEW now \in Uint32,
         Dispatch(now, requeue), pit_ticks' \in Uint32,
         UNCHANGED <<phase, mods_left, first_pcb>>
  PROVE  SchedIInv'
<1> USE SchedulerAssumption
<1> DEFINE queue == QueueAfterSave(requeue)
           saved == StatesAfterSave(requeue)
<1>1. PICK k \in 1 .. Len(queue) :
        /\ ready' = Without(queue, k)
        /\ current_pcb' = queue[k]
        /\ last_dispatch_tick' = [last_dispatch_tick EXCEPT ![queue[k]] = now]
        /\ state' = [saved EXCEPT ![queue[k]] = "RUNNING"]
  BY Zenon DEF Dispatch, SetCurrent
<1>2. /\ predicted_burst' = PredictionsAfterSave(now, requeue)
      /\ remaining_ticks' = FreshSlice
      /\ requeue => Len(ready) < Capacity
  BY DEF Dispatch
<1>3. /\ queue \in Seq(PCBs) /\ NoRepeats(queue) /\ Len(queue) <= Capacity
      /\ saved \in [PCBs -> States]
      /\ \A p \in PCBs :
           /\ InQueue(queue, p) => saved[p] = "READY"
           /\ saved[p] \in {"READY", "RUNNING"} => InQueue(queue, p)
  BY <1>2, AfterSave
<1> HIDE DEF queue, saved
<1>4. queue[k] \in PCBs /\ Len(queue) \in Nat
  BY <1>3, ElementOfSeq, LenProperties
<1>5. /\ ready' \in Seq(PCBs) /\ Len(ready') = Len(queue) - 1 /\ NoRepeats(ready')
      /\ \A q : InQueue(ready', q) <=> InQueue(queue, q) /\ q # queue[k]
  BY <1>1, <1>3, WithoutQueue
<1>6. predicted_burst' \in [PCBs -> Uint32 \ {0}]
  BY <1>2, SavedPredictions
<1>7. SchedTypeOK'
  BY <1>1, <1>2, <1>3, <1>4, <1>5, <1>6, SliceRange
     DEF SchedIInv, SchedTypeOK, States, quantum_ticks
<1>8. QueueInv'
  <2>1. Owner' = queue[k]
    BY <1>1 DEF Owner
  <2>2. \A q \in PCBs : state'[q] = IF q = queue[k] THEN "RUNNING" ELSE saved[q]
    BY <1>1, <1>3, <1>4
  <2>3. ASSUME NEW q \in PCBs
        PROVE  /\ InQueue(ready', q) => q # Owner' /\ state'[q] = "READY"
               /\ Exists(q)' => q = Owner' \/ InQueue(ready', q)
    BY <1>3, <1>5, <2>1, <2>2 DEF Exists
  <2>4. Len(ready') <= Capacity
    BY <1>3, <1>4, <1>5
  <2> QED BY <1>5, <2>3, <2>4 DEF QueueInv
<1>9. BootInv' /\ PhaseInv' /\ NonZeroPredictions'
  BY <1>1, <1>3, <1>4, <1>6 DEF BootInv, PhaseInv, NonZeroPredictions, Exists
<1> QED BY <1>7, <1>8, <1>9 DEF SchedIInv

LEMMA KeepSliceIInv ==
  ASSUME SchedIInv, phase = "user", KeepSlice(TRUE), pit_ticks' \in Uint32,
         UNCHANGED <<phase, mods_left, first_pcb>>
  PROVE  SchedIInv'
<1>1. /\ remaining_ticks > 1 /\ remaining_ticks' = remaining_ticks - 1
      /\ UNCHANGED <<current_pcb, ready, state, predicted_burst, last_dispatch_tick>>
  BY DEF KeepSlice, SliceGoesOn, fields
<1>2. SchedTypeOK'
  BY <1>1, SliceRange, Zenon DEF SchedIInv, SchedTypeOK, quantum_ticks
<1>3. BootInv' /\ QueueInv' /\ PhaseInv' /\ NonZeroPredictions'
  BY <1>1 DEF SchedIInv, BootInv, QueueInv, PhaseInv, NonZeroPredictions, Owner, Exists
<1> QED BY <1>2, <1>3 DEF SchedIInv

LEMMA StayIInv ==
  ASSUME SchedIInv, phase = "user", NEW now \in Uint32,
         StayOnFullQueue(now, TRUE), pit_ticks' \in Uint32,
         UNCHANGED <<phase, mods_left, first_pcb>>
  PROVE  SchedIInv'
<1>1. /\ remaining_ticks' = FreshSlice
      /\ predicted_burst' = PredictionsAfterSave(now, TRUE)
      /\ state' = [state EXCEPT ![current_pcb] = "RUNNING"]
      /\ UNCHANGED <<current_pcb, ready, last_dispatch_tick>>
  BY DEF StayOnFullQueue
<1>2. /\ current_pcb \in PCBs /\ Owner = current_pcb /\ Owner' = current_pcb
      /\ state \in [PCBs -> States]
  BY <1>1 DEF SchedIInv, PhaseInv, Owner, SchedTypeOK
<1>3. predicted_burst' \in [PCBs -> Uint32 \ {0}]
  BY <1>1, SavedPredictions, Zenon
<1>4. SchedTypeOK'
  BY <1>1, <1>2, <1>3, SliceRange, Zenon DEF SchedIInv, SchedTypeOK, States, quantum_ticks
<1>5. QueueInv'
  BY <1>1, <1>2 DEF SchedIInv, QueueInv, Exists
<1>6. BootInv' /\ PhaseInv' /\ NonZeroPredictions'
  BY <1>1, <1>2, <1>3, Zenon DEF BootInv, PhaseInv, NonZeroPredictions, Exists
<1> QED BY <1>4, <1>5, <1>6 DEF SchedIInv

-----------------------------------------------------------------------------
(* Interrupts and system calls *)

LEMMA TickRange == SchedIInv => NextTick \in Uint32 /\ pit_ticks \in Uint32
BY SchedulerAssumption DEF SchedIInv, SchedTypeOK, NextTick, Uint32

LEMMA TimerIInv ==
  ASSUME SchedIInv, TimerInterrupt
  PROVE  SchedIInv'
<1>1. /\ phase = "user" /\ pit_ticks' = NextTick /\ pit_ticks' \in Uint32
      /\ NextTick \in Uint32
      /\ UNCHANGED <<phase, mods_left, first_pcb>>
  BY TickRange DEF TimerInterrupt, boot
<1>2. CASE Preemptive
  BY <1>1, <1>2, KeepSliceIInv, StayIInv, DispatchIInv, Zenon DEF TimerInterrupt
<1>3. CASE ~ Preemptive
  <2>1. UNCHANGED <<current_pcb, ready, remaining_ticks, state, predicted_burst,
                    last_dispatch_tick>>
    BY <1>3 DEF TimerInterrupt, sched, fields
  <2>2. SchedTypeOK'
    BY <1>1, <2>1 DEF SchedIInv, SchedTypeOK
  <2>3. BootInv' /\ QueueInv' /\ PhaseInv' /\ NonZeroPredictions'
    BY <1>1, <2>1 DEF SchedIInv, BootInv, QueueInv, PhaseInv, NonZeroPredictions,
                      Owner, Exists
  <2> QED BY <2>2, <2>3 DEF SchedIInv
<1> QED BY <1>2, <1>3

LEMMA YieldIInv ==
  ASSUME SchedIInv, SysYield
  PROVE  SchedIInv'
<1>1. /\ phase = "user" /\ pit_ticks \in Uint32 /\ pit_ticks' \in Uint32
      /\ UNCHANGED <<phase, mods_left, first_pcb>>
  BY TickRange DEF SysYield, boot
<1> QED BY <1>1, KeepSliceIInv, StayIInv, DispatchIInv, Zenon DEF SysYield

LEMMA ExitIInv ==
  ASSUME SchedIInv, SysExit
  PROVE  SchedIInv'
<1> USE SchedulerAssumption
<1>1. /\ phase = "user" /\ pit_ticks \in Uint32 /\ pit_ticks' \in Uint32
      /\ UNCHANGED <<mods_left, first_pcb, pit_ticks>>
  BY TickRange DEF SysExit
<1>2. CASE Dispatch(pit_ticks, FALSE) /\ UNCHANGED phase
  BY <1>1, <1>2, DispatchIInv, Zenon
<1>3. CASE NothingReady(FALSE) /\ phase' = "halted"
  <2>1. /\ ready = << >>
        /\ state' = [state EXCEPT ![current_pcb] = "RUNNING"]
        /\ UNCHANGED <<current_pcb, ready, remaining_ticks, predicted_burst,
                       last_dispatch_tick>>
    BY <1>3 DEF NothingReady, sched
  <2>2. /\ current_pcb \in PCBs /\ Owner = current_pcb /\ Owner' = current_pcb
        /\ state \in [PCBs -> States]
    BY <1>1, <1>3, <2>1 DEF SchedIInv, PhaseInv, Owner, SchedTypeOK
  <2>3. SchedTypeOK'
    BY <1>1, <1>3, <2>1, <2>2 DEF SchedIInv, SchedTypeOK, States
  <2>4. QueueInv'
    BY <2>1, <2>2 DEF SchedIInv, QueueInv, Exists
  <2>5. BootInv' /\ PhaseInv' /\ NonZeroPredictions'
    BY <1>3, <2>1 DEF SchedIInv, BootInv, PhaseInv, NonZeroPredictions
  <2> QED BY <2>3, <2>4, <2>5 DEF SchedIInv
<1> QED BY <1>2, <1>3, Zenon DEF SysExit

LEMMA ForkIInv ==
  ASSUME SchedIInv, NEW child \in PCBs, SysFork(child)
  PROVE  SchedIInv'
<1> USE SchedulerAssumption
<1>1. /\ phase = "user" /\ state[child] = "NONE" /\ Len(ready) < Capacity
      /\ state' = [state EXCEPT ![child] = "READY"]
      /\ predicted_burst' =
           [predicted_burst EXCEPT ![child] = predicted_burst[current_pcb]]
      /\ last_dispatch_tick' =
           [last_dispatch_tick EXCEPT ![child] = last_dispatch_tick[current_pcb]]
      /\ ready' = Append(ready, child)
      /\ UNCHANGED <<phase, mods_left, first_pcb, current_pcb, remaining_ticks,
                     pit_ticks>>
  BY DEF SysFork, boot
<1>2. /\ current_pcb \in PCBs /\ Exists(current_pcb)
      /\ Owner = current_pcb /\ Owner' = current_pcb
      /\ state \in [PCBs -> States]
      /\ predicted_burst \in [PCBs -> Uint32]
      /\ last_dispatch_tick \in [PCBs -> Uint32]
      /\ ready \in Seq(PCBs) /\ Len(ready) \in Nat /\ NoRepeats(ready)
  BY <1>1, LenProperties DEF SchedIInv, PhaseInv, Owner, SchedTypeOK, QueueInv
<1>3. ~ InQueue(ready, child) /\ child # current_pcb
  BY <1>1, <1>2 DEF SchedIInv, QueueInv, Exists
<1>4. /\ ready' \in Seq(PCBs) /\ Len(ready') = Len(ready) + 1 /\ NoRepeats(ready')
      /\ \A q : InQueue(ready', q) <=> InQueue(ready, q) \/ q = child
  BY <1>1, <1>2, <1>3, AppendQueue
<1>5. SchedTypeOK'
  BY <1>1, <1>2, <1>4 DEF SchedIInv, SchedTypeOK, States
<1>6. QueueInv'
  <2>1. \A q \in PCBs : state'[q] = IF q = child THEN "READY" ELSE state[q]
    BY <1>1, <1>2
  <2>2. ASSUME NEW q \in PCBs
        PROVE  /\ InQueue(ready', q) => q # Owner' /\ state'[q] = "READY"
               /\ Exists(q)' => q = Owner' \/ InQueue(ready', q)
    BY <1>2, <1>3, <1>4, <2>1 DEF SchedIInv, QueueInv, Exists
  <2>3. Len(ready') <= Capacity
    BY <1>1, <1>2, <1>4
  <2> QED BY <1>4, <2>2, <2>3 DEF QueueInv
<1>7. BootInv' /\ PhaseInv' /\ NonZeroPredictions'
  BY <1>1, <1>2, <1>3 DEF SchedIInv, BootInv, PhaseInv, NonZeroPredictions, Exists
<1> QED BY <1>5, <1>6, <1>7 DEF SchedIInv

LEMMA ExecIInv ==
  ASSUME SchedIInv, SysExec
  PROVE  SchedIInv'
<1>1. /\ phase = "user" /\ state' = [state EXCEPT ![current_pcb] = "READY"]
      /\ UNCHANGED <<phase, mods_left, first_pcb, current_pcb, ready,
                     remaining_ticks, pit_ticks, predicted_burst, last_dispatch_tick>>
  BY DEF SysExec, boot, sched
<1>2. /\ current_pcb \in PCBs /\ Owner = current_pcb /\ Owner' = current_pcb
      /\ state \in [PCBs -> States]
  BY <1>1 DEF SchedIInv, PhaseInv, Owner, SchedTypeOK
<1>3. SchedTypeOK'
  BY <1>1, <1>2 DEF SchedIInv, SchedTypeOK, States
<1>4. QueueInv'
  BY <1>1, <1>2 DEF SchedIInv, QueueInv, Exists
<1>5. BootInv' /\ PhaseInv' /\ NonZeroPredictions'
  BY <1>1, <1>2 DEF SchedIInv, BootInv, PhaseInv, NonZeroPredictions, Exists
<1> QED BY <1>3, <1>4, <1>5 DEF SchedIInv

LEMMA SchedStutterIInv ==
  ASSUME SchedIInv, UNCHANGED schedVars
  PROVE  SchedIInv'
BY DEF SchedIInv, SchedTypeOK, BootInv, QueueInv, PhaseInv, NonZeroPredictions,
       Owner, Exists, schedVars, boot, sched, fields

\* The invariant is inductive.
LEMMA SchedNextIInv == SchedIInv /\ [SchedNext]_schedVars => SchedIInv'
<1> SUFFICES ASSUME SchedIInv, [SchedNext]_schedVars PROVE SchedIInv'
  OBVIOUS
<1>1. CASE BootSkipsModule
  BY <1>1, BootSkipsModuleIInv
<1>2. CASE \E p \in PCBs : BootModule(p)
  BY <1>2, BootModuleIInv
<1>3. CASE BootRuns \/ BootHalts
  BY <1>3, BootEndsIInv
<1>4. CASE TimerInterrupt
  BY <1>4, TimerIInv
<1>5. CASE SysYield
  BY <1>5, YieldIInv
<1>6. CASE SysExit
  BY <1>6, ExitIInv
<1>7. CASE \E p \in PCBs : SysFork(p)
  BY <1>7, ForkIInv
<1>8. CASE SysExec
  BY <1>8, ExecIInv
<1>9. CASE Hlt \/ UNCHANGED schedVars
  BY <1>9, SchedStutterIInv DEF Hlt
<1> QED BY <1>1, <1>2, <1>3, <1>4, <1>5, <1>6, <1>7, <1>8, <1>9 DEF SchedNext

\* Theorem: the inductive invariant holds in every reachable state.
THEOREM SchedInvariant == SchedSpec => []SchedIInv
BY SchedInitIInv, SchedNextIInv, PTL DEF SchedSpec

\* Theorem: types, the ranges of the slice and of the tick counter included.
THEOREM SchedTypes == SchedSpec => []SchedTypeOK
BY SchedInvariant, PTL DEF SchedIInv

\* Theorem: the ready queue never holds a PCB twice, nor the running process,
\* nor one that is not READY.
THEOREM QueueIsSound == SchedSpec => []ReadyQueueSound
BY SchedInvariant, SchedIInvImplies, PTL

\* Theorem: no process is lost, at a full queue either, and the kernel halts
\* only when none is left to run.
THEOREM NoneLost == SchedSpec => []NoProcessLost
BY SchedInvariant, SchedIInvImplies, PTL

\* Theorem: dequeue_sjf compares real predictions only, although the average
\* is computed modulo 2^32.
THEOREM KeysAreReal == SchedSpec => []QueuedKeysAreReal
BY SchedInvariant, SchedIInvImplies, PTL

-----------------------------------------------------------------------------
(* When the queue has room for every process *)

\* A queue that holds no PCB twice and leaves one out is shorter than the
\* number of PCBs.
LEMMA QueueHasRoom ==
  ASSUME NEW S, IsFiniteSet(S), NEW s \in Seq(S), NEW e \in S,
         NoRepeats(s), ~ InQueue(s, e)
  PROVE  Len(s) < Cardinality(S)
<1> DEFINE t == Append(s, e)
<1>1. t \in Seq(S) /\ Len(t) = Len(s) + 1 /\ NoRepeats(t)
  BY AppendQueue
<1>2. Len(s) \in Nat
  BY LenProperties
<1> HIDE DEF t
<1>3. t \in [1 .. Len(t) -> S] /\ DOMAIN t = 1 .. Len(t)
  BY <1>1, LenProperties
<1>4. t \in Injection(1 .. Len(t), S)
  BY <1>1, <1>3 DEF Injection, IsInjective, NoRepeats
<1>5. Cardinality(1 .. Len(t)) <= Cardinality(S)
  BY <1>4, FS_Injection
<1>6. Cardinality(1 .. Len(t)) = Len(t)
  <2>1. 1 \in Int /\ Len(t) \in Int /\ Len(t) >= 1
    BY <1>1, <1>2
  <2> QED BY <2>1, FS_Interval
<1>7. Cardinality(S) \in Nat
  BY FS_CardinalityType
<1> QED BY <1>1, <1>2, <1>5, <1>6, <1>7

\* So with at most Capacity PCBs, a handler never finds the queue full.
LEMMA NeverFull ==
  ASSUME IsFiniteSet(PCBs), Cardinality(PCBs) <= Capacity,
         SchedIInv, phase = "user"
  PROVE  Len(ready) < Capacity
<1>1. /\ ready \in Seq(PCBs) /\ NoRepeats(ready) /\ current_pcb \in PCBs
      /\ ~ InQueue(ready, current_pcb)
  BY DEF SchedIInv, SchedTypeOK, QueueInv, PhaseInv, Owner
<1>2. Len(ready) < Cardinality(PCBs)
  BY <1>1, QueueHasRoom
<1>3. Len(ready) \in Nat /\ Cardinality(PCBs) \in Nat
  BY <1>1, LenProperties, FS_CardinalityType
<1> QED BY <1>2, <1>3, SchedulerAssumption

-----------------------------------------------------------------------------
(* Who runs next *)

\* A dispatch that takes the first of the queue hands the processor to the
\* process that has waited longest, or back to the current one.
LEMMA FirstIsOldest ==
  ASSUME SchedIInv, phase = "user", NEW requeue \in BOOLEAN,
         1 \in 1 .. Len(QueueAfterSave(requeue)),
         QueueAfterSave(requeue)[1] # current_pcb
  PROVE  QueueAfterSave(requeue)[1] = Head(ready)
<1>1. ready \in Seq(PCBs) /\ Len(ready) \in Nat /\ current_pcb \in PCBs
  BY LenProperties DEF SchedIInv, SchedTypeOK, PhaseInv
<1>2. CASE ready = << >>
  <2>1. Len(ready) = 0
    BY <1>2, EmptySeq
  <2>2. CASE requeue
    BY <1>1, <2>1, <2>2, AppendProperties DEF QueueAfterSave
  <2>3. CASE ~ requeue
    BY <2>1, <2>3 DEF QueueAfterSave
  <2> QED BY <2>2, <2>3
<1>3. CASE ready # << >>
  <2>1. 1 \in 1 .. Len(ready) /\ Head(ready) = ready[1]
    BY <1>1, <1>3, EmptySeq
  <2>2. Append(ready, current_pcb)[1] = ready[1]
    BY <1>1, <2>1, AppendProperties
  <2> QED BY <2>1, <2>2 DEF QueueAfterSave
<1> QED BY <1>2, <1>3

\* The condition that makes SJF take the first: all keys in the queue equal.
EqualKeys ==
  phase = "user" =>
    \A now \in {pit_ticks, NextTick}, requeue \in BOOLEAN :
      PredictionsAfterSave(now, requeue) = [p \in PCBs |-> 1]

LEMMA DispatchTakesOldest ==
  ASSUME SchedIInv, phase = "user", NEW requeue \in BOOLEAN,
         NEW now \in {pit_ticks, NextTick}, Dispatch(now, requeue),
         Policy # "SJF" \/ EqualKeys
  PROVE  current_pcb' # current_pcb => current_pcb' = Head(ready)
<1> USE SchedulerAssumption
<1> DEFINE queue == QueueAfterSave(requeue)
           key == SjfKey(StatesAfterSave(requeue), PredictionsAfterSave(now, requeue))
<1>1. PICK k \in 1 .. Len(queue) : Picks(queue, key, k) /\ current_pcb' = queue[k]
  BY DEF Dispatch, SetCurrent
<1>2. requeue => Len(ready) < Capacity
  BY DEF Dispatch
<1>3. k = 1
  <2>1. CASE Policy # "SJF"
    BY <1>1, <2>1 DEF Picks
  <2>2. CASE Policy = "SJF"
    <3>2. PredictionsAfterSave(now, requeue) = [p \in PCBs |-> 1]
      BY <2>2 DEF EqualKeys
    <3>3. /\ queue \in Seq(PCBs)
          /\ \A p \in PCBs : InQueue(queue, p) => StatesAfterSave(requeue)[p] = "READY"
      BY <1>2, AfterSave
    <3>4. ASSUME NEW j \in 1 .. Len(queue) PROVE key[queue[j]] = 1
      <4>1. queue[j] \in PCBs /\ InQueue(queue, queue[j])
        BY <3>3, ElementOfSeq DEF InQueue
      <4> QED BY <3>2, <3>3, <4>1 DEF SjfKey
    <3>5. \A j \in 1 .. k - 1 : key[queue[k]] < key[queue[j]]
      BY <1>1, <2>2 DEF Picks, IsShortest
    <3>6. Len(queue) \in Nat
      BY <3>3, LenProperties
    <3> HIDE DEF queue, key
    <3>7. \A j \in 1 .. k - 1 : j \in 1 .. Len(queue)
      BY <3>6
    <3> QED BY <3>4, <3>5, <3>6, <3>7
  <2> QED BY <2>1, <2>2
<1> QED BY <1>1, <1>3, FirstIsOldest

LEMMA StepTakesOldest ==
  ASSUME SchedIInv, [SchedNext]_schedVars, Policy # "SJF" \/ EqualKeys
  PROVE  phase = "user" /\ current_pcb' # current_pcb => current_pcb' = Head(ready)
<1> SUFFICES ASSUME phase = "user", current_pcb' # current_pcb
             PROVE  current_pcb' = Head(ready)
  OBVIOUS
<1>1. ~ (BootSkipsModule \/ (\E p \in PCBs : BootModule(p)) \/ BootRuns \/ BootHalts \/ Hlt)
  BY DEF BootSkipsModule, BootModule, BootRuns, BootHalts, Hlt
<1>2. ~ ((\E p \in PCBs : SysFork(p)) \/ SysExec \/ UNCHANGED schedVars)
  BY DEF SysFork, SysExec, sched, schedVars
<1>3. CASE TimerInterrupt
  <2>1. Dispatch(NextTick, TRUE)
    BY <1>3, Zenon DEF TimerInterrupt, KeepSlice, StayOnFullQueue, sched
  <2> QED BY <2>1, DispatchTakesOldest, Zenon
<1>4. CASE SysYield
  <2>1. Dispatch(pit_ticks, TRUE)
    BY <1>4, Zenon DEF SysYield, KeepSlice, StayOnFullQueue
  <2> QED BY <2>1, DispatchTakesOldest, Zenon
<1>5. CASE SysExit
  <2>1. Dispatch(pit_ticks, FALSE)
    BY <1>5, Zenon DEF SysExit, NothingReady, sched
  <2> QED BY <2>1, DispatchTakesOldest, Zenon
<1> QED BY <1>1, <1>2, <1>3, <1>4, <1>5 DEF SchedNext

\* Theorem: under FCFS and RR, for any number of processes and with the queue
\* full or not, whoever gets the processor is the one that has waited longest.
THEOREM FifoOldestFirst ==
  ASSUME Policy # "SJF"
  PROVE  SchedSpec => OldestFirst
<1>1. SchedIInv /\ [SchedNext]_schedVars =>
        [phase = "user" /\ current_pcb' # current_pcb
           => current_pcb' = Head(ready)]_schedVars
  BY StepTakesOldest
<1> QED BY <1>1, SchedInvariant, PTL DEF SchedSpec, OldestFirst

\* With a tick ending every burst, the running process was dispatched at the
\* current tick and every prediction is 1.
PinnedInv ==
  /\ predicted_burst = [p \in PCBs |-> 1]
  /\ phase = "user" => last_dispatch_tick[current_pcb] = pit_ticks

\* A burst of at most one tick leaves a prediction of 1 as it is, when the
\* tick counter wraps and when the sum does.
LEMMA PinnedKeys ==
  SchedIInv /\ PinnedInv => EqualKeys
<1> SUFFICES ASSUME SchedIInv, PinnedInv, phase = "user",
                    NEW now \in {pit_ticks, NextTick}, NEW requeue \in BOOLEAN
             PROVE  PredictionsAfterSave(now, requeue) = [p \in PCBs |-> 1]
  BY DEF EqualKeys
<1> USE SchedulerAssumption
<1>1. /\ current_pcb \in PCBs /\ predicted_burst = [p \in PCBs |-> 1]
      /\ last_dispatch_tick[current_pcb] = pit_ticks /\ pit_ticks \in Uint32
      /\ predicted_burst[current_pcb] = 1
  BY DEF SchedIInv, PhaseInv, SchedTypeOK, PinnedInv
<1>2. now = pit_ticks \/ now = 0 \/ now = pit_ticks + 1
  BY <1>1 DEF NextTick, Uint32
<1>3. (IF now > last_dispatch_tick[current_pcb]
       THEN now - last_dispatch_tick[current_pcb] ELSE 1) = 1
  BY <1>1, <1>2 DEF Uint32
<1>4. ((1 + 1) % UintMod) \div 2 \in {0, 1}
  <2>1. (1 + 1) % UintMod \in {0, 2}
    OBVIOUS
  <2> QED BY <2>1
<1>5. UpdatedPrediction(current_pcb, now) = 1
  BY <1>1, <1>3, <1>4 DEF UpdatedPrediction
<1> QED BY <1>1, <1>5 DEF PredictionsAfterSave

LEMMA PinnedNext ==
  ASSUME IsFiniteSet(PCBs), Cardinality(PCBs) <= Capacity,
         Preemptive, Policy = "SJF",
         SchedIInv, SchedIInv', PinnedInv, [SchedNext]_schedVars
  PROVE  PinnedInv'
<1> USE SchedulerAssumption
<1>1. /\ predicted_burst = [p \in PCBs |-> 1]
      /\ last_dispatch_tick \in [PCBs -> Uint32]
  BY DEF PinnedInv, SchedIInv, SchedTypeOK
<1>2. ASSUME phase = "user", NEW now \in {pit_ticks, NextTick},
             NEW requeue \in BOOLEAN, Dispatch(now, requeue), pit_ticks' = now
      PROVE  PinnedInv'
  <2>1. predicted_burst' = [p \in PCBs |-> 1]
    BY <1>2, PinnedKeys DEF Dispatch, EqualKeys
  <2>2. last_dispatch_tick' = [last_dispatch_tick EXCEPT ![current_pcb'] = now]
    BY <1>2 DEF Dispatch, SetCurrent
  <2>3. CASE phase' = "user"
    <3>1. current_pcb' \in PCBs
      BY <2>3 DEF SchedIInv, PhaseInv
    <3> QED BY <1>1, <1>2, <2>1, <2>2, <3>1 DEF PinnedInv
  <2>4. CASE phase' # "user"
    BY <2>1, <2>4 DEF PinnedInv
  <2> QED BY <2>3, <2>4
<1>3. phase = "user" => ~ KeepSlice(TRUE) /\ \A now : ~ StayOnFullQueue(now, TRUE)
  <2>1. phase = "user" => Len(ready) < Capacity
    BY NeverFull
  <2>2. Len(ready) \in Nat
    BY LenProperties DEF SchedIInv, SchedTypeOK
  <2>3. phase = "user" => ~ (Len(ready) >= Capacity)
    BY <2>1, <2>2
  <2>4. phase = "user" => ~ KeepSlice(TRUE)
    BY DEF KeepSlice, SliceGoesOn
  <2>5. phase = "user" => \A now : ~ StayOnFullQueue(now, TRUE)
    BY <2>3, Zenon DEF StayOnFullQueue
  <2> QED BY <2>4, <2>5, Zenon
<1>4. CASE BootSkipsModule \/ BootHalts
  BY <1>4 DEF BootSkipsModule, BootHalts, PinnedInv, sched, fields
<1>5. CASE \E p \in PCBs : BootModule(p)
  BY <1>1, <1>5 DEF BootModule, PinnedInv
<1>6. CASE BootRuns
  <2>1. first_pcb \in PCBs
    BY <1>6 DEF BootRuns, SchedIInv, SchedTypeOK
  <2> QED BY <1>1, <1>6, <2>1 DEF BootRuns, PinnedInv
<1>7. CASE TimerInterrupt
  BY <1>2, <1>3, <1>7, Zenon DEF TimerInterrupt
<1>8. CASE SysYield
  BY <1>2, <1>3, <1>8, Zenon DEF SysYield
<1>9. CASE SysExit
  <2>1. CASE Dispatch(pit_ticks, FALSE)
    BY <1>2, <1>9, <2>1, Zenon DEF SysExit
  <2>2. CASE NothingReady(FALSE) /\ phase' = "halted"
    BY <1>1, <2>2 DEF NothingReady, PinnedInv
  <2> QED BY <1>9, <2>1, <2>2, Zenon DEF SysExit
<1>10. ASSUME NEW child \in PCBs, SysFork(child) PROVE PinnedInv'
  <2>1. /\ phase = "user" /\ state[child] = "NONE"
        /\ UNCHANGED <<phase, current_pcb, pit_ticks>>
    BY <1>10 DEF SysFork, boot
  <2>2. current_pcb \in PCBs /\ child # current_pcb
    BY <2>1 DEF SchedIInv, PhaseInv, Exists
  <2>3. predicted_burst' = [p \in PCBs |-> 1]
    BY <1>1, <1>10, <2>2 DEF SysFork
  <2>4. last_dispatch_tick'[current_pcb] = last_dispatch_tick[current_pcb]
    BY <1>1, <1>10, <2>2 DEF SysFork
  <2> QED BY <2>1, <2>3, <2>4 DEF PinnedInv
<1>11. CASE SysExec
  BY <1>11 DEF SysExec, boot, sched, PinnedInv
<1>12. CASE Hlt \/ UNCHANGED schedVars
  BY <1>12 DEF Hlt, schedVars, boot, sched, fields, PinnedInv
<1> QED BY <1>4, <1>5, <1>6, <1>7, <1>8, <1>9, <1>10, <1>11, <1>12 DEF SchedNext

\* Theorem: in the shipped configuration (preemptive SJF) with at most
\* Capacity processes, every prediction stays 1 for ever.
THEOREM ShippedPredictions ==
  ASSUME IsFiniteSet(PCBs), Cardinality(PCBs) <= Capacity,
         Preemptive, Policy = "SJF"
  PROVE  SchedSpec => []PredictionsPinned /\ []PinnedInv
<1>1. SchedInit => PinnedInv
  BY DEF SchedInit, PinnedInv
<1>2. SchedIInv /\ SchedIInv' /\ PinnedInv /\ [SchedNext]_schedVars => PinnedInv'
  BY PinnedNext
<1>3. PinnedInv => PredictionsPinned
  BY DEF PinnedInv, PredictionsPinned
<1> QED BY <1>1, <1>2, <1>3, SchedInvariant, PTL DEF SchedSpec

\* Theorem: so the shipped SJF schedules exactly in FIFO order.
THEOREM ShippedOldestFirst ==
  ASSUME IsFiniteSet(PCBs), Cardinality(PCBs) <= Capacity,
         Preemptive, Policy = "SJF"
  PROVE  SchedSpec => OldestFirst
<1>1. SchedIInv /\ PinnedInv /\ [SchedNext]_schedVars =>
        [phase = "user" /\ current_pcb' # current_pcb
           => current_pcb' = Head(ready)]_schedVars
  BY StepTakesOldest, PinnedKeys
<1>2. SchedSpec => []PinnedInv
  BY ShippedPredictions, PTL
<1> QED BY <1>1, <1>2, SchedInvariant, PTL DEF SchedSpec, OldestFirst

-----------------------------------------------------------------------------
(* The round robin quantum *)

\* The distance between two readings of the tick counter, across its wrap.
LEMMA TickDistance ==
  ASSUME NEW a \in Uint32, NEW b \in Uint32
  PROVE  (a - b) % UintMod = IF a >= b THEN a - b ELSE (a - b) + UintMod
<1> USE SchedulerAssumption
<1>1. CASE a >= b
  BY <1>1 DEF Uint32
<1>2. CASE a < b
  BY <1>2 DEF Uint32
<1> QED BY <1>1, <1>2 DEF Uint32

\* One tick later it is one more, unless that is a whole turn of the counter.
LEMMA OneTickLater ==
  ASSUME NEW a \in Uint32, NEW b \in Uint32, ((a - b) % UintMod) + 1 < UintMod
  PROVE  (((a + 1) % UintMod) - b) % UintMod = ((a - b) % UintMod) + 1
<1> USE SchedulerAssumption
<1>1. (a + 1) % UintMod = IF a + 1 = UintMod THEN 0 ELSE a + 1
  BY DEF Uint32
<1>2. (a + 1) % UintMod \in Uint32
  BY <1>1 DEF Uint32
<1>3. (((a + 1) % UintMod) - b) % UintMod =
        IF (a + 1) % UintMod >= b THEN ((a + 1) % UintMod) - b
        ELSE (((a + 1) % UintMod) - b) + UintMod
  BY <1>2, TickDistance
<1>4. (a - b) % UintMod = IF a >= b THEN a - b ELSE (a - b) + UintMod
  BY TickDistance
<1> QED BY <1>1, <1>3, <1>4 DEF Uint32

LEMMA QuantumNext ==
  ASSUME IsFiniteSet(PCBs), Cardinality(PCBs) <= Capacity,
         Preemptive, Policy = "RR", quantum_ticks < UintMod,
         SchedIInv, SchedIInv', QuantumBound, [SchedNext]_schedVars
  PROVE  QuantumBound'
<1> USE SchedulerAssumption
<1>1. /\ last_dispatch_tick \in [PCBs -> Uint32] /\ pit_ticks \in Uint32
      /\ remaining_ticks \in 1 .. quantum_ticks /\ quantum_ticks \in Nat
      /\ phase = "user" => current_pcb \in PCBs
      /\ phase' = "user" => current_pcb' \in PCBs
      /\ remaining_ticks' \in 1 .. quantum_ticks /\ pit_ticks' \in Uint32
  BY DEF SchedIInv, PhaseInv, SchedTypeOK, quantum_ticks
<1>2. ASSUME phase' = "user", last_dispatch_tick'[current_pcb'] = pit_ticks'
      PROVE  QuantumBound'
  <2>1. \A a \in Uint32 : (a - a) % UintMod = 0
    BY TickDistance DEF Uint32
  <2>2. (pit_ticks' - last_dispatch_tick'[current_pcb']) % UintMod = 0
    BY <1>1, <1>2, <2>1
  <2> QED BY <1>1, <2>2 DEF QuantumBound, TicksSinceDispatch, quantum_ticks
<1>3. ASSUME NEW now, NEW requeue \in BOOLEAN, Dispatch(now, requeue), pit_ticks' = now
      PROVE  QuantumBound'
  <2>1. CASE phase' = "user"
    <3>1. last_dispatch_tick'[current_pcb'] = now
      BY <1>1, <1>3, <2>1, Zenon DEF Dispatch, SetCurrent
    <3> QED BY <1>2, <1>3, <2>1, <3>1
  <2>2. CASE phase' # "user"
    BY <2>2 DEF QuantumBound
  <2> QED BY <2>1, <2>2
<1>4. phase = "user" => \A now : ~ StayOnFullQueue(now, TRUE)
  <2>1. phase = "user" => Len(ready) < Capacity
    BY NeverFull
  <2>2. Len(ready) \in Nat
    BY LenProperties DEF SchedIInv, SchedTypeOK
  <2>3. phase = "user" => ~ (Len(ready) >= Capacity)
    BY <2>1, <2>2
  <2> QED BY <2>3, Zenon DEF StayOnFullQueue
<1>5. ASSUME phase = "user", KeepSlice(TRUE), phase' = phase,
             pit_ticks' \in {pit_ticks, NextTick}
      PROVE  QuantumBound'
  <2> DEFINE last == last_dispatch_tick[current_pcb]
  <2>1. /\ remaining_ticks > 1 /\ remaining_ticks' = remaining_ticks - 1
        /\ current_pcb' = current_pcb /\ last_dispatch_tick' = last_dispatch_tick
        /\ last \in Uint32
    BY <1>1, <1>5 DEF KeepSlice, SliceGoesOn, fields
  <2>2. ((pit_ticks - last) % UintMod) + remaining_ticks <= quantum_ticks
    BY <1>5 DEF QuantumBound, TicksSinceDispatch
  <2>3. (pit_ticks - last) % UintMod \in Nat
    BY <1>1, <2>1, TickDistance DEF Uint32
  <2>4. ((pit_ticks - last) % UintMod) + 1 < UintMod
    BY <1>1, <2>1, <2>2, <2>3
  <2>5. (NextTick - last) % UintMod = ((pit_ticks - last) % UintMod) + 1
    BY <1>1, <2>1, <2>4, OneTickLater DEF NextTick
  <2>6. (pit_ticks' - last) % UintMod \in
          {(pit_ticks - last) % UintMod, ((pit_ticks - last) % UintMod) + 1}
    BY <1>5, <2>5
  <2> HIDE DEF last
  <2>7. ((pit_ticks' - last) % UintMod) + remaining_ticks' <= quantum_ticks
    BY <1>1, <2>1, <2>2, <2>3, <2>6
  <2> QED BY <2>1, <2>7 DEF QuantumBound, TicksSinceDispatch, quantum_ticks, last
<1>6. CASE BootSkipsModule \/ BootHalts \/ \E p \in PCBs : BootModule(p)
  BY <1>6 DEF BootSkipsModule, BootHalts, BootModule, QuantumBound
<1>7. CASE BootRuns
  <2>1. first_pcb \in PCBs
    BY <1>7 DEF BootRuns, SchedIInv, SchedTypeOK
  <2> QED BY <1>1, <1>2, <1>7, <2>1 DEF BootRuns
<1>8. CASE TimerInterrupt
  BY <1>3, <1>4, <1>5, <1>8, Zenon DEF TimerInterrupt, boot
<1>9. CASE SysYield
  BY <1>3, <1>4, <1>5, <1>9, Zenon DEF SysYield, boot
<1>10. CASE SysExit
  <2>1. CASE Dispatch(pit_ticks, FALSE)
    BY <1>3, <1>10, <2>1, Zenon DEF SysExit
  <2>2. CASE phase' = "halted"
    BY <2>2 DEF QuantumBound
  <2> QED BY <1>10, <2>1, <2>2, Zenon DEF SysExit
<1>11. ASSUME NEW child \in PCBs, SysFork(child) PROVE QuantumBound'
  <2>1. /\ phase = "user" /\ state[child] = "NONE"
        /\ UNCHANGED <<phase, current_pcb, pit_ticks, remaining_ticks>>
    BY <1>11 DEF SysFork, boot
  <2>2. current_pcb \in PCBs /\ child # current_pcb
    BY <2>1 DEF SchedIInv, PhaseInv, Exists
  <2>3. last_dispatch_tick'[current_pcb] = last_dispatch_tick[current_pcb]
    BY <1>1, <1>11, <2>2 DEF SysFork
  <2> QED BY <2>1, <2>3 DEF QuantumBound, TicksSinceDispatch, quantum_ticks
<1>12. CASE SysExec
  BY <1>12 DEF SysExec, boot, sched, QuantumBound, TicksSinceDispatch, quantum_ticks
<1>13. CASE Hlt \/ UNCHANGED schedVars
  BY <1>13 DEF Hlt, schedVars, boot, sched, fields, QuantumBound,
               TicksSinceDispatch, quantum_ticks
<1> QED BY <1>3, <1>6, <1>7, <1>8, <1>9, <1>10, <1>11, <1>12, <1>13 DEF SchedNext

\* Theorem: under preemptive RR with at most Capacity processes and a quantum
\* the tick counter can hold, no process is ever more ticks into its turn
\* than the quantum, wrap of the counter included.
THEOREM QuantumIsKept ==
  ASSUME IsFiniteSet(PCBs), Cardinality(PCBs) <= Capacity,
         Preemptive, Policy = "RR", quantum_ticks < UintMod
  PROVE  SchedSpec => []QuantumBound
<1>1. SchedInit => QuantumBound
  BY DEF SchedInit, QuantumBound
<1>2. SchedIInv /\ SchedIInv' /\ QuantumBound /\ [SchedNext]_schedVars
        => QuantumBound'
  BY QuantumNext
<1> QED BY <1>1, <1>2, SchedInvariant, PTL DEF SchedSpec
=============================================================================
