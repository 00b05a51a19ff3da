------------------------------ MODULE Scheduler ------------------------------
(***************************************************************************)
(* scheduler.c driven by everything that drives it: kmain.c creating the   *)
(* PCBs of the boot modules, the PIT interrupt, and the system calls that  *)
(* create, replace, yield and end processes.  Every handler runs with      *)
(* interrupts off (interrupt gates, no sti), so each is one action.  The   *)
(* ready queue is the list that ReadyQueue.tla implements.  Registers,     *)
(* address spaces and pids are added by Kernel.tla.                        *)
(***************************************************************************)
EXTENDS Integers, QueueOps

CONSTANTS
  PCBs,        \* the PCBs the kernel heap can hold, one per process ever made
  NULL,        \* the null pointer
  Capacity,    \* SCHEDULER_READY_QUEUE_CAPACITY
  Policy,      \* what kmain passes to scheduler_set_policy
  Quantum,     \* what kmain passes to scheduler_set_quantum
  Preemptive,  \* whether kmain calls kernel_enable_preemption
  NumModules,  \* mods_count, the boot modules given by GRUB
  UintMod      \* 2^32, the modulus of uint32_t (scaled down for TLC)

ASSUME SchedulerAssumption ==
  /\ NULL \notin PCBs
  /\ Capacity \in Nat \ {0}
  /\ Policy \in {"FCFS", "SJF", "RR"}
  /\ Quantum \in Nat
  /\ Preemptive \in BOOLEAN
  /\ NumModules \in Nat
  /\ UintMod \in Nat /\ UintMod > 1

VARIABLES
  phase,        \* "boot" in kmain, "user" in ring 3, "halted" in hlt for ever
  mods_left,    \* the boot modules kmain has still to create
  first_pcb,    \* kmain's local
  current_pcb,
  ready,        \* the ready queue
  remaining_ticks,
  pit_ticks,
  state, predicted_burst, last_dispatch_tick    \* fields of every PCB

boot == <<phase, mods_left, first_pcb>>
sched == <<current_pcb, ready, remaining_ticks>>
fields == <<state, predicted_burst, last_dispatch_tick>>
schedVars == <<boot, sched, pit_ticks, fields>>

Uint32 == 0 .. UintMod - 1

\* scheduler_set_quantum
quantum_ticks == IF Quantum = 0 THEN 1 ELSE Quantum

States == {"NONE", "READY", "RUNNING", "TERMINATED"}

SchedTypeOK ==
  /\ phase \in {"boot", "user", "halted"}
  /\ mods_left \in 0 .. NumModules
  /\ first_pcb \in PCBs \cup {NULL}
  /\ current_pcb \in PCBs \cup {NULL}
  /\ ready \in Seq(PCBs)
  /\ remaining_ticks \in 1 .. quantum_ticks
  /\ pit_ticks \in Uint32
  /\ state \in [PCBs -> States]
  /\ predicted_burst \in [PCBs -> Uint32]
  /\ last_dispatch_tick \in [PCBs -> Uint32]

SchedInit ==
  /\ phase = "boot"
  /\ mods_left = NumModules
  /\ first_pcb = NULL
  /\ current_pcb = NULL
  /\ ready = << >>
  /\ remaining_ticks = quantum_ticks
  /\ pit_ticks = 0
  /\ state = [p \in PCBs |-> "NONE"]
  /\ predicted_burst = [p \in PCBs |-> 1]
  /\ last_dispatch_tick = [p \in PCBs |-> 0]

-----------------------------------------------------------------------------
(* Burst prediction *)

\* predicted_burst_for_sjf of every PCB, given their states and predictions.
SjfKey(st, predicted) ==
  [p \in PCBs |-> IF st[p] # "READY" \/ predicted[p] = 0
                  THEN UintMod - 1 ELSE predicted[p]]

\* Mutant: the prediction is not clamped to 1.
PredictionUnclamped(p, now) ==
  LET elapsed == IF now > last_dispatch_tick[p]
                 THEN now - last_dispatch_tick[p] ELSE 1
  IN IF predicted_burst[p] = 0
     THEN elapsed
     ELSE ((predicted_burst[p] + elapsed) % UintMod) \div 2

\* Mutant: the elapsed time counts the tick of the dispatch as well, and the
\* average is rounded up.
PredictionOneTickMore(p, now) ==
  LET elapsed == IF now >= last_dispatch_tick[p]
                 THEN (now - last_dispatch_tick[p]) + 1 ELSE 1
  IN IF predicted_burst[p] = 0
     THEN elapsed
     ELSE ((predicted_burst[p] + elapsed + 1) % UintMod) \div 2

\* scheduler_update_burst_prediction: the exponential average with
\* alpha = 1/2, in uint32_t arithmetic, never 0.
UpdatedPrediction(p, now) ==
  LET elapsed == IF now > last_dispatch_tick[p]
                 THEN now - last_dispatch_tick[p] ELSE 1
      average == IF predicted_burst[p] = 0
                 THEN elapsed
                 ELSE ((predicted_burst[p] + elapsed) % UintMod) \div 2
  IN IF average = 0 THEN 1 ELSE average

-----------------------------------------------------------------------------
(* scheduler_schedule_from_context: its parts, then one operator per way it
   returns *)

\* Mutant: the last tick of the slice is counted twice.
SliceGoesOnAtZero(requeue) == Policy = "RR" /\ requeue /\ remaining_ticks > 0

\* The round robin slice of the current process goes on.
SliceGoesOn(requeue) == Policy = "RR" /\ requeue /\ remaining_ticks > 1

\* The slice of the process that is dispatched.
FreshSlice == IF Policy = "RR" THEN quantum_ticks ELSE remaining_ticks

\* Mutant: a process that ends is queued all the same.
QueueAfterSaveAlways(requeue) == Append(ready, current_pcb)

\* The queue once the current process has been put back, or has ended.
QueueAfterSave(requeue) ==
  IF requeue THEN Append(ready, current_pcb) ELSE ready

StatesAfterSave(requeue) ==
  [state EXCEPT ![current_pcb] = IF requeue THEN "READY" ELSE "TERMINATED"]

PredictionsAfterSave(now, requeue) ==
  IF requeue
  THEN [predicted_burst EXCEPT
          ![current_pcb] = UpdatedPrediction(current_pcb, now)]
  ELSE predicted_burst

\* Mutant: the PCB that was queued last is taken.
PicksLast(queue, key, k) == k = Len(queue)

\* scheduler_pick_next takes the k-th PCB of the queue.
Picks(queue, key, k) ==
  /\ k \in 1 .. Len(queue)
  /\ IF Policy = "SJF" THEN IsShortest(queue, key, k) ELSE k = 1

\* Mutant: the turn of the next process is not time-stamped.
SetCurrentUnstamped(p, now) ==
  /\ current_pcb' = p
  /\ UNCHANGED last_dispatch_tick

\* scheduler_set_current
SetCurrent(p, now) ==
  /\ current_pcb' = p
  /\ last_dispatch_tick' = [last_dispatch_tick EXCEPT ![p] = now]

\* Mutant: the tick is not taken off the slice.
KeepSliceUncounted(requeue) ==
  /\ SliceGoesOn(requeue)
  /\ UNCHANGED <<sched, fields>>

\* Return 0 at line 340: the slice is not over.
KeepSlice(requeue) ==
  /\ SliceGoesOn(requeue)
  /\ remaining_ticks' = remaining_ticks - 1
  /\ UNCHANGED <<current_pcb, ready, fields>>

\* Return 0 at line 359: the current process cannot be queued, so it keeps the
\* processor.
StayOnFullQueue(now, requeue) ==
  /\ ~ SliceGoesOn(requeue)
  /\ requeue
  /\ Len(ready) >= Capacity
  /\ remaining_ticks' = FreshSlice
  /\ predicted_burst' = PredictionsAfterSave(now, requeue)
  /\ state' = [state EXCEPT ![current_pcb] = "RUNNING"]
  /\ UNCHANGED <<current_pcb, ready, last_dispatch_tick>>

\* Mutant: the result of scheduler_enqueue_ready is ignored.
DispatchUnqueued(now, requeue) ==
  /\ ~ SliceGoesOn(requeue)
  /\ LET queue == IF Len(ready) < Capacity THEN QueueAfterSave(requeue) ELSE ready
         key == SjfKey(StatesAfterSave(requeue),
                       PredictionsAfterSave(now, requeue))
     IN \E k \in 1 .. Len(queue) :
          /\ Picks(queue, key, k)
          /\ ready' = Without(queue, k)
          /\ SetCurrent(queue[k], now)
          /\ state' = [StatesAfterSave(requeue) EXCEPT ![queue[k]] = "RUNNING"]
  /\ predicted_burst' = PredictionsAfterSave(now, requeue)
  /\ remaining_ticks' = FreshSlice

\* Return 1: the current process goes to the end of the queue (requeue) or
\* ends, and another one, or the same one again, is taken from the queue.
Dispatch(now, requeue) ==
  /\ ~ SliceGoesOn(requeue)
  /\ requeue => Len(ready) < Capacity
  /\ LET queue == QueueAfterSave(requeue)
         key == SjfKey(StatesAfterSave(requeue),
                       PredictionsAfterSave(now, requeue))
     IN \E k \in 1 .. Len(queue) :
          /\ Picks(queue, key, k)
          /\ ready' = Without(queue, k)
          /\ SetCurrent(queue[k], now)
          /\ state' = [StatesAfterSave(requeue) EXCEPT ![queue[k]] = "RUNNING"]
  /\ predicted_burst' = PredictionsAfterSave(now, requeue)
  /\ remaining_ticks' = FreshSlice

\* Return 0 at line 366: no process is ready, the current one is marked RUNNING again.
NothingReady(requeue) ==
  /\ ~ requeue
  /\ ready = << >>
  /\ state' = [state EXCEPT ![current_pcb] = "RUNNING"]
  /\ UNCHANGED <<sched, predicted_burst, last_dispatch_tick>>

-----------------------------------------------------------------------------
(* Boot: the loop of kmain *)

\* create_pcb_grub_modules fails for this module, which is skipped.
BootSkipsModule ==
  /\ phase = "boot"
  /\ mods_left > 0
  /\ mods_left' = mods_left - 1
  /\ UNCHANGED <<phase, first_pcb, sched, pit_ticks, fields>>

\* A PCB is created: the first is kept to be run, the others are queued; one
\* that does not fit is only logged.
BootModule(p) ==
  /\ phase = "boot"
  /\ mods_left > 0
  /\ state[p] = "NONE"
  /\ mods_left' = mods_left - 1
  /\ state' = [state EXCEPT ![p] = "READY"]
  /\ predicted_burst' = [predicted_burst EXCEPT ![p] = 1]
  /\ last_dispatch_tick' = [last_dispatch_tick EXCEPT ![p] = 0]
  /\ IF first_pcb = NULL
     THEN /\ first_pcb' = p
          /\ UNCHANGED ready
     ELSE /\ ready' = IF Len(ready) < Capacity THEN Append(ready, p) ELSE ready
          /\ UNCHANGED first_pcb
  /\ UNCHANGED <<phase, current_pcb, remaining_ticks, pit_ticks>>

\* run_user_mode_module(first_pcb)
BootRuns ==
  /\ phase = "boot"
  /\ mods_left = 0
  /\ first_pcb # NULL
  /\ phase' = "user"
  /\ current_pcb' = first_pcb
  /\ last_dispatch_tick' = [last_dispatch_tick EXCEPT ![first_pcb] = pit_ticks]
  /\ state' = [state EXCEPT ![first_pcb] = "RUNNING"]
  /\ UNCHANGED <<mods_left, first_pcb, ready, remaining_ticks, pit_ticks,
                 predicted_burst>>

\* No PCB could be created: kmain goes straight to its hlt loop.
BootHalts ==
  /\ phase = "boot"
  /\ mods_left = 0
  /\ first_pcb = NULL
  /\ phase' = "halted"
  /\ UNCHANGED <<mods_left, first_pcb, sched, pit_ticks, fields>>

-----------------------------------------------------------------------------
(* Interrupts and system calls, all from ring 3 *)

NextTick == (pit_ticks + 1) % UintMod

TimerInterrupt ==
  /\ phase = "user"
  /\ pit_ticks' = NextTick
  /\ IF Preemptive
     THEN \/ KeepSlice(TRUE)
          \/ StayOnFullQueue(NextTick, TRUE)
          \/ Dispatch(NextTick, TRUE)
     ELSE UNCHANGED <<sched, fields>>
  /\ UNCHANGED boot

SysYield ==
  /\ phase = "user"
  /\ \/ KeepSlice(TRUE)
     \/ StayOnFullQueue(pit_ticks, TRUE)
     \/ Dispatch(pit_ticks, TRUE)
  /\ UNCHANGED <<boot, pit_ticks>>

\* With nothing ready, sys_exit never returns: it loops in hlt.
SysExit ==
  /\ phase = "user"
  /\ \/ /\ Dispatch(pit_ticks, FALSE)
        /\ UNCHANGED phase
     \/ /\ NothingReady(FALSE)
        /\ phase' = "halted"
  /\ UNCHANGED <<mods_left, first_pcb, pit_ticks>>

\* sys_fork when every allocation succeeds and the queue has room: the child
\* starts from a copy of its parent's PCB.  (Otherwise it undoes what it did:
\* no step here, ForkFails in Kernel.tla.)
SysFork(child) ==
  /\ phase = "user"
  /\ state[child] = "NONE"
  /\ Len(ready) < Capacity
  /\ state' = [state EXCEPT ![child] = "READY"]
  /\ predicted_burst' =
       [predicted_burst EXCEPT ![child] = predicted_burst[current_pcb]]
  /\ last_dispatch_tick' =
       [last_dispatch_tick EXCEPT ![child] = last_dispatch_tick[current_pcb]]
  /\ ready' = Append(ready, child)
  /\ UNCHANGED <<boot, current_pcb, remaining_ticks, pit_ticks>>

\* sys_exec when the new image could be built.
SysExec ==
  /\ phase = "user"
  /\ state' = [state EXCEPT ![current_pcb] = "READY"]
  /\ UNCHANGED <<boot, sched, pit_ticks, predicted_burst, last_dispatch_tick>>

\* for (;;) hlt, in kmain or in sys_exit, with interrupts off.
Hlt ==
  /\ phase = "halted"
  /\ UNCHANGED schedVars

SchedNext ==
  \/ BootSkipsModule
  \/ \E p \in PCBs : BootModule(p)
  \/ BootRuns
  \/ BootHalts
  \/ TimerInterrupt
  \/ SysYield
  \/ SysExit
  \/ \E p \in PCBs : SysFork(p)
  \/ SysExec
  \/ Hlt

SchedSpec == SchedInit /\ [][SchedNext]_schedVars

\* kmain runs to its end, and the PIT keeps interrupting user mode: it is
\* periodic, unmasked, acknowledged by every handler, and IF is set in ring 3.
SchedFairness ==
  /\ WF_schedVars(BootSkipsModule \/ (\E p \in PCBs : BootModule(p)) \/ BootRuns)
  /\ WF_schedVars(TimerInterrupt)

FairSchedSpec == SchedSpec /\ SchedFairness

-----------------------------------------------------------------------------
Exists(p) == state[p] \in {"READY", "RUNNING"}

\* The process that owns the processor, or is about to (in boot).
Owner == IF phase = "boot" THEN first_pcb ELSE current_pcb

\* Safety: the ready queue never holds a PCB twice, never holds the process
\* that owns the processor, and everything in it is READY, after any mix of
\* preemptions, yields, forks, execs and exits.  A PCB queued twice would be
\* resumed twice from one saved context.
ReadyQueueSound ==
  /\ NoRepeats(ready)
  /\ Len(ready) <= Capacity
  /\ \A k \in 1 .. Len(ready) :
       ready[k] # Owner /\ state[ready[k]] = "READY"

\* Safety: no process is lost and none comes back: every PCB that was created
\* and has not exited either owns the processor or is queued, however often
\* the queue was full when a handler tried to queue it; and the kernel only
\* stops for ever in hlt when no other process is left.
NoProcessLost ==
  /\ \A p \in PCBs : Exists(p) => p = Owner \/ InQueue(ready, p)
  /\ phase = "user" => current_pcb # NULL /\ Exists(current_pcb)
  /\ phase = "halted" => ready = << >>

\* Safety (SJF): scheduler_dequeue_sjf compares real predictions only: a queued
\* PCB never has the key 0xFFFFFFFF that predicted_burst_for_sjf gives to a
\* prediction of 0, although the sum in the average overflows.
QueuedKeysAreReal ==
  \A k \in 1 .. Len(ready) :
    SjfKey(state, predicted_burst)[ready[k]] = predicted_burst[ready[k]]

\* Safety (preemptive SJF, the shipped configuration, while the queue never
\* fills): every prediction is 1, because each tick ends the burst it falls
\* in.  SJF never has two different bursts to compare.
PredictionsPinned == \A p \in PCBs : predicted_burst[p] = 1

\* Action property: whoever gets the processor from another process is the
\* one that has waited longest.  That is what FCFS and RR promise; it holds
\* for preemptive SJF too, because of PredictionsPinned.
OldestFirst ==
  [][phase = "user" /\ current_pcb' # current_pcb
       => current_pcb' = Head(ready)]_schedVars

\* The ticks since the current process was dispatched, across the wrap of
\* the tick counter.
TicksSinceDispatch == (pit_ticks - last_dispatch_tick[current_pcb]) % UintMod

\* Safety (RR, while the queue never fills): a process is never more ticks
\* into its turn than its quantum allows, and what remains of the slice
\* never promises it more: yields, forks and exits of others included.
QuantumBound ==
  phase = "user" => TicksSinceDispatch + remaining_ticks <= quantum_ticks

\* Liveness: a queued process eventually gets the processor, if the PIT keeps
\* ticking, whatever the other processes do, unless the queue fills up.
ReadyEventuallyRuns ==
  \A p \in PCBs : InQueue(ready, p) ~> current_pcb = p
=============================================================================
