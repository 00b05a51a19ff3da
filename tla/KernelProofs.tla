----------------------------- MODULE KernelProofs -----------------------------
(***************************************************************************)
(* For every number of processes, page directories and values: the kernel  *)
(* schedules as Scheduler.tla does, the machine is always set up for the   *)
(* running process, no address space leaks or is shared, and context       *)
(* switches are transparent.                                               *)
(***************************************************************************)
EXTENDS Kernel, SchedulerProofs

\* Leaves that name no prover go to the SMT solver, with time to spare.
USE SMTT(30)

-----------------------------------------------------------------------------
(* The kernel implements the scheduler *)

\* Every step of the kernel is a step of the scheduler or leaves it alone.
LEMMA KernelStepsSchedule == [KernelNext]_kernelVars => [SchedNext]_schedVars
<1> SUFFICES ASSUME [KernelNext]_kernelVars PROVE [SchedNext]_schedVars
  OBVIOUS
<1>1. CASE KBootSkipsModule \/ KBootRuns \/ KBootHalts \/ KHlt
  BY <1>1 DEF KBootSkipsModule, KBootRuns, KBootHalts, KHlt, SchedNext
<1>2. CASE \E p \in PCBs, d \in PDTs : KBootModule(p, d)
  BY <1>2 DEF KBootModule, SchedNext
<1>3. CASE \E v \in Values : UserStep(v)
  BY <1>3 DEF UserStep
<1>4. CASE KTimerInterrupt
  <2>1. TimerInterrupt
    BY <1>4, Zenon DEF KTimerInterrupt, TimerInterrupt, Reschedule
  <2> QED BY <2>1 DEF SchedNext
<1>5. CASE KeyboardInterrupt \/ KForkFails \/ \E r \in {0, Error} : PlainSyscall(r)
  BY <1>5 DEF KeyboardInterrupt, KForkFails, PlainSyscall
<1>6. CASE KSysYield
  <2>1. SysYield
    BY <1>6, Zenon DEF KSysYield, SysYield, Reschedule
  <2> QED BY <2>1 DEF SchedNext
<1>7. CASE KSysExit
  <2>1. SysExit
    BY <1>7, Zenon DEF KSysExit, SysExit
  <2> QED BY <2>1 DEF SchedNext
<1>8. CASE \E p \in PCBs, d \in PDTs : KSysFork(p, d)
  BY <1>8 DEF KSysFork, SchedNext
<1>9. CASE \E d \in PDTs : KSysExec(d)
  BY <1>9 DEF KSysExec, SchedNext
<1>10. CASE UNCHANGED kernelVars
  BY <1>10 DEF kernelVars
<1> QED BY <1>1, <1>2, <1>3, <1>4, <1>5, <1>6, <1>7, <1>8, <1>9, <1>10 DEF KernelNext

\* Theorem: the kernel implements the scheduler, so every theorem about
\* SchedSpec is one about the kernel.
THEOREM KernelImplementsScheduler == KernelSpec => ImplementsScheduler
<1>1. KernelInit => SchedInit
  BY DEF KernelInit
<1> QED BY <1>1, KernelStepsSchedule, PTL
        DEF KernelSpec, ImplementsScheduler, SchedSpec

-----------------------------------------------------------------------------
(* The inductive invariant *)

\* cr3 and the TSS are those of the running process.
MachineInv ==
  phase = "user" => cr3 = pdt[current_pcb] /\ tss_esp0 = kernel_esp0[current_pcb]

\* The processes that exist and the address spaces in use, one to one.
SpaceInv ==
  /\ \A p \in PCBs : Exists(p) => pdt[p] \in spaces /\ kernel_esp0[p] = p
  /\ \A d \in spaces : \E p \in PCBs : Exists(p) /\ pdt[p] = d
  /\ \A p, q \in PCBs : Exists(p) /\ Exists(q) /\ pdt[p] = pdt[q] => p = q

\* Registers and memory are what each program should see.
RegisterInv ==
  /\ phase = "user" => regs = view[current_pcb]
  /\ \A p \in PCBs : InQueue(ready, p) => Resumed(context, p) = view[p]
MemoryInv ==
  \A p \in PCBs : Exists(p) => memory[pdt[p]] = store[p]

KernelIInv ==
  SchedIInv /\ KernelTypeOK /\ MachineInv /\ SpaceInv /\ RegisterInv /\ MemoryInv

\* The invariants that the runs check follow.
LEMMA KernelIInvImplies ==
  KernelIInv => MachineMatchesCurrent /\ SpacesAccounted /\ ContextIntegrity
<1> SUFFICES ASSUME KernelIInv
             PROVE  MachineMatchesCurrent /\ SpacesAccounted /\ ContextIntegrity
  OBVIOUS
<1>1. MachineMatchesCurrent
  BY DEF MachineMatchesCurrent, KernelIInv, MachineInv, SpaceInv, SchedIInv, PhaseInv
<1>2. SpacesAccounted
  <2>1. spaces = {pdt[p] : p \in {q \in PCBs : Exists(q)}}
    BY DEF KernelIInv, SpaceInv
  <2> QED BY <2>1 DEF SpacesAccounted, KernelIInv, SpaceInv
<1>3. ContextIntegrity
  <2>1. \A k \in 1 .. Len(ready) : ready[k] \in PCBs /\ InQueue(ready, ready[k])
    BY ElementOfSeq DEF KernelIInv, SchedIInv, SchedTypeOK, InQueue
  <2> QED BY <2>1 DEF ContextIntegrity, KernelIInv, RegisterInv, MemoryInv
<1> QED BY <1>1, <1>2, <1>3

LEMMA KernelInitIInv == KernelInit => KernelIInv
<1> SUFFICES ASSUME KernelInit PROVE KernelIInv
  OBVIOUS
<1> USE SchedulerAssumption, KernelAssumption
<1>1. SchedIInv
  BY SchedInitIInv DEF KernelInit
<1>2. /\ phase = "boot" /\ ready = << >> /\ \A p \in PCBs : ~ Exists(p)
  BY DEF KernelInit, SchedInit, Exists
<1>3. KernelTypeOK
  <2>1. memory \in [spaces -> Values]
    BY DEF KernelInit
  <2> QED BY <2>1 DEF KernelInit, KernelTypeOK, Registers, EntryRegisters
<1>4. MachineInv /\ MemoryInv
  BY <1>2 DEF MachineInv, MemoryInv
<1>5. SpaceInv
  BY <1>2 DEF SpaceInv, KernelInit
<1>6. RegisterInv
  BY <1>2, EmptySeq DEF RegisterInv, InQueue
<1> QED BY <1>1, <1>3, <1>4, <1>5, <1>6 DEF KernelIInv

-----------------------------------------------------------------------------
(* A context switch *)

\* Who exists, runs and waits after a dispatch.
LEMMA DispatchFacts ==
  ASSUME SchedIInv, phase = "user", NEW requeue \in BOOLEAN, NEW now,
         Dispatch(now, requeue)
  PROVE  /\ current_pcb \in PCBs /\ Exists(current_pcb) /\ current_pcb' \in PCBs
         /\ (requeue /\ current_pcb' = current_pcb) \/ InQueue(ready, current_pcb')
         /\ ~ InQueue(ready, current_pcb)
         /\ \A p \in PCBs :
              /\ InQueue(ready', p) => /\ p # current_pcb'
                                       /\ p = current_pcb \/ InQueue(ready, p)
              /\ Exists(p)' <=> Exists(p) /\ (requeue \/ p # current_pcb)
<1> DEFINE queue == QueueAfterSave(requeue)
           saved == StatesAfterSave(requeue)
<1>1. PICK k \in 1 .. Len(queue) :
        /\ ready' = Without(queue, k)
        /\ current_pcb' = queue[k]
        /\ state' = [saved EXCEPT ![queue[k]] = "RUNNING"]
  BY Zenon DEF Dispatch, SetCurrent
<1>2. requeue => Len(ready) < Capacity
  BY DEF Dispatch
<1>3. /\ queue \in Seq(PCBs) /\ NoRepeats(queue) /\ saved \in [PCBs -> States]
      /\ \A p \in PCBs : InQueue(queue, p) => saved[p] = "READY"
  BY <1>2, AfterSave
<1>4. /\ current_pcb \in PCBs /\ Exists(current_pcb) /\ ready \in Seq(PCBs)
      /\ NoRepeats(ready) /\ ~ InQueue(ready, current_pcb)
      /\ state \in [PCBs -> States]
  BY DEF SchedIInv, PhaseInv, SchedTypeOK, QueueInv, Owner
<1>5. \A q : InQueue(queue, q) <=> InQueue(ready, q) \/ (requeue /\ q = current_pcb)
  <2>1. CASE requeue
    BY <1>4, <2>1, AppendQueue DEF QueueAfterSave
  <2>2. CASE ~ requeue
    BY <2>2 DEF QueueAfterSave
  <2> QED BY <2>1, <2>2
<1>6. \A p \in PCBs : saved[p] =
        IF p = current_pcb THEN (IF requeue THEN "READY" ELSE "TERMINATED")
        ELSE state[p]
  BY <1>4 DEF StatesAfterSave
<1> HIDE DEF queue, saved
<1>7. queue[k] \in PCBs /\ InQueue(queue, queue[k])
  BY <1>3, ElementOfSeq DEF InQueue
<1>8. \A q : InQueue(ready', q) <=> InQueue(queue, q) /\ q # queue[k]
  BY <1>1, <1>3, WithoutQueue
<1>9. \A p \in PCBs : state'[p] = IF p = queue[k] THEN "RUNNING" ELSE saved[p]
  BY <1>1, <1>3, <1>7
<1>10. ASSUME NEW p \in PCBs
       PROVE  Exists(p)' <=> Exists(p) /\ (requeue \/ p # current_pcb)
  <2>1. Exists(p)' <=> p = queue[k] \/ saved[p] \in {"READY", "RUNNING"}
    BY <1>9 DEF Exists
  <2>2. p = queue[k] => saved[p] = "READY"
    BY <1>3, <1>7
  <2> QED BY <1>4, <1>6, <2>1, <2>2 DEF Exists
<1> QED BY <1>1, <1>4, <1>5, <1>7, <1>8, <1>10

\* What SwitchMachine restores is what the next process should see.
LEMMA SwitchIInv ==
  ASSUME KernelIInv, phase = "user", phase' = "user", NEW requeue \in BOOLEAN,
         NEW now, Dispatch(now, requeue), SwitchMachine, UNCHANGED ghosts
  PROVE  MachineInv' /\ RegisterInv' /\ regs' \in Registers
         /\ context' \in [PCBs -> Registers \cup {NULL}]
         /\ cr3' \in PDTs \cup {NULL} /\ tss_esp0' \in PCBs \cup {NULL}
<1> USE ContextAssumption
<1>1. /\ current_pcb \in PCBs /\ Exists(current_pcb) /\ current_pcb' \in PCBs
      /\ (requeue /\ current_pcb' = current_pcb) \/ InQueue(ready, current_pcb')
      /\ ~ InQueue(ready, current_pcb)
      /\ \A p \in PCBs :
           /\ InQueue(ready', p) => /\ p # current_pcb'
                                    /\ p = current_pcb \/ InQueue(ready, p)
           /\ Exists(p)' <=> Exists(p) /\ (requeue \/ p # current_pcb)
  <2>1. SchedIInv
    BY DEF KernelIInv
  <2> QED BY <2>1, DispatchFacts, Zenon
<1>2. /\ regs \in Registers /\ context \in [PCBs -> Registers \cup {NULL}]
      /\ pdt \in [PCBs -> PDTs \cup {NULL}] /\ kernel_esp0 \in [PCBs -> PCBs \cup {NULL}]
      /\ view \in [PCBs -> Registers] /\ cr3 = pdt[current_pcb]
      /\ regs = view[current_pcb]
      /\ \A p \in PCBs : InQueue(ready, p) => Resumed(context, p) = view[p]
  BY DEF KernelIInv, KernelTypeOK, MachineInv, RegisterInv
<1>3. /\ regs' = Resumed(Saved, current_pcb')
      /\ context' = [Saved EXCEPT ![current_pcb'] = Resumed(Saved, current_pcb')]
      /\ cr3' = IF pdt[current_pcb'] # pdt[current_pcb] THEN pdt[current_pcb'] ELSE cr3
      /\ tss_esp0' = kernel_esp0[current_pcb']
      /\ UNCHANGED <<pdt, kernel_esp0, view, store>>
  BY DEF SwitchMachine, SwitchSpace, ghosts
<1>4. Saved \in [PCBs -> Registers \cup {NULL}]
      /\ \A p \in PCBs : Saved[p] = IF p = current_pcb THEN regs ELSE context[p]
  BY <1>1, <1>2 DEF Saved
<1>5. \A p \in PCBs : p = current_pcb \/ InQueue(ready, p) => Resumed(Saved, p) = view[p]
  <2> TAKE p \in PCBs
  <2>1. CASE p = current_pcb
    BY <1>2, <1>4, <2>1 DEF Resumed
  <2>2. CASE p # current_pcb /\ InQueue(ready, p)
    BY <1>2, <1>4, <2>2 DEF Resumed
  <2> QED BY <2>1, <2>2
<1>6. regs' = view[current_pcb'] /\ regs' \in Registers
  BY <1>1, <1>2, <1>3, <1>5
<1>7. context' \in [PCBs -> Registers \cup {NULL}]
  BY <1>1, <1>3, <1>4, <1>6
<1>8. ASSUME NEW p \in PCBs, InQueue(ready', p)
      PROVE  Resumed(context, p)' = view'[p]
  <2>1. p # current_pcb' /\ (p = current_pcb \/ InQueue(ready, p))
    BY <1>1, <1>8, Zenon
  <2>2. context'[p] = Saved[p]
    BY <1>1, <1>3, <1>4, <2>1
  <2>3. Resumed(context, p)' = Resumed(Saved, p)
    BY <2>2 DEF Resumed
  <2> QED BY <1>3, <1>5, <2>1, <2>3
<1>9. RegisterInv'
  BY <1>3, <1>6, <1>8, Zenon DEF RegisterInv
<1>10. MachineInv'
  BY <1>2, <1>3 DEF MachineInv
<1> QED BY <1>1, <1>2, <1>3, <1>6, <1>7, <1>9, <1>10

\* scheduler_schedule_from_context keeps the invariant.
LEMMA RescheduleIInv ==
  ASSUME KernelIInv, SchedIInv', phase = "user", NEW now, Reschedule(now),
         UNCHANGED <<boot, next_pid, memVars, ghosts>>
  PROVE  KernelIInv'
<1> USE ContextAssumption
<1>1. UNCHANGED <<phase, next_pid, spaces, memory, view, store>>
  BY DEF boot, memVars, ghosts
<1>2. CASE KeepSlice(TRUE) /\ UNCHANGED <<pcbVars, cpuVars>>
  <2>1. UNCHANGED <<current_pcb, ready, state, pdt, kernel_esp0, context, regs, cr3,
                    tss_esp0>>
    BY <1>2 DEF KeepSlice, fields, pcbVars, cpuVars
  <2> QED BY <1>1, <2>1 DEF KernelIInv, KernelTypeOK, MachineInv, SpaceInv,
                            RegisterInv, MemoryInv, Exists, Resumed
<1>3. CASE /\ StayOnFullQueue(now, TRUE) /\ context' = Saved
           /\ UNCHANGED <<pdt, kernel_esp0, cpuVars>>
  <2>1. /\ context' = [context EXCEPT ![current_pcb] = regs]
        /\ state' = [state EXCEPT ![current_pcb] = "RUNNING"]
        /\ UNCHANGED <<current_pcb, ready, pdt, kernel_esp0, regs, cr3, tss_esp0>>
    BY <1>3 DEF StayOnFullQueue, cpuVars, Saved
  <2>2. /\ current_pcb \in PCBs /\ Exists(current_pcb) /\ ~ InQueue(ready, current_pcb)
        /\ state \in [PCBs -> States]
    BY DEF KernelIInv, SchedIInv, PhaseInv, QueueInv, Owner, SchedTypeOK
  <2>3. \A p \in PCBs : Exists(p)' <=> Exists(p)
    BY <2>1, <2>2 DEF Exists
  <2>4. KernelTypeOK'
    BY <1>1, <2>1, Zenon DEF KernelIInv, KernelTypeOK
  <2>5. MachineInv' /\ SpaceInv' /\ MemoryInv'
    BY <1>1, <2>1, <2>3 DEF KernelIInv, MachineInv, SpaceInv, MemoryInv
  <2>6. RegisterInv'
    <3>1. \A p \in PCBs : InQueue(ready, p) => context'[p] = context[p]
      BY <2>1, <2>2 DEF KernelIInv, KernelTypeOK
    <3> QED BY <1>1, <2>1, <3>1 DEF KernelIInv, RegisterInv, Resumed
  <2> QED BY <2>4, <2>5, <2>6 DEF KernelIInv
<1>4. CASE Dispatch(now, TRUE) /\ SwitchMachine
  <2>1. UNCHANGED <<pdt, kernel_esp0>>
    BY <1>4 DEF SwitchMachine
  <2>2. /\ MachineInv' /\ RegisterInv' /\ regs' \in Registers
        /\ context' \in [PCBs -> Registers \cup {NULL}]
        /\ cr3' \in PDTs \cup {NULL} /\ tss_esp0' \in PCBs \cup {NULL}
    BY <1>1, <1>4, SwitchIInv, Zenon
  <2>3. \A p \in PCBs : Exists(p)' <=> Exists(p)
    BY <1>4, DispatchFacts, Zenon DEF KernelIInv
  <2>4. KernelTypeOK'
    BY <1>1, <2>1, <2>2 DEF KernelIInv, KernelTypeOK
  <2>5. SpaceInv' /\ MemoryInv'
    BY <1>1, <2>1, <2>3 DEF KernelIInv, SpaceInv, MemoryInv
  <2> QED BY <2>2, <2>4, <2>5 DEF KernelIInv
<1> QED BY <1>2, <1>3, <1>4, Zenon DEF Reschedule

-----------------------------------------------------------------------------
(* New processes *)

LEMMA NextPidRange ==
  ASSUME KernelIInv
  PROVE  NextPid \in 1 .. PidMod - 1
BY KernelAssumption DEF KernelIInv, KernelTypeOK, NextPid

\* A process is added in a free address space of its own.
LEMMA NewProcessFacts ==
  ASSUME KernelIInv, NEW p \in PCBs, NEW d \in PDTs, NEW v \in Values,
         ~ Exists(p), NewProcess(p, d, v),
         \A q \in PCBs : Exists(q)' <=> Exists(q) \/ q = p
  PROVE  /\ SpaceInv' /\ MemoryInv'
         /\ next_pid' \in 1 .. PidMod - 1
         /\ pdt' \in [PCBs -> PDTs \cup {NULL}]
         /\ kernel_esp0' \in [PCBs -> PCBs \cup {NULL}]
         /\ spaces' \subseteq PDTs /\ memory' \in [spaces' -> Values]
         /\ store' \in [PCBs -> Values]
         /\ \A q \in PCBs : q # p => /\ pdt'[q] = pdt[q]
                                    /\ kernel_esp0'[q] = kernel_esp0[q]
<1>1. /\ d \notin spaces /\ next_pid' = NextPid
      /\ pdt' = [pdt EXCEPT ![p] = d]
      /\ kernel_esp0' = [kernel_esp0 EXCEPT ![p] = p]
      /\ spaces' = spaces \cup {d}
      /\ memory' = [e \in spaces' |-> IF e = d THEN v ELSE memory[e]]
      /\ store' = [store EXCEPT ![p] = v]
  BY DEF NewProcess
<1>2. /\ pdt \in [PCBs -> PDTs \cup {NULL}]
      /\ kernel_esp0 \in [PCBs -> PCBs \cup {NULL}]
      /\ spaces \subseteq PDTs /\ memory \in [spaces -> Values]
      /\ store \in [PCBs -> Values]
  BY DEF KernelIInv, KernelTypeOK
<1>3. next_pid' \in 1 .. PidMod - 1
  BY <1>1, NextPidRange
<1>4. \A q \in PCBs : /\ pdt'[q] = IF q = p THEN d ELSE pdt[q]
                      /\ kernel_esp0'[q] = IF q = p THEN p ELSE kernel_esp0[q]
                      /\ store'[q] = IF q = p THEN v ELSE store[q]
  BY <1>1, <1>2
<1>5. SpaceInv'
  BY <1>1, <1>4 DEF KernelIInv, SpaceInv
<1>6. memory' \in [spaces' -> Values]
  BY <1>1, <1>2
<1>7. MemoryInv'
  <2> SUFFICES ASSUME NEW q \in PCBs, Exists(q)' PROVE memory'[pdt'[q]] = store'[q]
    BY DEF MemoryInv
  <2>1. CASE q = p
    BY <1>1, <1>4, <2>1
  <2>2. CASE q # p
    <3>1. Exists(q) /\ pdt[q] \in spaces /\ pdt[q] # d /\ memory[pdt[q]] = store[q]
      BY <1>1, <2>2 DEF KernelIInv, SpaceInv, MemoryInv
    <3> QED BY <1>1, <1>4, <2>2, <3>1
  <2> QED BY <2>1, <2>2
<1> QED BY <1>1, <1>2, <1>3, <1>4, <1>5, <1>6, <1>7

LEMMA KBootModuleIInv ==
  ASSUME KernelIInv, SchedIInv', NEW p \in PCBs, NEW d \in PDTs, KBootModule(p, d)
  PROVE  KernelIInv'
<1> USE SchedulerAssumption, KernelAssumption
<1>1. /\ BootModule(p) /\ NewProcess(p, d, 0)
      /\ context' = [context EXCEPT ![p] = NULL]
      /\ view' = [view EXCEPT ![p] = EntryRegisters]
      /\ UNCHANGED <<regs, cr3, tss_esp0>>
  BY DEF KBootModule, cpuVars
<1>2. /\ phase = "boot" /\ phase' = "boot" /\ state[p] = "NONE"
      /\ state' = [state EXCEPT ![p] = "READY"]
      /\ ready' = ready \/ ready' = Append(ready, p)
      /\ state \in [PCBs -> States]
  BY <1>1 DEF BootModule, KernelIInv, SchedIInv, SchedTypeOK
<1>3. ~ Exists(p) /\ \A q \in PCBs : Exists(q)' <=> Exists(q) \/ q = p
  BY <1>2 DEF Exists
<1>4. /\ SpaceInv' /\ MemoryInv'
      /\ next_pid' \in 1 .. PidMod - 1
      /\ pdt' \in [PCBs -> PDTs \cup {NULL}]
      /\ kernel_esp0' \in [PCBs -> PCBs \cup {NULL}]
      /\ spaces' \subseteq PDTs /\ memory' \in [spaces' -> Values]
      /\ store' \in [PCBs -> Values]
  BY <1>1, <1>3, NewProcessFacts, Zenon
<1>5. EntryRegisters \in Registers
  BY DEF EntryRegisters, Registers
<1>6. KernelTypeOK'
  BY <1>1, <1>4, <1>5, Zenon DEF KernelIInv, KernelTypeOK
<1>7. RegisterInv'
  <2>1. \A q : InQueue(ready', q) => InQueue(ready, q) \/ q = p
    <3>1. ready \in Seq(PCBs) /\ NoRepeats(ready) /\ ~ InQueue(ready, p)
      BY <1>2, Zenon DEF KernelIInv, SchedIInv, SchedTypeOK, QueueInv
    <3>2. CASE ready' = ready
      BY <3>2
    <3>3. CASE ready' = Append(ready, p)
      BY <3>1, <3>3, AppendQueue
    <3> QED BY <1>2, <3>2, <3>3
  <2>2. ASSUME NEW q \in PCBs, InQueue(ready', q)
        PROVE  Resumed(context, q)' = view'[q]
    <3>1. CASE q = p
      BY <1>1, <3>1 DEF KernelIInv, KernelTypeOK, Resumed
    <3>2. CASE q # p
      <4>1. InQueue(ready, q)
        BY <2>1, <2>2, <3>2
      <4>2. Resumed(context, q) = view[q]
        BY <4>1 DEF KernelIInv, RegisterInv
      <4>3. context'[q] = context[q] /\ view'[q] = view[q]
        BY <1>1, <3>2 DEF KernelIInv, KernelTypeOK
      <4> QED BY <4>2, <4>3 DEF Resumed
    <3> QED BY <3>1, <3>2
  <2> QED BY <1>2, <2>2 DEF RegisterInv
<1>8. MachineInv'
  BY <1>2 DEF MachineInv
<1> QED BY <1>4, <1>6, <1>7, <1>8 DEF KernelIInv

LEMMA KSysForkIInv ==
  ASSUME KernelIInv, SchedIInv', NEW p \in PCBs, NEW d \in PDTs, KSysFork(p, d)
  PROVE  KernelIInv'
<1> USE SchedulerAssumption, KernelAssumption, ContextAssumption
<1>1. /\ SysFork(p) /\ NewProcess(p, d, memory[pdt[current_pcb]])
      /\ context' = [context EXCEPT ![p] = [regs EXCEPT !.eax = 0]]
      /\ regs' = [regs EXCEPT !.eax = next_pid]
      /\ view' = [view EXCEPT ![current_pcb].eax = next_pid,
                              ![p] = [view[current_pcb] EXCEPT !.eax = 0]]
      /\ UNCHANGED <<cr3, tss_esp0>>
  BY DEF KSysFork
<1>2. /\ phase = "user" /\ phase' = "user" /\ state[p] = "NONE"
      /\ state' = [state EXCEPT ![p] = "READY"]
      /\ ready' = Append(ready, p) /\ current_pcb' = current_pcb
      /\ state \in [PCBs -> States]
  BY <1>1 DEF SysFork, boot, KernelIInv, SchedIInv, SchedTypeOK
<1>3. /\ ~ Exists(p) /\ \A q \in PCBs : Exists(q)' <=> Exists(q) \/ q = p
      /\ current_pcb \in PCBs /\ Exists(current_pcb) /\ p # current_pcb
  BY <1>2 DEF Exists, KernelIInv, SchedIInv, PhaseInv
<1>4. memory[pdt[current_pcb]] \in Values
  BY <1>3 DEF KernelIInv, KernelTypeOK, SpaceInv
<1>5. /\ SpaceInv' /\ MemoryInv'
      /\ next_pid' \in 1 .. PidMod - 1
      /\ pdt' \in [PCBs -> PDTs \cup {NULL}]
      /\ kernel_esp0' \in [PCBs -> PCBs \cup {NULL}]
      /\ spaces' \subseteq PDTs /\ memory' \in [spaces' -> Values]
      /\ store' \in [PCBs -> Values]
      /\ pdt'[current_pcb] = pdt[current_pcb]
      /\ kernel_esp0'[current_pcb] = kernel_esp0[current_pcb]
  BY <1>1, <1>3, <1>4, NewProcessFacts
<1>6. /\ regs \in Registers /\ view \in [PCBs -> Registers]
      /\ context \in [PCBs -> Registers \cup {NULL}]
      /\ regs = view[current_pcb] /\ next_pid \in 1 .. PidMod - 1
  BY <1>2 DEF KernelIInv, KernelTypeOK, RegisterInv
<1>7. [regs EXCEPT !.eax = 0] \in Registers /\ [regs EXCEPT !.eax = next_pid] \in Registers
  BY <1>6 DEF Registers
<1>8. \A q \in PCBs : /\ context'[q] = IF q = p THEN [regs EXCEPT !.eax = 0] ELSE context[q]
                      /\ view'[q] = IF q = p THEN [regs EXCEPT !.eax = 0]
                                    ELSE IF q = current_pcb THEN regs' ELSE view[q]
  BY <1>1, <1>3, <1>6
<1>9. KernelTypeOK'
  <2>1. context' \in [PCBs -> Registers \cup {NULL}]
    BY <1>1, <1>6, <1>7
  <2>2. view' \in [PCBs -> Registers]
    <3>1. view' = [q \in PCBs |-> view'[q]]
      BY <1>1, <1>6, Zenon
    <3> QED BY <1>1, <1>6, <1>7, <1>8, <3>1
  <2> QED BY <1>1, <1>5, <1>7, <2>1, <2>2 DEF KernelIInv, KernelTypeOK
<1>10. RegisterInv'
  <2>1. /\ ready \in Seq(PCBs) /\ NoRepeats(ready) /\ ~ InQueue(ready, p)
        /\ ~ InQueue(ready, current_pcb)
    BY <1>2, <1>3, Zenon DEF KernelIInv, SchedIInv, SchedTypeOK, QueueInv, Owner
  <2>2. \A q : InQueue(ready', q) <=> InQueue(ready, q) \/ q = p
    BY <1>2, <2>1, AppendQueue
  <2>3. ASSUME NEW q \in PCBs, InQueue(ready', q)
        PROVE  Resumed(context, q)' = view'[q]
    <3>1. CASE q = p
      <4>1. context'[q] = [regs EXCEPT !.eax = 0] /\ context'[q] # NULL
        BY <1>7, <1>8, <3>1
      <4> QED BY <1>8, <3>1, <4>1 DEF Resumed
    <3>2. CASE q # p
      <4>1. InQueue(ready, q)
        BY <2>2, <2>3, <3>2
      <4>2. q # current_pcb
        BY <2>1, <4>1
      <4>3. Resumed(context, q) = view[q]
        BY <4>1 DEF KernelIInv, RegisterInv
      <4>4. context'[q] = context[q] /\ view'[q] = view[q]
        BY <1>8, <3>2, <4>2
      <4> QED BY <4>3, <4>4 DEF Resumed
    <3> QED BY <3>1, <3>2
  <2>4. regs' = view'[current_pcb']
    BY <1>2, <1>3, <1>8
  <2> QED BY <2>3, <2>4 DEF RegisterInv
<1>11. MachineInv'
  BY <1>1, <1>2, <1>5 DEF KernelIInv, MachineInv
<1> QED BY <1>5, <1>9, <1>10, <1>11 DEF KernelIInv

-----------------------------------------------------------------------------
(* The other steps *)

\* Steps that touch neither processes nor memory, only registers: what the
\* running process sees changes with them.
LEMMA RegisterStepIInv ==
  ASSUME KernelIInv, SchedIInv', phase = "user", NEW r \in Registers,
         regs' = r, view' = [view EXCEPT ![current_pcb] = r],
         next_pid' \in 1 .. PidMod - 1,
         UNCHANGED <<schedVars, pcbVars, cr3, tss_esp0, memVars, store>>
  PROVE  KernelIInv'
<1>1. UNCHANGED <<phase, current_pcb, ready, state, pdt, kernel_esp0, context,
                  cr3, tss_esp0, spaces, memory, store>>
  BY DEF schedVars, boot, sched, fields, pcbVars, memVars
<1>2. /\ current_pcb \in PCBs /\ ~ InQueue(ready, current_pcb)
      /\ view \in [PCBs -> Registers]
  BY Zenon DEF KernelIInv, SchedIInv, PhaseInv, QueueInv, Owner, KernelTypeOK
<1>3. KernelTypeOK'
  BY <1>1, <1>2 DEF KernelIInv, KernelTypeOK
<1>4. MachineInv' /\ SpaceInv' /\ MemoryInv'
  BY <1>1, Zenon DEF KernelIInv, MachineInv, SpaceInv, MemoryInv, Exists
<1>5. RegisterInv'
  <2>1. \A q \in PCBs : InQueue(ready, q) => view'[q] = view[q]
    BY <1>2
  <2> QED BY <1>1, <1>2, <2>1 DEF KernelIInv, RegisterInv, Resumed
<1> QED BY <1>3, <1>4, <1>5 DEF KernelIInv

LEMMA ReturnsIInv ==
  ASSUME KernelIInv, SchedIInv', phase = "user", NEW r \in {0, Error}, Returns(r),
         next_pid' \in 1 .. PidMod - 1,
         UNCHANGED <<schedVars, pcbVars, cr3, tss_esp0, memVars, store>>
  PROVE  KernelIInv'
<1>1. /\ regs \in Registers /\ view \in [PCBs -> Registers]
      /\ current_pcb \in PCBs /\ regs = view[current_pcb]
  BY DEF KernelIInv, KernelTypeOK, SchedIInv, PhaseInv, RegisterInv
<1>2. [regs EXCEPT !.eax = r] \in Registers
  <2>1. r \in 0 .. PidMod - 1
    BY KernelAssumption DEF Error
  <2> QED BY <1>1, <2>1 DEF Registers
<1>3. /\ regs' = [regs EXCEPT !.eax = r]
      /\ view' = [view EXCEPT ![current_pcb] = [regs EXCEPT !.eax = r]]
  BY <1>1 DEF Returns
<1> QED BY <1>2, <1>3, RegisterStepIInv, Zenon

LEMMA UserStepIInv ==
  ASSUME KernelIInv, SchedIInv', NEW v \in Values, UserStep(v)
  PROVE  KernelIInv'
<1> DEFINE r == [eip |-> v, eax |-> v, edx |-> v]
<1>1. /\ phase = "user" /\ regs' = r
      /\ memory' = [memory EXCEPT ![cr3] = v]
      /\ view' = [view EXCEPT ![current_pcb] = r]
      /\ store' = [store EXCEPT ![current_pcb] = v]
      /\ UNCHANGED <<phase, current_pcb, ready, state, next_pid, pdt, kernel_esp0,
                     context, cr3, tss_esp0, spaces>>
  BY DEF UserStep, schedVars, boot, sched, fields, pcbVars
<1>2. r \in Registers
  BY DEF Registers
<1> HIDE DEF r
<1>3. /\ current_pcb \in PCBs /\ Exists(current_pcb) /\ ~ InQueue(ready, current_pcb)
      /\ view \in [PCBs -> Registers] /\ store \in [PCBs -> Values]
      /\ memory \in [spaces -> Values]
      /\ cr3 = pdt[current_pcb] /\ cr3 \in spaces
  <2>1. current_pcb \in PCBs /\ Exists(current_pcb) /\ ~ InQueue(ready, current_pcb)
    BY <1>1 DEF KernelIInv, SchedIInv, PhaseInv, QueueInv, Owner
  <2>2. cr3 = pdt[current_pcb]
    BY <1>1 DEF KernelIInv, MachineInv
  <2>3. pdt[current_pcb] \in spaces
    BY <2>1 DEF KernelIInv, SpaceInv
  <2> QED BY <2>1, <2>2, <2>3 DEF KernelIInv, KernelTypeOK
<1>4. KernelTypeOK'
  BY <1>1, <1>2, <1>3 DEF KernelIInv, KernelTypeOK
<1>5. MachineInv' /\ SpaceInv'
  BY <1>1, Zenon DEF KernelIInv, MachineInv, SpaceInv, Exists
<1>6. RegisterInv'
  <2>1. \A q \in PCBs : InQueue(ready, q) => view'[q] = view[q]
    BY <1>1, <1>3, Zenon
  <2> QED BY <1>1, <1>3, <2>1, Zenon DEF KernelIInv, RegisterInv, Resumed
<1>7. MemoryInv'
  <2> SUFFICES ASSUME NEW q \in PCBs, Exists(q) PROVE memory'[pdt[q]] = store'[q]
    BY <1>1, Zenon DEF MemoryInv, Exists
  <2>1. pdt[q] \in spaces /\ memory[pdt[q]] = store[q]
    BY DEF KernelIInv, SpaceInv, MemoryInv
  <2>2. q # current_pcb => pdt[q] # cr3
    BY <1>3, Zenon DEF KernelIInv, SpaceInv
  <2> QED BY <1>1, <1>3, <2>1, <2>2, Zenon
<1> QED BY <1>4, <1>5, <1>6, <1>7 DEF KernelIInv

LEMMA KBootRunsIInv ==
  ASSUME KernelIInv, SchedIInv', KBootRuns
  PROVE  KernelIInv'
<1> USE SchedulerAssumption, KernelAssumption
<1>1. /\ phase = "boot" /\ phase' = "user" /\ first_pcb # NULL
      /\ current_pcb' = first_pcb /\ ready' = ready
      /\ state' = [state EXCEPT ![first_pcb] = "RUNNING"]
      /\ cr3' = pdt[first_pcb] /\ tss_esp0' = kernel_esp0[first_pcb]
      /\ regs' = [eip |-> 0, eax |-> Leftover, edx |-> Leftover]
      /\ view' = [view EXCEPT ![first_pcb] = regs']
      /\ UNCHANGED <<next_pid, pdt, kernel_esp0, context, spaces, memory, store>>
  BY Zenon DEF KBootRuns, BootRuns, pcbVars, memVars
<1>2. /\ first_pcb \in PCBs /\ state[first_pcb] = "READY"
      /\ state \in [PCBs -> States] /\ ~ InQueue(ready, first_pcb)
      /\ view \in [PCBs -> Registers]
  BY <1>1, Zenon DEF KernelIInv, SchedIInv, SchedTypeOK, BootInv, QueueInv, Owner, KernelTypeOK
<1>3. regs' \in Registers
  BY <1>1 DEF Registers
<1>4. \A q \in PCBs : Exists(q)' <=> Exists(q)
  BY <1>1, <1>2 DEF Exists
<1>5. KernelTypeOK'
  BY <1>1, <1>2, <1>3, Zenon DEF KernelIInv, KernelTypeOK
<1>6. MachineInv' /\ SpaceInv' /\ MemoryInv'
  BY <1>1, <1>4, Zenon DEF KernelIInv, MachineInv, SpaceInv, MemoryInv
<1>7. RegisterInv'
  <2>1. \A q \in PCBs : InQueue(ready, q) => view'[q] = view[q]
    BY <1>1, <1>2, Zenon
  <2> QED BY <1>1, <1>2, <2>1, Zenon DEF KernelIInv, RegisterInv, Resumed
<1> QED BY <1>5, <1>6, <1>7 DEF KernelIInv

\* Steps that leave the machine and every process alone.
LEMMA QuietIInv ==
  ASSUME KernelIInv, SchedIInv', next_pid' \in 1 .. PidMod - 1,
         phase' = phase \/ phase' = "halted",
         UNCHANGED <<current_pcb, ready, state, pcbVars, cpuVars, memVars, ghosts>>
  PROVE  KernelIInv'
<1>1. UNCHANGED <<pdt, kernel_esp0, context, regs, cr3, tss_esp0, spaces, memory,
                  view, store>>
  BY DEF pcbVars, cpuVars, memVars, ghosts
<1>2. KernelTypeOK'
  BY <1>1 DEF KernelIInv, KernelTypeOK
<1>3. MachineInv' /\ SpaceInv' /\ RegisterInv' /\ MemoryInv'
  <2>1. SpaceInv' /\ MemoryInv'
    BY <1>1, Zenon DEF KernelIInv, SpaceInv, MemoryInv, Exists
  <2>2. MachineInv'
    BY <1>1, Zenon DEF KernelIInv, MachineInv
  <2>3. RegisterInv'
    BY <1>1 DEF KernelIInv, RegisterInv, Resumed
  <2> QED BY <2>1, <2>2, <2>3
<1> QED BY <1>2, <1>3 DEF KernelIInv

LEMMA KSysExitIInv ==
  ASSUME KernelIInv, SchedIInv', KSysExit
  PROVE  KernelIInv'
<1>1. phase = "user" /\ UNCHANGED <<next_pid, view, store>>
  BY Zenon DEF KSysExit, ghosts
<1>2. CASE /\ Dispatch(pit_ticks, FALSE) /\ SwitchMachine
           /\ spaces' = spaces \ {pdt[current_pcb]}
           /\ memory' = [e \in spaces' |-> memory[e]]
           /\ UNCHANGED phase
  <2>1. UNCHANGED <<pdt, kernel_esp0>>
    BY <1>2, Zenon DEF SwitchMachine
  <2>2. /\ MachineInv' /\ RegisterInv' /\ regs' \in Registers
        /\ context' \in [PCBs -> Registers \cup {NULL}]
        /\ cr3' \in PDTs \cup {NULL} /\ tss_esp0' \in PCBs \cup {NULL}
    BY <1>1, <1>2, SwitchIInv, Zenon DEF ghosts
  <2>3. /\ current_pcb \in PCBs /\ Exists(current_pcb)
        /\ \A p \in PCBs : Exists(p)' <=> Exists(p) /\ p # current_pcb
    BY <1>1, <1>2, DispatchFacts, Zenon DEF KernelIInv
  <2>4. KernelTypeOK'
    BY <1>1, <1>2, <2>1, <2>2 DEF KernelIInv, KernelTypeOK
  <2>5. SpaceInv'
    BY <1>2, <2>1, <2>3, Zenon DEF KernelIInv, SpaceInv
  <2>6. MemoryInv'
    <3> SUFFICES ASSUME NEW q \in PCBs, Exists(q)'
                 PROVE  memory'[pdt[q]] = store[q]
      BY <1>1, <2>1 DEF MemoryInv
    <3>1. pdt[q] \in spaces'
      BY <2>1, <2>5 DEF SpaceInv
    <3>2. memory[pdt[q]] = store[q]
      BY <2>3 DEF KernelIInv, MemoryInv
    <3> QED BY <1>2, <3>1, <3>2
  <2> QED BY <2>2, <2>4, <2>5, <2>6 DEF KernelIInv
<1>3. CASE /\ NothingReady(FALSE) /\ context' = Saved /\ phase' = "halted"
           /\ UNCHANGED <<pdt, kernel_esp0, cpuVars, memVars>>
  <2>1. /\ ready = << >> /\ ready' = ready /\ current_pcb' = current_pcb
        /\ state' = [state EXCEPT ![current_pcb] = "RUNNING"]
        /\ context' = [context EXCEPT ![current_pcb] = regs]
        /\ UNCHANGED <<pdt, kernel_esp0, regs, cr3, tss_esp0, spaces, memory>>
    BY <1>3 DEF NothingReady, sched, Saved, cpuVars, memVars
  <2>2. /\ current_pcb \in PCBs /\ Exists(current_pcb) /\ state \in [PCBs -> States]
    BY <1>1 DEF KernelIInv, SchedIInv, PhaseInv, SchedTypeOK
  <2>3. \A p \in PCBs : Exists(p)' <=> Exists(p)
    BY <2>1, <2>2 DEF Exists
  <2>4. KernelTypeOK'
    BY <1>1, <2>1, Zenon DEF KernelIInv, KernelTypeOK
  <2>5. SpaceInv' /\ MemoryInv'
    BY <1>1, <2>1, <2>3, Zenon DEF KernelIInv, SpaceInv, MemoryInv
  <2>6. MachineInv' /\ RegisterInv'
    <3>1. \A q : ~ InQueue(ready', q)
      BY <2>1, EmptySeq DEF InQueue
    <3> QED BY <1>3, <3>1, Zenon DEF MachineInv, RegisterInv
  <2> QED BY <2>4, <2>5, <2>6 DEF KernelIInv
<1> QED BY <1>2, <1>3, Zenon DEF KSysExit

LEMMA KSysExecIInv ==
  ASSUME KernelIInv, SchedIInv', NEW d \in PDTs, KSysExec(d)
  PROVE  KernelIInv'
<1> USE KernelAssumption
<1> DEFINE r == [regs EXCEPT !.eip = 0, !.eax = 0]
<1>1. /\ phase = "user" /\ d \notin spaces
      /\ state' = [state EXCEPT ![current_pcb] = "READY"]
      /\ pdt' = [pdt EXCEPT ![current_pcb] = d] /\ cr3' = d
      /\ spaces' = (spaces \cup {d}) \ {pdt[current_pcb]}
      /\ memory' = [e \in spaces' |-> IF e = d THEN 0 ELSE memory[e]]
      /\ regs' = r /\ view' = [view EXCEPT ![current_pcb] = r]
      /\ store' = [store EXCEPT ![current_pcb] = 0]
      /\ UNCHANGED <<phase, current_pcb, ready, next_pid, kernel_esp0, context, tss_esp0>>
  BY DEF KSysExec, SysExec, boot, sched
<1>2. /\ current_pcb \in PCBs /\ Exists(current_pcb) /\ ~ InQueue(ready, current_pcb)
      /\ state \in [PCBs -> States] /\ view \in [PCBs -> Registers]
      /\ store \in [PCBs -> Values] /\ pdt \in [PCBs -> PDTs \cup {NULL}]
      /\ spaces \subseteq PDTs /\ memory \in [spaces -> Values] /\ regs \in Registers
  BY <1>1 DEF KernelIInv, SchedIInv, PhaseInv, QueueInv, Owner, KernelTypeOK, SchedTypeOK
<1>3. r \in Registers
  BY <1>2, Zenon DEF Registers
<1> HIDE DEF r
<1>4. \A q \in PCBs : /\ Exists(q)' <=> Exists(q)
                      /\ pdt'[q] = IF q = current_pcb THEN d ELSE pdt[q]
                      /\ store'[q] = IF q = current_pcb THEN 0 ELSE store[q]
  BY <1>1, <1>2 DEF Exists
<1>5. KernelTypeOK'
  <2>1. memory' \in [spaces' -> Values] /\ spaces' \subseteq PDTs
    BY <1>1, <1>2
  <2> QED BY <1>1, <1>2, <1>3, <2>1, Zenon DEF KernelIInv, KernelTypeOK
<1>6. SpaceInv'
  <2>1. /\ \A p \in PCBs : Exists(p) => pdt[p] \in spaces /\ kernel_esp0[p] = p
        /\ \A e \in spaces : \E p \in PCBs : Exists(p) /\ pdt[p] = e
        /\ \A p, q \in PCBs : Exists(p) /\ Exists(q) /\ pdt[p] = pdt[q] => p = q
    BY Zenon DEF KernelIInv, SpaceInv
  <2>2. \A p \in PCBs : Exists(p)' => pdt'[p] \in spaces' /\ kernel_esp0'[p] = p
    <3> SUFFICES ASSUME NEW p \in PCBs, Exists(p)
                 PROVE  pdt'[p] \in spaces' /\ kernel_esp0'[p] = p
      BY <1>4
    <3>0. spaces' = (spaces \cup {d}) \ {pdt[current_pcb]}
      BY <1>1
    <3>1. pdt[p] \in spaces /\ kernel_esp0'[p] = p
      BY <1>1, <2>1, Zenon
    <3>2. CASE p = current_pcb
      <4>1. d # pdt[current_pcb]
        BY <1>1, <3>1, <3>2, Zenon
      <4> QED BY <1>2, <1>4, <3>0, <3>1, <3>2, <4>1, Zenon
    <3>3. CASE p # current_pcb
      <4>1. pdt[p] # pdt[current_pcb]
        BY <1>2, <2>1, <3>3, Zenon
      <4> QED BY <1>4, <3>0, <3>1, <3>3, <4>1
    <3> QED BY <3>2, <3>3
  <2>3. \A e \in spaces' : \E p \in PCBs : Exists(p)' /\ pdt'[p] = e
    <3> TAKE e \in spaces'
    <3>1. CASE e = d
      BY <1>2, <1>4, <3>1, Zenon
    <3>2. CASE e \in spaces /\ e # pdt[current_pcb]
      <4>1. PICK p \in PCBs : Exists(p) /\ pdt[p] = e
        BY <2>1, <3>2
      <4>2. p # current_pcb
        BY <3>2, <4>1
      <4> QED BY <1>4, <4>1, <4>2, Zenon
    <3> QED BY <1>1, <3>1, <3>2
  <2>4. \A p, q \in PCBs : Exists(p)' /\ Exists(q)' /\ pdt'[p] = pdt'[q] => p = q
    <3>1. \A p \in PCBs : Exists(p) => pdt[p] # d
      BY <1>1, <2>1
    <3> QED BY <1>4, <2>1, <3>1
  <2> QED BY <2>2, <2>3, <2>4 DEF SpaceInv
<1>7. MemoryInv'
  <2> SUFFICES ASSUME NEW q \in PCBs, Exists(q)' PROVE memory'[pdt'[q]] = store'[q]
    BY DEF MemoryInv
  <2>1. pdt'[q] \in spaces'
    BY <1>6 DEF SpaceInv
  <2>2. CASE q = current_pcb
    BY <1>1, <1>4, <2>1, <2>2
  <2>3. CASE q # current_pcb
    <3>1. pdt[q] \in spaces /\ memory[pdt[q]] = store[q]
      BY <1>4, Zenon DEF KernelIInv, SpaceInv, MemoryInv
    <3> QED BY <1>1, <1>4, <2>1, <2>3, <3>1
  <2> QED BY <2>2, <2>3
<1>8. RegisterInv'
  <2>1. \A q \in PCBs : InQueue(ready, q) => view'[q] = view[q]
    BY <1>1, <1>2
  <2> QED BY <1>1, <1>2, <2>1 DEF KernelIInv, RegisterInv, Resumed
<1>9. MachineInv'
  BY <1>1, <1>2, <1>4 DEF KernelIInv, MachineInv
<1> QED BY <1>5, <1>6, <1>7, <1>8, <1>9 DEF KernelIInv

\* The invariant is inductive.
LEMMA KernelNextIInv == KernelIInv /\ [KernelNext]_kernelVars => KernelIInv'
<1> SUFFICES ASSUME KernelIInv, [KernelNext]_kernelVars PROVE KernelIInv'
  OBVIOUS
<1>1. SchedIInv'
  BY KernelStepsSchedule, SchedNextIInv DEF KernelIInv
<1>2. next_pid \in 1 .. PidMod - 1 /\ NextPid \in 1 .. PidMod - 1
  BY NextPidRange DEF KernelIInv, KernelTypeOK
<1>3. CASE KBootSkipsModule
  BY <1>1, <1>2, <1>3, QuietIInv DEF KBootSkipsModule, BootSkipsModule, sched, fields
<1>4. CASE \E p \in PCBs, d \in PDTs : KBootModule(p, d)
  BY <1>1, <1>4, KBootModuleIInv
<1>5. CASE KBootRuns
  BY <1>1, <1>5, KBootRunsIInv
<1>6. CASE KBootHalts
  BY <1>1, <1>2, <1>6, QuietIInv DEF KBootHalts, BootHalts, sched, fields
<1>7. CASE \E v \in Values : UserStep(v)
  BY <1>1, <1>7, UserStepIInv
<1>8. CASE KTimerInterrupt
  <2>1. CASE Preemptive
    BY <1>1, <1>8, <2>1, RescheduleIInv DEF KTimerInterrupt
  <2>2. CASE ~ Preemptive
    BY <1>1, <1>2, <1>8, <2>2, QuietIInv DEF KTimerInterrupt, boot, sched, fields
  <2> QED BY <2>1, <2>2
<1>9. CASE KeyboardInterrupt
  <2>1. /\ phase = "user" /\ regs \in Registers /\ view \in [PCBs -> Registers]
        /\ current_pcb \in PCBs /\ regs = view[current_pcb]
    BY <1>9 DEF KeyboardInterrupt, KernelIInv, KernelTypeOK, SchedIInv, PhaseInv,
                RegisterInv
  <2>2. [regs EXCEPT !.edx = Leftover] \in Registers
    BY <2>1 DEF Registers
  <2>3. /\ regs' = [regs EXCEPT !.edx = Leftover]
        /\ view' = [view EXCEPT ![current_pcb] = [regs EXCEPT !.edx = Leftover]]
    BY <1>9, <2>1 DEF KeyboardInterrupt
  <2> QED BY <1>1, <1>2, <1>9, <2>1, <2>2, <2>3, RegisterStepIInv, Zenon
          DEF KeyboardInterrupt
<1>10. CASE KForkFails \/ \E r \in {0, Error} : PlainSyscall(r)
  BY <1>1, <1>2, <1>10, ReturnsIInv DEF KForkFails, PlainSyscall
<1>11. CASE KSysYield
  BY <1>1, <1>11, RescheduleIInv DEF KSysYield
<1>12. CASE KSysExit
  BY <1>1, <1>12, KSysExitIInv
<1>13. CASE \E p \in PCBs, d \in PDTs : KSysFork(p, d)
  BY <1>1, <1>13, KSysForkIInv
<1>14. CASE \E d \in PDTs : KSysExec(d)
  BY <1>1, <1>14, KSysExecIInv
<1>15. CASE KHlt
  BY <1>1, <1>2, <1>15, QuietIInv DEF KHlt, Hlt, schedVars, boot, sched, fields
<1>16. CASE UNCHANGED kernelVars
  BY <1>1, <1>2, <1>16, QuietIInv DEF kernelVars, schedVars, boot, sched, fields
<1> QED BY <1>3, <1>4, <1>5, <1>6, <1>7, <1>8, <1>9, <1>10, <1>11, <1>12, <1>13,
           <1>14, <1>15, <1>16 DEF KernelNext

\* Theorem: the inductive invariant holds in every reachable state.
THEOREM KernelInvariant == KernelSpec => []KernelIInv
BY KernelInitIInv, KernelNextIInv, PTL DEF KernelSpec

\* Theorem: the types of the machine, next_pid never being 0 included.
THEOREM KernelTypes == KernelSpec => []KernelTypeOK
BY KernelInvariant, PTL DEF KernelIInv

\* Theorem: in ring 3, cr3 and the TSS always belong to current_pcb.
THEOREM MachineIsCurrent == KernelSpec => []MachineMatchesCurrent
BY KernelInvariant, KernelIInvImplies, PTL

\* Theorem: no address space or kernel stack leaks, is shared, or is freed
\* under a process that exists, through any mix of fork, exec and exit.
THEOREM SpacesAreAccounted == KernelSpec => []SpacesAccounted
BY KernelInvariant, KernelIInvImplies, PTL

\* Theorem: context switches are transparent to every process.
THEOREM ContextsAreIntact == KernelSpec => []ContextIntegrity
BY KernelInvariant, KernelIInvImplies, PTL

\* A step of user mode makes a process READY for the first time only in fork,
\* and fork returns a pid that is not 0 to the parent.
LEMMA ForkStep ==
  ASSUME KernelIInv, [KernelNext]_kernelVars, NEW p \in PCBs,
         phase = "user", state[p] = "NONE", state'[p] = "READY"
  PROVE  regs'.eax # 0 /\ context'[p].eax = 0
<1>1. /\ SchedIInv /\ state \in [PCBs -> States] /\ current_pcb \in PCBs
      /\ Exists(current_pcb) /\ p # current_pcb /\ ~ Exists(p) /\ Exists(p)'
      /\ state' # state
  BY DEF KernelIInv, SchedIInv, SchedTypeOK, PhaseInv, Exists
<1>2. ~ (KBootSkipsModule \/ KBootRuns \/ KBootHalts \/ KHlt
         \/ \E q \in PCBs, d \in PDTs : KBootModule(q, d))
  BY Zenon DEF KBootSkipsModule, KBootRuns, KBootHalts, KHlt, KBootModule,
         BootSkipsModule, BootRuns, BootHalts, Hlt, BootModule
<1>3. ~ (KeyboardInterrupt \/ KForkFails \/ (\E v \in Values : UserStep(v))
         \/ (\E r \in {0, Error} : PlainSyscall(r)) \/ UNCHANGED kernelVars)
  BY <1>1 DEF KeyboardInterrupt, KForkFails, UserStep, PlainSyscall, kernelVars,
              schedVars, fields
<1>4. \A now : \A requeue \in BOOLEAN : ~ Dispatch(now, requeue)
  <2> SUFFICES ASSUME NEW now, NEW requeue \in BOOLEAN, Dispatch(now, requeue)
               PROVE  FALSE
    BY Zenon
  <2>1. Exists(p)' <=> Exists(p) /\ (requeue \/ p # current_pcb)
    BY <1>1, DispatchFacts
  <2> QED BY <1>1, <2>1
<1>5. ~ (KTimerInterrupt \/ KSysYield \/ KSysExit)
  <2>1. \A now : ~ Reschedule(now)
    BY <1>1, <1>4, Zenon DEF Reschedule, KeepSlice, StayOnFullQueue, fields
  <2>2. ~ KSysExit
    BY <1>1, <1>4, Zenon DEF KSysExit, NothingReady
  <2> QED BY <1>1, <2>1, <2>2 DEF KTimerInterrupt, KSysYield, fields
<1>6. ~ \E d \in PDTs : KSysExec(d)
  BY <1>1 DEF KSysExec, SysExec
<1>7. PICK q \in PCBs, d \in PDTs : KSysFork(q, d)
  BY <1>2, <1>3, <1>5, <1>6 DEF KernelNext
<1>8. q = p
  BY <1>1, <1>7 DEF KSysFork, SysFork
<1>9. /\ regs' = [regs EXCEPT !.eax = next_pid]
      /\ context' = [context EXCEPT ![p] = [regs EXCEPT !.eax = 0]]
  BY <1>7, <1>8 DEF KSysFork
<1>10. /\ regs \in Registers /\ next_pid \in 1 .. PidMod - 1
       /\ context \in [PCBs -> Registers \cup {NULL}]
  BY DEF KernelIInv, KernelTypeOK
<1>11. regs'.eax = next_pid /\ context'[p].eax = 0
  BY <1>9, <1>10 DEF Registers
<1> QED BY <1>10, <1>11, KernelAssumption

\* Theorem: fork tells parent and child apart, also after the pid wraps.
THEOREM ForkApart == KernelSpec => ForkTellsApart
<1>1. KernelIInv /\ [KernelNext]_kernelVars =>
        [\A p \in PCBs :
           phase = "user" /\ state[p] = "NONE" /\ state'[p] = "READY"
             => regs'.eax # 0 /\ context'[p].eax = 0]_kernelVars
  BY ForkStep
<1> QED BY <1>1, KernelInvariant, PTL DEF KernelSpec, ForkTellsApart
=============================================================================
