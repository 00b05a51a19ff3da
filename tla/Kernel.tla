------------------------------- MODULE Kernel -------------------------------
(***************************************************************************)
(* The whole machine around the scheduler: the registers in ring 3, the    *)
(* saved contexts, cr3, the TSS stack pointer, address spaces and pids.    *)
(* Every action of Scheduler.tla is conjoined with what its handler does   *)
(* to the machine, so that Kernel implements Scheduler; user code, the     *)
(* keyboard interrupt and the system calls that leave the scheduler alone  *)
(* are added.                                                              *)
(*                                                                         *)
(* Abstractions.  Three registers stand for all: eip for those the program *)
(* counter and stack switch with, eax for the one system calls return in,  *)
(* edx for those common_interrupt_handler does not save.  The contents of  *)
(* an address space are one value.  A kernel stack is named by the PCB it  *)
(* was allocated for.  The pid of a PCB, which the kernel only logs, is    *)
(* not kept; what fork returns is.                                         *)
(***************************************************************************)
EXTENDS Scheduler

CONSTANTS
  PDTs,        \* page directories (physical frames)
  Values,      \* what a user program can compute and store, 0 included
  PidMod       \* 2^32, the modulus of next_pid (scaled down for TLC)

ASSUME KernelAssumption ==
  /\ NULL \notin PDTs
  /\ Values \subseteq Nat /\ 0 \in Values
  /\ PidMod \in Nat /\ PidMod > 1

VARIABLES
  next_pid,
  pdt, kernel_esp0, context,        \* fields of every PCB
  regs, cr3, tss_esp0,              \* the processor
  spaces,                           \* the page directories in use
  memory,                           \* the contents of those
  view, store   \* ghosts: the registers and memory each program should see

pcbVars == <<pdt, kernel_esp0, context>>
cpuVars == <<regs, cr3, tss_esp0>>
memVars == <<spaces, memory>>
ghosts == <<view, store>>
kernelVars == <<schedVars, next_pid, pcbVars, cpuVars, memVars, ghosts>>

Error == PidMod - 1 \* (uint32_t)-1: a failed system call, and the last pid
Leftover == -2      \* something kernel code left in a register

Registers == [eip : Values,
              eax : Values \cup 0 .. PidMod - 1 \cup {Leftover},
              edx : Values \cup {Leftover}]

\* The null pointer marks a context that was never saved.
ASSUME ContextAssumption == NULL \notin Registers

\* scheduler_init_context_from_pcb on a PCB that create_pcb made.
EntryRegisters == [eip |-> 0, eax |-> 0, edx |-> 0]

KernelTypeOK ==
  /\ next_pid \in 1 .. PidMod - 1
  /\ pdt \in [PCBs -> PDTs \cup {NULL}]
  /\ kernel_esp0 \in [PCBs -> PCBs \cup {NULL}]
  /\ context \in [PCBs -> Registers \cup {NULL}]
  /\ regs \in Registers
  /\ cr3 \in PDTs \cup {NULL}
  /\ tss_esp0 \in PCBs \cup {NULL}
  /\ spaces \subseteq PDTs
  /\ memory \in [spaces -> Values]
  /\ view \in [PCBs -> Registers]
  /\ store \in [PCBs -> Values]

\* context[p] = NULL stands for context.cs == 0; cr3 = NULL and tss_esp0 =
\* NULL for the kernel's own page directory and stack.
KernelInit ==
  /\ SchedInit
  /\ next_pid = 1
  /\ pdt = [p \in PCBs |-> NULL]
  /\ kernel_esp0 = [p \in PCBs |-> NULL]
  /\ context = [p \in PCBs |-> NULL]
  /\ regs = [eip |-> 0, eax |-> Leftover, edx |-> Leftover]
  /\ cr3 = NULL
  /\ tss_esp0 = NULL
  /\ spaces = {}
  /\ memory = << >>
  /\ view = [p \in PCBs |-> EntryRegisters]
  /\ store = [p \in PCBs |-> 0]

-----------------------------------------------------------------------------
(* Operators shared by the handlers *)

\* Mutant: the wrap to 0 is not skipped.
NextPidUnskipped == (next_pid + 1) % PidMod

\* scheduler_allocate_pid: the pid is next_pid, and this its new value.
NextPid == IF (next_pid + 1) % PidMod = 0 THEN 1 ELSE next_pid + 1

\* Mutant: the registers of the running process are not saved.
SavedNot == context

\* The contexts after the running process was saved.
Saved == [context EXCEPT ![current_pcb] = regs]

\* What process p resumes with.
Resumed(saved, p) == IF saved[p] = NULL THEN EntryRegisters ELSE saved[p]

\* Mutant: cr3 is not reloaded.
SwitchSpaceForgotten(p) == UNCHANGED cr3

\* cr3 is only written when the directory changes.
SwitchSpace(p) == cr3' = IF pdt[p] # pdt[current_pcb] THEN pdt[p] ELSE cr3

\* The part of scheduler_schedule_from_context after the choice of the next
\* process, and the copy of its context to the interrupt frame.
SwitchMachine ==
  /\ regs' = Resumed(Saved, current_pcb')
  /\ context' = [Saved EXCEPT ![current_pcb'] = Resumed(Saved, current_pcb')]
  /\ SwitchSpace(current_pcb')
  /\ tss_esp0' = kernel_esp0[current_pcb']
  /\ UNCHANGED <<pdt, kernel_esp0>>

\* scheduler_schedule_from_context with requeue_current = 1.
Reschedule(now) ==
  \/ /\ KeepSlice(TRUE)
     /\ UNCHANGED <<pcbVars, cpuVars>>
  \/ /\ StayOnFullQueue(now, TRUE)
     /\ context' = Saved
     /\ UNCHANGED <<pdt, kernel_esp0, cpuVars>>
  \/ /\ Dispatch(now, TRUE)
     /\ SwitchMachine

\* A system call returns r to the running process and does nothing else to
\* its registers.
Returns(r) ==
  /\ regs' = [regs EXCEPT !.eax = r]
  /\ view' = [view EXCEPT ![current_pcb].eax = r]

\* A PCB is filled in around a new address space d with contents v.
NewProcess(p, d, v) ==
  /\ d \in PDTs \ spaces
  /\ next_pid' = NextPid
  /\ pdt' = [pdt EXCEPT ![p] = d]
  /\ kernel_esp0' = [kernel_esp0 EXCEPT ![p] = p]
  /\ spaces' = spaces \cup {d}
  /\ memory' = [e \in spaces' |-> IF e = d THEN v ELSE memory[e]]
  /\ store' = [store EXCEPT ![p] = v]

-----------------------------------------------------------------------------
(* Boot *)

\* create_pcb_grub_modules fails before or after it took a pid.
KBootSkipsModule ==
  /\ BootSkipsModule
  /\ next_pid' \in {next_pid, NextPid}
  /\ UNCHANGED <<pcbVars, cpuVars, memVars, ghosts>>

KBootModule(p, d) ==
  /\ BootModule(p)
  /\ NewProcess(p, d, 0)
  /\ context' = [context EXCEPT ![p] = NULL]
  /\ view' = [view EXCEPT ![p] = EntryRegisters]
  /\ UNCHANGED cpuVars

\* run_user_mode_module and enter_user_mode, which leaves its own values in
\* the general registers.
KBootRuns ==
  /\ BootRuns
  /\ cr3' = pdt[first_pcb]
  /\ tss_esp0' = kernel_esp0[first_pcb]
  /\ regs' = [eip |-> 0, eax |-> Leftover, edx |-> Leftover]
  /\ view' = [view EXCEPT ![first_pcb] = regs']
  /\ UNCHANGED <<next_pid, pcbVars, memVars, store>>

KBootHalts ==
  /\ BootHalts
  /\ UNCHANGED <<next_pid, pcbVars, cpuVars, memVars, ghosts>>

-----------------------------------------------------------------------------
(* Ring 3 *)

\* The program computes and writes to memory, through cr3.
UserStep(v) ==
  /\ phase = "user"
  /\ regs' = [eip |-> v, eax |-> v, edx |-> v]
  /\ memory' = [memory EXCEPT ![cr3] = v]
  /\ view' = [view EXCEPT ![current_pcb] = regs']
  /\ store' = [store EXCEPT ![current_pcb] = v]
  /\ UNCHANGED <<schedVars, next_pid, pcbVars, cr3, tss_esp0, spaces>>

-----------------------------------------------------------------------------
(* Interrupts *)

KTimerInterrupt ==
  /\ phase = "user"
  /\ pit_ticks' = NextTick
  /\ IF Preemptive
     THEN Reschedule(NextTick)
     ELSE UNCHANGED <<sched, fields, pcbVars, cpuVars>>
  /\ UNCHANGED <<boot, next_pid, memVars, ghosts>>

\* common_interrupt_handler restores eax and ebx only; the port number that
\* inb and outb load stays in edx.
KeyboardInterrupt ==
  /\ phase = "user"
  /\ regs' = [regs EXCEPT !.edx = Leftover]
  /\ view' = [view EXCEPT ![current_pcb].edx = Leftover]
  /\ UNCHANGED <<schedVars, next_pid, pcbVars, cr3, tss_esp0, memVars, store>>

-----------------------------------------------------------------------------
(* System calls *)

\* SYSCALL_TEST and SYSCALL_WRITE return 0; an unknown number and an exec
\* that fails (and then has destroyed what it built) return -1.
PlainSyscall(r) ==
  /\ phase = "user"
  /\ Returns(r)
  /\ UNCHANGED <<schedVars, next_pid, pcbVars, cr3, tss_esp0, memVars, store>>

\* The return value is the eax of the frame, that is, of the process that is
\* resumed.
KSysYield ==
  /\ phase = "user"
  /\ Reschedule(pit_ticks)
  /\ UNCHANGED <<boot, pit_ticks, next_pid, memVars, ghosts>>

\* Mutant: the old address space is not destroyed.
KSysExitLeaks ==
  /\ phase = "user"
  /\ \/ /\ Dispatch(pit_ticks, FALSE)
        /\ SwitchMachine
        /\ UNCHANGED <<phase, spaces>>
     \/ /\ NothingReady(FALSE)
        /\ context' = Saved
        /\ phase' = "halted"
        /\ UNCHANGED <<pdt, kernel_esp0, cpuVars, spaces>>
  /\ UNCHANGED <<mods_left, first_pcb, pit_ticks, next_pid, memory, ghosts>>

KSysExit ==
  /\ phase = "user"
  /\ \/ /\ Dispatch(pit_ticks, FALSE)
        /\ SwitchMachine
        /\ spaces' = spaces \ {pdt[current_pcb]}
        /\ memory' = [e \in spaces' |-> memory[e]]
        /\ UNCHANGED phase
     \/ /\ NothingReady(FALSE)
        /\ context' = Saved
        /\ phase' = "halted"
        /\ UNCHANGED <<pdt, kernel_esp0, cpuVars, memVars>>
  /\ UNCHANGED <<mods_left, first_pcb, pit_ticks, next_pid, ghosts>>

\* Mutant: a failed fork leaves the child in the queue.
KForkFailsQueued ==
  /\ phase = "user"
  /\ next_pid' \in {next_pid, NextPid}
  /\ Returns(Error)
  /\ ready' = Append(ready, current_pcb)
  /\ UNCHANGED <<boot, current_pcb, remaining_ticks, pit_ticks, fields,
                 pcbVars, cr3, tss_esp0, memVars, store>>

\* sys_fork runs out of heap, frames or queue slots.  What it allocated is
\* given back, except the pid, if it got that far.
KForkFails ==
  /\ phase = "user"
  /\ next_pid' \in {next_pid, NextPid}
  /\ Returns(Error)
  /\ UNCHANGED <<schedVars, pcbVars, cr3, tss_esp0, memVars, store>>

\* The child gets a copy of the parent's memory and registers, and returns 0.
KSysFork(child, d) ==
  /\ SysFork(child)
  /\ NewProcess(child, d, memory[pdt[current_pcb]])
  /\ context' = [context EXCEPT ![child] = [regs EXCEPT !.eax = 0]]
  /\ regs' = [regs EXCEPT !.eax = next_pid]
  /\ view' = [view EXCEPT ![current_pcb].eax = next_pid,
                          ![child] = [view[current_pcb] EXCEPT !.eax = 0]]
  /\ UNCHANGED <<cr3, tss_esp0>>

\* The new image is built before the old one is given up, and cr3 leaves the
\* old directory before it is freed.
KSysExec(d) ==
  /\ SysExec
  /\ d \in PDTs \ spaces
  /\ pdt' = [pdt EXCEPT ![current_pcb] = d]
  /\ cr3' = d
  /\ spaces' = (spaces \cup {d}) \ {pdt[current_pcb]}
  /\ memory' = [e \in spaces' |-> IF e = d THEN 0 ELSE memory[e]]
  /\ regs' = [regs EXCEPT !.eip = 0, !.eax = 0]
  /\ view' = [view EXCEPT ![current_pcb] = regs']
  /\ store' = [store EXCEPT ![current_pcb] = 0]
  /\ UNCHANGED <<next_pid, kernel_esp0, context, tss_esp0>>

KHlt ==
  /\ Hlt
  /\ UNCHANGED <<next_pid, pcbVars, cpuVars, memVars, ghosts>>

KernelNext ==
  \/ KBootSkipsModule
  \/ \E p \in PCBs, d \in PDTs : KBootModule(p, d)
  \/ KBootRuns
  \/ KBootHalts
  \/ \E v \in Values : UserStep(v)
  \/ KTimerInterrupt
  \/ KeyboardInterrupt
  \/ \E r \in {0, Error} : PlainSyscall(r)
  \/ KSysYield
  \/ KSysExit
  \/ KForkFails
  \/ \E p \in PCBs, d \in PDTs : KSysFork(p, d)
  \/ \E d \in PDTs : KSysExec(d)
  \/ KHlt

KernelSpec == KernelInit /\ [][KernelNext]_kernelVars

-----------------------------------------------------------------------------
\* Safety: in ring 3 the machine is set up for the process that the scheduler
\* believes is running: cr3 holds its directory, which is still allocated,
\* and the TSS its own kernel stack, on which the next interrupt will save
\* its registers.
MachineMatchesCurrent ==
  phase = "user" =>
    /\ cr3 = pdt[current_pcb]
    /\ cr3 \in spaces
    /\ tss_esp0 = kernel_esp0[current_pcb]

\* Safety: the address spaces in use are exactly those of the processes that
\* exist, one each: none leaks at an exec, an exit or a failed fork, none is
\* shared, none is freed under a process that waits in the queue.
SpacesAccounted ==
  /\ spaces = {pdt[p] : p \in {q \in PCBs : Exists(q)}}
  /\ \A p, q \in PCBs : Exists(p) /\ Exists(q) /\ p # q => pdt[p] # pdt[q]

\* Safety: context switches are transparent: every process finds its
\* registers and its memory as its own code and its own system calls left
\* them, whichever way it lost the processor and whoever ran in between.
\* The keyboard handler's edx counts as the program's own here; that no
\* program asked for it is the subject of KernelClaims.tla.
ContextIntegrity ==
  /\ phase = "user" => regs = view[current_pcb]
  /\ \A k \in 1 .. Len(ready) : Resumed(context, ready[k]) = view[ready[k]]
  /\ \A p \in PCBs : Exists(p) => memory[pdt[p]] = store[p]

\* Action property: fork tells parent and child apart even when the pid
\* counter wraps: the parent's eax is not the 0 the child will see.  (It may
\* be Error: the last pid before the wrap reads like a failed fork.)
ForkTellsApart ==
  [][\A p \in PCBs :
       phase = "user" /\ state[p] = "NONE" /\ state'[p] = "READY"
         => regs'.eax # 0 /\ context'[p].eax = 0]_kernelVars

\* Refinement: with all the machine added, the scheduling of the kernel is
\* that of Scheduler.tla.
ImplementsScheduler == SchedSpec
=============================================================================
