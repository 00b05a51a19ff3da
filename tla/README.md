# A TLA+ model of the teaching kernel

The repository is a small x86 kernel in C and assembly. GRUB loads it with a
few programs as boot modules. It turns each module into a process, runs the
first in ring 3, and from then on only acts when it is interrupted: by the PIT
(preemption), by the keyboard, or by `int 0x80` (the system calls test, write,
exec, fork, yield and exit). This directory models what happens then, checks it
with TLC on small instances, and proves the main results for all instances with
TLAPS.

## The system and its parts

| part | source | models |
|---|---|---|
| ready queue, a ring buffer of 32 PCBs | `scheduler.c` 12-16, 199-280 | `ReadyQueue`, `ReadyList` |
| scheduler: FCFS, SJF with burst prediction, RR with a quantum | `scheduler.c` | `Scheduler` |
| boot loop over the modules | `kmain.c` 78-129, `process.c` | `Scheduler`, `Kernel` |
| timer interrupt | `pit.c`, `timer_handler.s` | `Scheduler`, `Kernel` |
| system calls | `syscall.c`, `syscall_handler.s` | `Scheduler`, `Kernel`, `AddressSpaces` |
| context switch: saved contexts, cr3, TSS | `scheduler.c` 346-392, `tss.c`, `user_mode.s` | `Kernel` |
| entry stub of the other interrupts | `interrupt_handler.s` | `Kernel` (registers), `Devices` |
| interrupt controller, gates, C handler, keyboard, text screen | `pic.c`, `idt.c`, `interrupt_handler.c`, `keyboard.c`, `io.c` | `Devices` |
| serial port | `serial_ports.c` | `SerialPort`, `Devices` |
| user address spaces | `syscall.c` 44-373, `process.c` | `AddressSpaces` |
| kernel page table, temporary mapping, TLB | `paging.c` and its callers | `Paging` |
| kernel heap | `kheap.c` | `KHeap`, `Arena` |
| page frame allocator, modules in memory | `pfa.c`, `kmain.c` 33-53 | `BootMemory`, `AddressSpaces` |
| module loader | `module_loader.c`, `syscall.c` 27-42 | `ModuleLoader`, `BootMemory` |
| descriptor tables, loader, PIT programming | | mostly not modelled, see below |

Two facts about the code shape every model.

* **Handlers are atomic.** All gates of the IDT are interrupt gates
  (`idt.c` 6-7), so a handler starts with interrupts off; the kernel never
  executes `sti`; `iret` restores the interrupt flag of ring 3. One handler is
  therefore one action, and concurrency is the arbitrary order of handlers and
  of ring 3 steps. Where the inside of a handler is worth checking a module of
  its own takes it apart: the loops of `scheduler_dequeue_sjf` (`ReadyQueue`),
  the allocations of fork and exec (`AddressSpaces`), the list walks of the heap
  (`KHeap`), the uses of the temporary mapping (`Paging`), and the waiting for
  the serial port, during which the devices go on (`Devices`).
* **A PCB is never reused.** `sys_exit` frees the address space and not the
  PCB, and a PCB freed by a failed fork was never visible. So `PCBs` is the set
  of all processes ever made, and its size bounds the number of forks.

## Modules

* `QueueOps`: removal from a queue, and "k is the first shortest burst".
* `ReadyList`: what the ready queue promises, a bounded list with enqueue,
  dequeue and dequeue of the first shortest burst.
* `ReadyQueue`: the array with `ready_head`, `ready_tail` and `ready_len`, and
  `scheduler_dequeue_sjf` with its locals and its two loops. It implements
  `ReadyList` under the mapping `Contents`, which during the shift puts the
  removed PCB back in its place.
* `Scheduler`: the list in place of the ring, `current_pcb`, `remaining_ticks`,
  `pit_ticks`, and `state`, `predicted_burst` and `last_dispatch_tick` of each
  PCB. One action per handler; `scheduler_schedule_from_context` is one
  operator per way it returns (`KeepSlice`, `StayOnFullQueue`, `Dispatch`,
  `NothingReady`). `uint32_t` arithmetic is modulo `UintMod`.
* `BootFits`: the assumption that the boot modules fit in the queue.
* `Kernel` extends `Scheduler`: every action is conjoined with what the handler
  does to the registers, the saved contexts, cr3, the TSS, the address spaces
  and `next_pid`; ring 3 (`UserStep`) and the keyboard are added. `view` and
  `store` are ghosts: what each program should find in its registers and its
  memory. Three registers stand for all, and an address space holds one value.
  `Error` is the `(uint32_t)-1` of a failed call, which is also the last pid
  before the counter wraps. `view` takes over what the keyboard stub does to edx:
  `ContextIntegrity` is about switches and system calls, and the run
  `claim_keyboard` about the stub.
* `AddressSpaces`: directories, tables and pages as frames of a finite memory,
  and fork, exec, exit and boot with one action per allocation, so that memory
  may run out at each. Directories and tables have three entries. `pfa_free`
  leaves in a frame what was there; the model keeps of it only that it is not
  what the next owner wrote: a table that is not cleared reads as `Garbage`, with
  an entry that nobody made, and a page that is not written as `Stale`. The
  second text page and the stack of a booted process start that way.
* `KHeap`: `kmalloc` and `kfree` with their locals, one turn of a list walk per
  action. Addresses count header units, as pointers to `Header` do; the sentinel
  `base` lies below the heap. `morecore` and `ksbrk` are one action each way they
  end, and `mapped` remembers the pages that a growth mapped before it failed.
  Callers hold blocks and may free any of them at any time.
* `Arena`: what the heap promises, blocks that do not overlap and do not change.
* `Paging`: the kernel's page table, the directories as far as the processor
  sees them, the TLB and cr3. A routine of `process.c` or `syscall.c` is the
  sequence `todo` of its operations on the window (open, access, close), on
  entries and on cr3, in the order of the code; between any two of them the
  processor may cache any translation the tables give. It starts from the
  directory of `loader.s`, which maps the first 4MB at 0 as well. `inUse` is a
  ghost: the whole address space that cr3 was last loaded for. Allocations that
  fail are left to `AddressSpaces`; the second text page of a booted process,
  which is mapped and freed like the first, is left out.
* `ModuleLoader`: strings as sequences; copying with truncation, comparison of a
  path with a command line, registration and lookup.
* `BootMemory`: `kmain` up to the first allocation, and the allocator after it.
  The bitmap is the set of frames whose bit is set. `out` is a ghost, the frames
  handed out.
* `SerialPort`: `serial_write` step by step against a UART (external) with a
  queue, a shift register and a divisor that shares the data port. `owed` is a
  ghost: what was logged and has not left the wire.
* `Devices` extends `SerialPort`: request and in-service registers of the
  controller and the lines of timer and keyboard (external), the handlers as a
  sequence `todo` of what the kernel still does, the cursor, the cells and the
  two bytes of the cursor register. `shown` is a ghost: whether keys have moved
  the cursor since the text of `get_module_list`, and past 2^16. All 2^16
  positions are cells, but only the first `ScreenCells` are on the screen;
  `fb_clear` clears those, and the others hold what nobody has written
  (`Leftover`).
* `KernelClaims`: the statement of a comment that the code does not keep.
* `ReadyQueueProofs`, `SchedulerProofs`, `KernelProofs`, `SpaceForest`,
  `AddressSpacesProofs`, `KHeapProofs`, `PagingProofs` and `MachineProofs` (for
  `BootMemory` and `Devices`): the theorems.
* `MC*`: the instances for TLC. `KHeap` and `Paging` need none, their constants
  are numbers.

`ReadyQueue` refines `ReadyList`, whose operators `Scheduler` uses; `Kernel`
refines `Scheduler`. `AddressSpaces` looks inside the steps that `Kernel` takes
as atomic (`KSysFork`, `KForkFails`, `KSysExec`, `KSysExit`); that the two fit
together is argued here and not checked: what `Kernel` says of a directory
(used by one process, copied by fork, gone after exit) is what `NoSharing`,
`ForkCopies`, `Undisturbed` and `FramesAccounted` establish of its frames. In
the same way `Paging` justifies that `AddressSpaces` reads and writes the frame
it means, `BootMemory` that its free frames hold no program, and `KHeap` that
PCBs and kernel stacks do not overlap. `Devices` shows what
the fairness of the timer in `Scheduler` rests on: every interrupt is acknowledged
(`InServiceSound`), so the next one can come.

Definitions whose comment begins with "Mutant:" are deliberate errors. None is
used; each replaces a definition of the model in an experiment that shows that
the property it is meant for can fail.

## What TLC checks

| run | instance | distinct states | what it shows |
|---|---|---|---|
| `ring` | 3 PCBs, 3 slots, 2 burst values | 174,588 | `TypeOK`, `TailFollowsHead`, the loop invariants `SjfInv`, the refinement `ImplementsList`, and `SjfReturns` |
| `sched_shipped` | preemptive SJF, 4 PCBs, 4 slots, ticks mod 4 | 58,481 | every prediction stays 1 (`PredictionsPinned`), so the oldest goes first (`OldestFirst`); `ReadyEventuallyRuns` |
| `sched_rr` | RR, 3 PCBs, quantum 3, ticks mod 5 | 322,792 | `SchedTypeOK`; no turn exceeds the quantum (`QuantumBound`); `ReadyEventuallyRuns` |
| `sched_coop` | cooperative SJF, 4 PCBs, 2 slots, bursts mod 5 | 283,202 | a full queue loses nobody (`NoProcessLost`, `ReadyQueueSound`); overflowing predictions never become unusable (`QueuedKeysAreReal`) |
| `kernel` | 2 processes, 1 slot, 3 directories, pids mod 3 | 528,716 | `KernelTypeOK`; cr3 and TSS (`MachineMatchesCurrent`), `SpacesAccounted`, `ContextIntegrity`, the return values of fork (`ForkTellsApart`), `ImplementsScheduler` |
| `spaces` | 2 processes, 13 frames, programs of up to 2 pages | 624,645 | no frame leaks (`FramesAccounted`) or is shared (`NoSharing`) at any step; `KernelMapped`; children are copies (`ForkCopies`); nobody else's memory changes (`Undisturbed`); `CallsReturn` |
| `heap` | pages of 3 units, 4 pages, up to 2 frames at a time, blocks of 2, 3 and 5 units | 201,074 | `HeapTiled`, `ListOrdered`, `SearchIsComplete`, `ImplementsArena`, `HeapCallsReturn` |
| `paging` | 11 frames, two processes of two pages, two heap pages, one page elsewhere | 1,374,152 | `WindowHits`, `TlbCoherent`, `DirectoryInUse` |
| `boot` | pages of 2 bytes, up to 3 modules of 0 to 3 bytes, 2 registered, names of up to 4 characters cut to 3 | 58,662 | `ModulesSurvive`, `FindsByName` |
| `devices` | messages of one character, 5 cells in lines of 4, of which 4 on the screen | 864,852 | `TelemetryIntact`, `InServiceSound`, `EchoSound`, `KeysHandled` |

The bounds are chosen so that the cases happen. The ring wraps and is full and
empty; the tick counter, the pid counter and the sum in the prediction wrap;
the queue is smaller than the number of processes in two runs and large enough
in the others. 13 frames hold two booted processes with one frame to spare, or
one process and most of a second, so that every allocation of fork and exec
fails in some state. In the heap a block of 5 units needs two pages, so that a
growth can fail after its first page; sizes 2 and 3 split blocks into every
remainder, a block of one unit included. In `paging` each of two processes can
be booted, forked into, replaced and destroyed. In `boot` modules end inside
pages, names are prefixes of one another and longer than what is kept, and there
are more modules than registered ones. In `devices` the cursor leaves the
screen and wraps in the middle of a line, as 65536 is no multiple of 80. Symmetry over PCBs (and over
page directories in `Kernel`) is used only in runs without liveness properties;
nothing in the models orders them.

### Fairness

* `ReadyQueue`, `AddressSpaces`, `KHeap`: weak fairness of the steps inside a call.
  Kernel code is not interrupted, so a call that has begun goes on.
* `Scheduler`: weak fairness of the boot loop, and of the timer interrupt in
  ring 3. The PIT is periodic, its line is unmasked (`idt.c` 68), each handler
  acknowledges it (`pit.c` 98), and every process runs with the interrupt flag
  set (`process.c` 188, `scheduler.c` 391). Nothing is assumed of programs: they
  may never yield or exit.
* `Devices`: weak fairness of the kernel, of the UART and of the timer interrupt:
  a tick has the highest priority, so while it is pending in ring 3 nothing goes
  before it. Strong fairness of the keyboard interrupt: the controller offers it
  whenever the processor is in ring 3 and no tick is pending, which may be again and
  again but not without pause. Nothing is assumed about the speed of the port and
  the period of the timer; instead `KeysHandled` names the one case in which a scan
  code is never read, `TicksTakeAll`: handlers go on ending and starting, and each
  time that one ends the next tick is there. This is no idle case. As
  shipped (SJF, `kmain.c` 95) a tick with a process in the ready queue logs the
  `[SJF]` line (`scheduler.c` 277) besides its own two, 63 to 69 characters in all,
  which take 11 to 12 milliseconds at 57600 baud; the ticks are 10 apart. With
  a single process it is 40 characters and 7 milliseconds, and keys are read.
  `KeysHandled` allows, too, for the end of the last process, after which the
  kernel halts with interrupts off.

`ReadyEventuallyRuns` is claimed for preemptive policies with a queue that can
hold every process. With a full queue the running process is never replaced,
and cooperative scheduling promises nothing about a program that does not yield.

### Comments the code does not keep

Two runs are expected to fail; each checks the statement of one comment.

| run | comment | what happens |
|---|---|---|
| `claim_keyboard` (`KeyboardTransparent`) | `interrupt_handler.s:16`: the old values of the registers are saved | only eax and ebx are |
| `claim_heap` (`FramesStayMapped`) | `kheap.c:4`: the heap maps the frames it allocates | a growth that fails half way keeps its frames; the next one maps over them, and they are lost |

What follows is in the models but needs no run to be seen.

* `scheduler.c:342` says a used-up quantum changes the process. With the ready
  queue full the enqueue of line 357 fails and the same process goes on.
* `scheduler.c:24` calls `remaining_ticks` the ticks left. A yield
  (`syscall.c:499`) takes the same path as a tick: it takes one off, and does not
  give up the processor before the slice ends.
* `syscall.c:423` says that after exec the task is ready for the next selection.
  It is marked READY, but it is running and not in the queue.
* `kmain.c:97` says the other boot modules enter the ready queue. One that does
  not fit is marked READY and dropped.
* `serial_ports.c:22-27` speaks of the higher and the lower byte of the divisor.
  Both go to the same register, so the second replaces the first; the divisor 2
  fits in it.

## What is proved

The theorems hold for every value of the constants that satisfies the
assumptions `ReadyQueueAssumption`, `SchedulerAssumption`, `ModulesFit`,
`KernelAssumption` and `ContextAssumption` (capacity at least 1, the null
pointer is no PCB, and so on), `AddressSpacesAssumption`, `KHeapAssumption`,
`PagingAssumption`, `ModuleLoaderAssumption`, `BootMemoryAssumption`,
`SerialPortAssumption` and `DevicesAssumption`. Every safety property and every
refinement that a passing run checks is also proved; liveness is not.

**`ReadyQueueProofs`.** The inductive invariant `IInv` is the conjunction of
`TypeOK`, `TailFollowsHead`, `NoNullQueued` and `SjfInv`. The first three are
not inductive alone: the shift overwrites slots, and only `SjfInv` says that it
stays inside the queue and that `best_pcb` still stands for the slot that was
overwritten. From it follow the four invariants and `RingImplementsList`: the
scan and shift steps do not change the list `Contents`, and `SjfFinish` removes
from it the element that `IsShortest` describes.

**`SchedulerProofs`.** `SchedIInv` adds three things to the types. `BootInv`:
during boot the queue plus the modules to come fit (this is where `ModulesFit`
is used). `QueueInv`: the queue has no repetitions, holds READY processes only
and not the owner of the processor, and every existing process is the owner or
queued. `NonZeroPredictions`: no prediction is 0. It gives `QueueIsSound`,
`NoneLost` and `KeysAreReal` for every policy and capacity, full queues
included, and `FifoOldestFirst` for FCFS and RR.
`ShippedPredictions`, `ShippedOldestFirst` and `QuantumIsKept` assume besides
that at most `Capacity` processes are ever made. By counting, the queue is then
never full when the running process is put back (`NeverFull`). Each needs an
invariant of its own: for the predictions, that the running process was
dispatched at the current tick; for the quantum, `QuantumBound` itself with the
distance between two ticks computed modulo `UintMod`.

**`KernelProofs`.** `KernelImplementsScheduler` maps every step of the kernel
to a step of the scheduler or to a stutter, so the theorems above hold of it.
`KernelIInv` adds to `SchedIInv` that cr3 and the TSS belong to the running
process, that the directories in use are those of the existing processes, one
each, and that the ghosts agree with the registers, the saved contexts and the
memory. The parts need each other: that a switch which leaves cr3 alone is
right follows from the directories being different, and that exit may free a
directory from no other process having it.

**`SpaceForest`, `AddressSpacesProofs`.** `FramesAccounted` and `NoSharing` are
not inductive: that freeing a page is right depends on no other entry leading to
it, and that a new table may be linked depends on it being empty. `SpacesInv`
says it in one picture: the frames under all directories, finished or not, are a
forest of three levels in which no frame hangs at two places, no frame has two
uses, and a frame is allocated exactly if it has one. `Call` adds whom the running
call serves, and `Progress` how far its loops are: what is still to be filled is
empty, what has been destroyed is gone. `SpaceForest` proves once that the
forest survives the few ways it is changed (a directory, table, page, heap frame or
whole image is added, a table or directory is taken away);
`AddressSpacesProofs` shows that every action is one of those or none.
`FramesAlwaysAccounted`, `SpacesNeverShared` and `KernelAlwaysMapped` follow for
every number of processes and frames. The depth of two levels and three entries
per table is that of the model.

The same module goes on to the contents of memory. A step that fills or frees
frames of the directory under construction touches none that a process sees,
which is `MemoryUndisturbed`. `ForkAlwaysCopies` needs one invariant more,
`Copied`: what the loops of `clone_user_space` have passed is in the child as it
is in the parent.

**`KHeapProofs`.** `HeapInv` sees the heap in two ways and ties them together.
By headers: a block begins where `size` is not 0, two blocks do not overlap, and
every unit of the heap lies in one (`Tiles`). By links: each free block
points to the next one above it and the last to the sentinel (`Linked`), which is
a statement about single links and not about paths, so that taking a block out,
putting one in and moving a boundary each need one lemma (`LinkOut`, `LinkIn`,
`Cuts`, `Joins`, `Grows`). No free block touches the next (`Apart`). `Locals` says
what the variables of a call mean in its middle: everything that a search has
passed, from `freep` around to `prevp`, was too small, and the block to be put
back is neither held nor in the list. `HeapAlwaysTiled` and
`SearchAlwaysComplete` follow, and `HeapImplementsArena`, in which only the steps
that hand out or take back a block are visible. `ListOrdered` speaks of the list as
one meets it by following `next` from the sentinel (`After`, a recursive
function); that this meets every free block in order, and then the sentinel, is
shown for each number of steps by a least counterexample, with the
well-foundedness of the natural numbers.

**`PagingProofs`.** The properties depend on what a routine will do next, so
`PagingInv` is about `todo`. `PendingAt(i)` says of operation `i` what must have
come before it or will come after it: an access has its window opened by the
operation before; an entry is changed in a directory that is not in use at that
point, or its page is flushed later; a frame is freed only when no `update_cr3`
is left and no address space has it. This is preserved when the first operation
is done (`PendingRest`) and when pieces are put together (`ScriptJoined`), so each
routine of `process.c` and `syscall.c` is shown to satisfy it piece by piece, once
when it starts. exec and exit are the two that change cr3 in the middle
(`SwitchPending`). `SpacesApart` says that no frame has two uses, which rests on
`pfa_alloc` returning different free frames (`AllocGives`); `Rooted`, that the
address space in use belongs to a process, or is about to be left and still has
all its frames. `WindowAlwaysHits`,
`TlbAlwaysCoherent` and `DirectoryAlwaysInUse` follow, whatever the processor
caches and whenever. Two pages per address space are those of the model.

**`MachineProofs`: boot.** `ModulesAlwaysSurvive`: every byte of a module lies in a
page that the loops reserve, because modules begin on a page boundary, and a
reserved frame is never given out, hence never freed. Alignment is an assumption
on GRUB (the Multiboot header asks for it, `loader.s`); the modules lie in the
64MB behind the kernel, as `mem_end` says. `NamesAlwaysFound` speaks of whole names: a
path of fewer than `CMDLINE_MAX_LEN` (63) characters finds the first registered
module with exactly that name, and none whose longer name was cut off; a path of
63 or more finds the first whose name agrees in the first 63. It rests on a lemma for each
side of the cut (`MatchesMeant`) and needs that exec keeps exactly as many characters as the loader (63 of
`EXEC_PATH_MAX` 64, and `MODULE_CMDLINE_MAX_LEN` 63).

**`MachineProofs`: devices.** `TelemetryAlwaysIntact` rests on `PortInv`, which ties the
place in `serial_write` to the state of the UART: the queue is empty while the
port is set up, holds at most one character when the line feed is added without
waiting, and the data port leads to the divisor only between two steps in which
nothing is queued. `InServiceAlwaysSound` rests on the shape of handlers: one
acknowledgement, at the end, so that what is in service can be read off what is
still to be done. `EchoAlwaysSound` is about the cells on the screen; nothing is
assumed of those behind it. It needs what the loop of `fb_write` leaves of the
banner (`FbWriteIs`: the text in the first cells, by a least counterexample over the
turns of the loop). The banner is assumed to have no line feed and to end before
the place where keys appear, as the one in `get_module_list` does.

**Only model-checked.** The liveness properties `SjfReturns`,
`ReadyEventuallyRuns`, `CallsReturn`, `HeapCallsReturn` and `KeysHandled`: liveness
under fairness and `ENABLED` are out of the prover's reach. Induction over data
with the library's theorems is too, which is why the facts that need one
(`WalkExists` and `WalkInv` of the heap, `RankExists` of the allocator,
`FbWriteIs`) go by a least counterexample.

## What is not modelled

* **Boot without enough memory.** `alloc_page_table`, `alloc_page_frames` and
  `alloc_stack` do not check `pfa_alloc`; on failure they write to frame 0.
  The models boot with memory enough, or fail cleanly where the code does.
* **What exit keeps.** The PCB and the kernel stack of an ended process are never
  freed. `Kernel` has as many PCBs as it is given; the heap that runs out is in
  `KHeap`, with callers that keep what they like.
* **The space for the bitmap.** `pfa_init` sets memory aside for a bitmap that
  lies in the kernel's data; this is modelled as it is, memory left unused.
  GRUB's own structures (the information block, the module list) are not
  reserved by the code and not modelled; `kmain` reads the list again after
  allocations have begun.
* **Data in the first 4MB.** Boot modules are read through the identity mapping of
  `loader.s`. `copy_module` copies one page.
* **Code that is never reached.** The newline branch of `fb_write` (`io.c` 77-81),
  the second half of `paging_map_page` (`paging.c` 71-95, `MapOtherPage`: only the
  heap maps pages, all in the kernel's 4MB) and `paging_unmap_page` are modelled,
  but no caller in the repository reaches them; `run_module` has no caller and is
  left out.
* **Real time.** How many ticks are lost while handlers wait for the serial port:
  ticks that come meanwhile merge or turn spurious in `Devices`, and `Scheduler`
  counts those that arrive.
* **A divisor written while a character is on the wire.** `serial_write` waits for
  an empty queue, not for an idle line, before it writes the divisor. The
  value is the same, except for the moment between its two bytes; the model
  takes a character on the wire to arrive.
* **GDT, TSS set-up, gate encoding, `pic_init`, `pit_init`, most of `loader.s`**:
  executed once, bit packing and port writes. What matters of them is stated
  above under atomicity and fairness, and as `Gates` and `Init` of `Devices`. The
  product in `pit_init` fits in 32 bits for the 10 milliseconds it is called
  with.
* **Faults.** No exception has a handler in the IDT; programs in the models do
  not fault.
