-------------------------------- MODULE Paging --------------------------------
(***************************************************************************)
(* The kernel page table, the one window through which the kernel reaches  *)
(* physical frames, and the TLB: paging.c, update_cr3, and the order in    *)
(* which the routines of process.c and syscall.c open, use and close the   *)
(* window.  The hardware may load any translation that the page tables     *)
(* give into the TLB at any time, and uses what it finds there even if the *)
(* tables have changed since.                                              *)
(*                                                                         *)
(* A routine is the sequence of its window and mapping operations, on      *)
(* frames it was given: which allocations fail, and what frames hold, is   *)
(* the subject of AddressSpaces.  A process has a text page (the second    *)
(* one that GRUB modules get goes the same way and is left out) and a      *)
(* stack page, each mapped by a table of its own.                          *)
(***************************************************************************)
EXTENDS Integers, FiniteSets, Sequences, Functions

CONSTANTS
  NumFrames,       \* frames the page frame allocator may hand out
  mapped_frames,   \* pages of the kernel image
  TEMP_PT_INDEX,   \* the last page of the kernel's 4MB: the window
  Others           \* page indices of another 4MB of the kernel's directory

ASSUME PagingAssumption ==
  /\ NumFrames \in Nat /\ TEMP_PT_INDEX \in Nat
  /\ mapped_frames \in 1 .. TEMP_PT_INDEX - 1
  /\ Others \subseteq Nat /\ Others \cap (0 .. TEMP_PT_INDEX) = {}

Frames == 1 .. NumFrames
None == 0                      \* an entry that is not present
KIndex == 0 .. TEMP_PT_INDEX   \* virtual pages of the kernel
HeapIndex == mapped_frames .. TEMP_PT_INDEX - 1
TEXT == -1                     \* virtual pages of a process
STACK == -2
LowPages == Others \cup {TEXT, STACK}
Pages == KIndex \cup LowPages
BOOT == 0                      \* page_directory of loader.s, as a value of cr3

\* The physical frame of a kernel page: not one the allocator gives out.
Identity(i) == NumFrames + 1 + i

VARIABLES
  kernel_page_table,  \* entry of each kernel page
  maps,               \* what each directory maps besides: page |-> frame
  otherTable,         \* the table of page_directory's other entry, or None
  spaces,             \* the address spaces, <<pdt, pt, text, spt, stack>>
  free,               \* free frames
  cr3,                \* the directory in use
  inUse,              \* ghost: the address space cr3 was loaded for, or <<>>
  tlb,                \* translations the processor holds: page |-> frame
  todo                \* the operations that the running routine still does

tableVars == <<kernel_page_table, maps, otherTable>>
vars == <<tableVars, spaces, free, cr3, inUse, tlb, todo>>

-----------------------------------------------------------------------------
(* The processor (external) *)

\* What the tables say about page v.
Walk(v) == IF v \in KIndex THEN kernel_page_table[v] ELSE maps[cr3][v]

\* Where an access to v goes.
Translate(v) == IF tlb[v] # None THEN tlb[v] ELSE Walk(v)

Invlpg(v) == tlb' = [tlb EXCEPT ![v] = None]
FlushTlb == tlb' = [v \in Pages |-> None]

\* A translation is cached, by an access or ahead of one.
TlbFill(v) ==
  /\ Walk(v) # None
  /\ tlb[v] = None
  /\ tlb' = [tlb EXCEPT ![v] = Walk(v)]
  /\ UNCHANGED <<tableVars, spaces, free, cr3, inUse, todo>>

-----------------------------------------------------------------------------
(* The operations of which routines are made *)

Map(f) == [op |-> "map", f |-> f]          \* paging_temp_map
Touch(f) == [op |-> "touch", f |-> f]      \* an access meant for frame f
Unmap == [op |-> "map", f |-> None]        \* paging_temp_unmap
SetPage(d, v, f) == [op |-> "page", d |-> d, v |-> v, f |-> f]
LoadCr3(d) == [op |-> "cr3", d |-> d]      \* update_cr3
Release(f) == [op |-> "free", f |-> f]     \* pfa_free
Flush(v) == [op |-> "invlpg", v |-> v]
Start == [op |-> "init"]                   \* paging_init

Do(op) ==
  /\ todo # <<>>
  /\ Head(todo).op = op
  /\ todo' = Tail(todo)

\* paging_temp_map and paging_temp_unmap
TempMap ==
  /\ Do("map")
  /\ kernel_page_table' = [kernel_page_table EXCEPT ![TEMP_PT_INDEX] = Head(todo).f]
  /\ Invlpg(TEMP_PT_INDEX)
  /\ UNCHANGED <<maps, otherTable, spaces, free, cr3, inUse>>

TempTouch ==
  /\ Do("touch")
  /\ tlb' = [tlb EXCEPT ![TEMP_PT_INDEX] = Translate(TEMP_PT_INDEX)]
  /\ UNCHANGED <<tableVars, spaces, free, cr3, inUse>>

\* An entry of a table other than the kernel's is written.
SetEntry ==
  /\ Do("page")
  /\ maps' = [maps EXCEPT ![Head(todo).d][Head(todo).v] = Head(todo).f]
  /\ UNCHANGED <<kernel_page_table, otherTable, spaces, free, cr3, inUse, tlb>>

UpdateCr3 ==
  /\ Do("cr3")
  /\ cr3' = Head(todo).d
  /\ inUse' = CHOOSE s \in spaces : s[1] = Head(todo).d
  /\ FlushTlb
  /\ UNCHANGED <<tableVars, spaces, free>>

PfaFree ==
  /\ Do("free")
  /\ free' = free \cup {Head(todo).f}
  /\ UNCHANGED <<tableVars, spaces, cr3, inUse, tlb>>

FlushPage ==
  /\ Do("invlpg")
  /\ Invlpg(Head(todo).v)
  /\ UNCHANGED <<tableVars, spaces, free, cr3, inUse>>

\* paging_init: 4KB pages for the kernel image, none for the heap and the
\* window, in place of the 4MB page of loader.s.
PagingInit ==
  /\ Do("init")
  /\ kernel_page_table' =
       [i \in KIndex |-> IF i < mapped_frames THEN Identity(i) ELSE None]
  /\ FlushTlb
  /\ UNCHANGED <<maps, otherTable, spaces, free, cr3, inUse>>

-----------------------------------------------------------------------------
(* The routines of syscall.c and process.c, as sequences of operations *)

Window(f) == <<Map(f), Touch(f), Unmap>>

alloc_zeroed_frame(f) == Window(f)

create_user_pdt(d) == alloc_zeroed_frame(d) \o Window(d)

\* d has no table for v yet: t becomes that table.
map_user_page(d, t, v, f) ==
  Window(d) \o alloc_zeroed_frame(t) \o Window(d)
    \o <<Map(t), Touch(t), SetPage(d, v, f), Unmap>>

\* One turn of the loop over chunks.
copy_frame_page(src, dst) == Window(src) \o Window(dst)
copy_phys_region_to_frame(dst, src) == Window(dst) \o Window(src) \o Window(dst)

setup_user_stack(d, t, f) == map_user_page(d, t, STACK, f) \o Window(f)

build_new_image(s, src) ==
  create_user_pdt(s[1]) \o map_user_page(s[1], s[2], TEXT, s[3])
    \o copy_phys_region_to_frame(s[3], src) \o setup_user_stack(s[1], s[4], s[5])

\* One present entry of the parent's directory: its table and its page.
CloneEntry(d, t, f, c, ct, v, cf) ==
  Window(d) \o alloc_zeroed_frame(ct) \o Window(c) \o Window(t)
    \o copy_frame_page(f, cf) \o <<Map(ct), Touch(ct), SetPage(c, v, cf), Unmap>>

clone_user_space(s, c) ==
  create_user_pdt(c[1]) \o CloneEntry(s[1], s[2], s[3], c[1], c[2], TEXT, c[3])
    \o CloneEntry(s[1], s[4], s[5], c[1], c[4], STACK, c[5])

\* Mutant: the directory is read again while the table is in the window.
DestroyEntryNested(d, t, v, f) ==
  <<Map(t), Touch(t), Map(d), Touch(d), Unmap, Touch(t)>>
    \o <<SetPage(d, v, None), Release(f), Release(t)>>

\* One present entry: the window stays open while its pages are freed.
DestroyEntry(d, t, v, f) ==
  Window(d) \o <<Map(t), Touch(t), Release(f), Unmap, Release(t)>>
    \o <<Map(d), Touch(d), SetPage(d, v, None), Unmap>>

destroy_user_space(s) ==
  DestroyEntry(s[1], s[2], TEXT, s[3]) \o DestroyEntry(s[1], s[4], STACK, s[5])
    \o <<Release(s[1])>>

\* create_pcb, alloc_page_table, alloc_page_frames, copy_module, alloc_stack
create_pcb_grub_modules(s) ==
  Window(s[1]) \o Window(s[1]) \o Window(s[2]) \o Window(s[1])
    \o <<Map(s[2]), Touch(s[2]), SetPage(s[1], TEXT, s[3]), Unmap>>
    \o Window(s[2]) \o Window(s[3]) \o Window(s[4])
    \o <<Map(s[4]), Touch(s[4]), SetPage(s[1], STACK, s[5]), Unmap>> \o Window(s[1])

-----------------------------------------------------------------------------
(* What starts a routine *)

Idle == todo = <<>>

\* The first n frames that pfa_alloc returns, in order.
Alloc(n) ==
  [k \in 1 .. n |-> CHOOSE f \in free : Cardinality({g \in free : g <= f}) = k]
Takes(n) ==
  /\ Cardinality(free) >= n
  /\ free' = free \ Range(Alloc(n))

\* A process takes over: scheduler_schedule_from_context, run_user_mode_module.
Run(s) ==
  /\ Idle
  /\ cr3 # s[1]
  /\ todo' = <<LoadCr3(s[1])>>
  /\ UNCHANGED <<tableVars, spaces, free, cr3, inUse, tlb>>

BootModule ==
  /\ Idle
  /\ cr3 = BOOT
  /\ Takes(5)
  /\ spaces' = spaces \cup {Alloc(5)}
  /\ todo' = create_pcb_grub_modules(Alloc(5))
  /\ UNCHANGED <<tableVars, cr3, inUse, tlb>>

\* sys_fork of the process that runs on s.
Fork(s) ==
  /\ Idle
  /\ cr3 = s[1]
  /\ Takes(5)
  /\ spaces' = spaces \cup {Alloc(5)}
  /\ todo' = clone_user_space(s, Alloc(5))
  /\ UNCHANGED <<tableVars, cr3, inUse, tlb>>

\* Mutant: only the old directory is kept until the processor has left it.
ExecDestroysFirst(s) ==
  /\ Idle
  /\ cr3 = s[1]
  /\ Takes(5)
  /\ spaces' = (spaces \ {s}) \cup {Alloc(5)}
  /\ todo' = build_new_image(Alloc(5), Identity(0))
               \o DestroyEntry(s[1], s[2], TEXT, s[3]) \o DestroyEntry(s[1], s[4], STACK, s[5])
               \o <<LoadCr3(Alloc(5)[1]), Release(s[1])>>
  /\ UNCHANGED <<tableVars, cr3, inUse, tlb>>

\* sys_exec: the module lies outside the allocator's frames.
Exec(s) ==
  /\ Idle
  /\ cr3 = s[1]
  /\ Takes(5)
  /\ spaces' = (spaces \ {s}) \cup {Alloc(5)}
  /\ todo' = build_new_image(Alloc(5), Identity(0)) \o <<LoadCr3(Alloc(5)[1])>>
               \o destroy_user_space(s)
  /\ UNCHANGED <<tableVars, cr3, inUse, tlb>>

\* sys_exit of the process on s, when the one on r takes over.
Exit(s, r) ==
  /\ Idle
  /\ cr3 = s[1]
  /\ spaces' = spaces \ {s}
  /\ todo' = <<LoadCr3(r[1])>> \o destroy_user_space(s)
  /\ UNCHANGED <<tableVars, free, cr3, inUse, tlb>>

\* Mutant: a page that is mapped again keeps its old translation.
MapHeapPageUnflushed(i) ==
  /\ Idle
  /\ Takes(1)
  /\ kernel_page_table' = [kernel_page_table EXCEPT ![i] = Alloc(1)[1]]
  /\ UNCHANGED <<maps, otherTable, spaces, cr3, inUse, tlb, todo>>

\* paging_map_page on a kernel page: ksbrk gives it a new frame, also where an
\* earlier growth that failed has left one.
MapHeapPage(i) ==
  /\ Idle
  /\ Takes(1)
  /\ kernel_page_table' = [kernel_page_table EXCEPT ![i] = Alloc(1)[1]]
  /\ Invlpg(i)
  /\ UNCHANGED <<maps, otherTable, spaces, cr3, inUse, todo>>

\* paging_map_page on a page of another 4MB of the kernel's directory: without
\* a frame for the table it returns with nothing mapped.
MapOtherPage(v, f) ==
  /\ Idle
  /\ LET t == IF otherTable = None THEN Alloc(1)[1] ELSE otherTable
         script == <<Map(t), Touch(t), SetPage(BOOT, v, f), Unmap, Flush(v)>>
     IN IF otherTable = None /\ free = {}
        THEN UNCHANGED <<otherTable, free, todo>>
        ELSE /\ otherTable' = t
             /\ free' = free \ {t}
             /\ todo' = script
  /\ UNCHANGED <<kernel_page_table, maps, spaces, cr3, inUse, tlb>>

\* paging_unmap_page; it leaves pages of other tables as they are.
UnmapPage(i) ==
  /\ Idle
  /\ kernel_page_table' = [kernel_page_table EXCEPT ![i] = None]
  /\ Invlpg(i)
  /\ UNCHANGED <<maps, otherTable, spaces, free, cr3, inUse, todo>>

-----------------------------------------------------------------------------
\* What loader.s leaves: the first 4MB, whole, at the kernel's addresses and
\* also where they lie, which is where processes have their text.
Init ==
  /\ kernel_page_table = [i \in KIndex |-> Identity(i)]
  /\ maps = [d \in Frames \cup {BOOT} |-> [v \in LowPages |->
               IF d = BOOT /\ v = TEXT THEN Identity(0) ELSE None]]
  /\ otherTable = None
  /\ spaces = {}
  /\ free = Frames
  /\ cr3 = BOOT /\ inUse = <<>>
  /\ tlb = [v \in Pages |-> None]
  /\ todo = <<Start>>

Step ==
  TempMap \/ TempTouch \/ SetEntry \/ UpdateCr3 \/ PfaFree \/ FlushPage \/ PagingInit

Next ==
  \/ \E v \in Pages : TlbFill(v)
  \/ Step
  \/ BootModule
  \/ \E s \in spaces : Run(s) \/ Fork(s) \/ Exec(s)
  \/ \E s, r \in spaces : s # r /\ Exit(s, r)
  \/ \E i \in HeapIndex : MapHeapPage(i) \/ UnmapPage(i)
  \/ \E v \in Others : MapOtherPage(v, Identity(0))

Spec == Init /\ [][Next]_vars

-----------------------------------------------------------------------------
\* Safety: whenever the kernel reads or writes through the window, the access
\* reaches the frame it was opened for: no routine has moved or closed the
\* window in between, and the TLB does not remember an earlier frame.
WindowHits ==
  todo # <<>> /\ Head(todo).op = "touch"
    => Translate(TEMP_PT_INDEX) = Head(todo).f

\* The page whose entry has changed and whose invlpg is still to come.
Flushing == {todo[i].v : i \in {k \in DOMAIN todo : todo[k].op = "invlpg"}}

\* Safety: the TLB holds no translation that the tables in use do not give:
\* after the switch from the 4MB page, when the heap or the window is mapped
\* again, and when exec and exit take an address space apart.
TlbCoherent ==
  \A v \in Pages \ Flushing : tlb[v] \in {None, Walk(v)}

\* Safety: from update_cr3 to the next one the processor can walk the whole
\* address space it was given: neither its directory nor a table or a page of
\* it is freed before, whatever exec and exit take apart; and whenever no
\* routine is running it is one that a process has.
DirectoryInUse ==
  cr3 # BOOT =>
    /\ \A i \in 1 .. 5 : inUse[i] \notin free
    /\ Idle => inUse \in spaces
=============================================================================
