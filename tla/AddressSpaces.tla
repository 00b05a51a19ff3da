---------------------------- MODULE AddressSpaces ----------------------------
(***************************************************************************)
(* How fork, exec and exit build, copy and tear down user address spaces,  *)
(* frame by frame, when the page frame allocator may run dry at any        *)
(* allocation: clone_user_space, build_new_image, setup_user_stack,        *)
(* map_user_page and destroy_user_space of syscall.c, the boot images of   *)
(* process.c, and pfa_alloc and pfa_free of pfa.c.  An action is one turn  *)
(* of a loop, that is, at most one allocation and its failure path.  The   *)
(* kernel cannot be interrupted, so one operation runs at a time.          *)
(*                                                                         *)
(* A directory and a table have three entries here: directory entry 0 maps *)
(* the program, 1 the stack, 2 the kernel.  A free frame holds whatever    *)
(* its last owner left there: pfa_free does not clear it.  Which of it is  *)
(* not kept; it stands as Garbage when it is read as a table, with entries *)
(* that nobody made, and as Stale when it is read as a page.               *)
(***************************************************************************)
EXTENDS Integers, FiniteSets, FiniteSetsExt

CONSTANTS
  Procs,       \* the processes
  NULL,        \* no process
  NumFrames,   \* the frames that pfa_init left free
  MaxPages,    \* the size in pages of the largest boot module, at most 3
  Contents     \* what a page can hold; 0 is a zeroed page

ASSUME AddressSpacesAssumption ==
  /\ NULL \notin Procs
  /\ NumFrames \in Nat
  /\ MaxPages \in 1 .. 3
  /\ Contents \subseteq Nat /\ {0, 1} \subseteq Contents

Frames == 1 .. NumFrames
NoFrame == 0           \* what pfa_alloc returns when it has none
Absent == -1           \* an entry without the present bit
KernelTable == -2      \* the kernel's entry, page_directory[768]
Stale == -3            \* what a page holds that was not written since it was free

Index == 0 .. 2
KERNEL_PD_INDEX == 2
StackDir == 1
StackPage == 2

VARIABLES
  used,        \* the bitmap of pfa.c: the allocated frames
  table,       \* the entries of every frame that is read as a table
  data,        \* the contents of every frame that is read as a page
  root,        \* the page directory of each process, or NoFrame
  heap,        \* the frames the kernel heap has taken, for ever
  pc,          \* "idle", or the loop that is running
  who, child,  \* the calling process; the process that fork creates
  new, old,    \* the directory being built; the one being destroyed
  pd, pt,      \* the loop counters pd_index and pt_index
  pages        \* the pages of the module that exec loads

frameVars == <<used, table, data>>
callVars == <<who, child, new, old, pd, pt, pages>>
vars == <<frameVars, root, heap, pc, callVars>>

Entries == [Index -> Frames \cup {Absent, KernelTable}]

TypeOK ==
  /\ used \subseteq Frames
  /\ table \in [Frames -> Entries]
  /\ data \in [Frames -> Contents \cup {Stale}]
  /\ root \in [Procs -> Frames \cup {NoFrame}]
  /\ heap \subseteq Frames
  /\ pc \in {"boot", "idle", "fork", "clone_dir", "clone_table", "exec", "load",
             "stack", "commit", "destroy"}
  /\ who \in Procs \cup {NULL}
  /\ child \in Procs \cup {NULL}
  /\ new \in Frames \cup {NoFrame}
  /\ old \in Frames \cup {NoFrame}
  /\ pd \in 0 .. 3
  /\ pt \in 0 .. 3
  /\ pages \in 1 .. MaxPages

NoEntries == [i \in Index |-> Absent]

\* What a frame that was not zeroed looks like when it is read as a table.
Garbage == [i \in Index |-> IF i = 0 THEN 1 ELSE Absent]

Init ==
  /\ used = {}
  /\ table = [f \in Frames |-> Garbage]
  /\ data = [f \in Frames |-> Stale]
  /\ root = [p \in Procs |-> NoFrame]
  /\ heap = {}
  /\ pc = "boot"
  /\ who = NULL
  /\ child = NULL
  /\ new = NoFrame
  /\ old = NoFrame
  /\ pd = 0
  /\ pt = 0
  /\ pages = 1

\* The running call returns, and its locals are gone.
Return ==
  /\ pc' = "idle"
  /\ who' = NULL
  /\ child' = NULL
  /\ new' = NoFrame
  /\ old' = NoFrame
  /\ pd' = 0
  /\ pt' = 0
  /\ pages' = 1

-----------------------------------------------------------------------------
(* The page frame allocator *)

FreeFrames == Frames \ used

\* pfa_alloc: the first frame of the bitmap that is neither allocated nor among
\* those that earlier calls of the same step have taken, or NoFrame.
FreeBut(taken) ==
  IF FreeFrames \ taken = {} THEN NoFrame ELSE Min(FreeFrames \ taken)
FirstFree == FreeBut({})
SecondFree == FreeBut({FirstFree})

\* pfa_free of every frame of S.
Free(S, tables) ==
  /\ used' = used \ S
  /\ data' = [f \in Frames |-> IF f \in S THEN Stale ELSE data[f]]
  /\ table' = [f \in Frames |-> IF f \in S THEN Garbage ELSE tables[f]]

-----------------------------------------------------------------------------
(* Boot *)

\* create_pcb_grub_modules, with memory enough for its six frames (it does
\* not check its allocations, see the README): directory, table and pages of
\* the program, then table and page of the stack.  copy_module fills the first
\* page only, whatever the size of the module; nothing clears the others.
BootModule(p) ==
  /\ pc = "boot"
  /\ root[p] = NoFrame
  /\ LET dir == FirstFree
         tab == FreeBut({dir})
         page1 == FreeBut({dir, tab})
         page2 == FreeBut({dir, tab, page1})
         stab == FreeBut({dir, tab, page1, page2})
         spage == FreeBut({dir, tab, page1, page2, stab})
     IN /\ spage # NoFrame
        /\ used' = used \cup {dir, tab, page1, page2, stab, spage}
        /\ table' = [table EXCEPT
             ![dir] = [NoEntries EXCEPT ![0] = tab, ![StackDir] = stab,
                                        ![KERNEL_PD_INDEX] = KernelTable],
             ![tab] = [NoEntries EXCEPT ![0] = page1, ![1] = page2],
             ![stab] = [NoEntries EXCEPT ![StackPage] = spage]]
        /\ data' = [data EXCEPT ![page1] = 1]
        /\ root' = [root EXCEPT ![p] = dir]
  /\ UNCHANGED <<heap, pc, callVars>>

BootEnds ==
  /\ pc = "boot"
  /\ \E p \in Procs : root[p] # NoFrame
  /\ pc' = "idle"
  /\ UNCHANGED <<frameVars, root, heap, callVars>>

-----------------------------------------------------------------------------
(* destroy_user_space *)

\* It is called on directory d.
Destroys(d) ==
  /\ pc' = "destroy"
  /\ old' = d
  /\ pd' = 0

PagesOf(t) == {table[t][i] : i \in Index} \ {Absent}

\* Mutant: the pages are freed, the table that maps them is not.
DestroyTableKept ==
  /\ pc = "destroy"
  /\ pd <= 2
  /\ IF pd = KERNEL_PD_INDEX \/ table[old][pd] = Absent
     THEN UNCHANGED frameVars
     ELSE Free(PagesOf(table[old][pd]), [table EXCEPT ![old][pd] = Absent])
  /\ pd' = pd + 1
  /\ UNCHANGED <<root, heap, pc, who, child, new, old, pt, pages>>

\* Mutant: the counter stays where it is at the kernel's entry.
DestroyTableStuck ==
  /\ pc = "destroy"
  /\ pd <= 2
  /\ IF pd = KERNEL_PD_INDEX \/ table[old][pd] = Absent
     THEN UNCHANGED frameVars
     ELSE Free({table[old][pd]} \cup PagesOf(table[old][pd]),
               [table EXCEPT ![old][pd] = Absent])
  /\ pd' = IF pd = KERNEL_PD_INDEX THEN pd ELSE pd + 1
  /\ UNCHANGED <<root, heap, pc, who, child, new, old, pt, pages>>

\* One directory entry: its pages, its table and the entry itself go.
DestroyTable ==
  /\ pc = "destroy"
  /\ pd <= 2
  /\ IF pd = KERNEL_PD_INDEX \/ table[old][pd] = Absent
     THEN UNCHANGED frameVars
     ELSE Free({table[old][pd]} \cup PagesOf(table[old][pd]),
               [table EXCEPT ![old][pd] = Absent])
  /\ pd' = pd + 1
  /\ UNCHANGED <<root, heap, pc, who, child, new, old, pt, pages>>

\* The directory goes last, and the call that asked for it returns.
DestroyEnds ==
  /\ pc = "destroy"
  /\ pd = 3
  /\ Free({old}, table)
  /\ Return
  /\ UNCHANGED <<root, heap>>

-----------------------------------------------------------------------------
(* create_user_pdt, for fork and for exec *)

\* Mutant: the kernel's entry is not copied.
CreateDirectoryBare(from, to) ==
  /\ pc = from
  /\ FirstFree # NoFrame
  /\ pc' = to
  /\ used' = used \cup {FirstFree}
  /\ table' = [table EXCEPT ![FirstFree] = NoEntries]
  /\ new' = FirstFree
  /\ pd' = 0
  /\ pt' = 0
  /\ UNCHANGED <<data, root, heap, who, child, old, pages>>

CreateDirectory(from, to) ==
  /\ pc = from
  /\ IF FirstFree = NoFrame
     THEN /\ Return
          /\ UNCHANGED <<used, table>>
     ELSE /\ pc' = to
          /\ used' = used \cup {FirstFree}
          /\ table' = [table EXCEPT
               ![FirstFree] = [NoEntries EXCEPT ![KERNEL_PD_INDEX] = KernelTable]]
          /\ new' = FirstFree
          /\ pd' = 0
          /\ pt' = 0
          /\ UNCHANGED <<who, child, old, pages>>
  /\ UNCHANGED <<data, root, heap>>

-----------------------------------------------------------------------------
(* sys_fork and clone_user_space *)

SysFork(p, c) ==
  /\ pc = "idle"
  /\ root[p] # NoFrame
  /\ root[c] = NoFrame
  /\ pc' = "fork"
  /\ who' = p
  /\ child' = c
  /\ UNCHANGED <<frameVars, root, heap, new, old, pd, pt, pages>>

\* One directory entry of the parent: a zeroed table for the child.
CloneDirectoryEntry ==
  /\ pc = "clone_dir"
  /\ pd < KERNEL_PD_INDEX
  /\ \/ /\ table[root[who]][pd] = Absent
        /\ pd' = pd + 1
        /\ UNCHANGED <<used, table, pc, old, pt>>
     \/ /\ table[root[who]][pd] # Absent
        /\ FirstFree = NoFrame
        /\ Destroys(new)
        /\ UNCHANGED <<used, table, pt>>
     \/ /\ table[root[who]][pd] # Absent
        /\ FirstFree # NoFrame
        /\ used' = used \cup {FirstFree}
        /\ table' = [table EXCEPT ![FirstFree] = NoEntries,
                                  ![new][pd] = FirstFree]
        /\ pc' = "clone_table"
        /\ pt' = 0
        /\ UNCHANGED <<old, pd>>
  /\ UNCHANGED <<data, root, heap, who, child, new, pages>>

\* Mutant: the child's page is the parent's frame.
CloneShares(source) ==
  /\ used' = used \cup {FirstFree}
  /\ table' = [table EXCEPT ![table[new][pd]][pt] = source]
  /\ UNCHANGED data

\* Mutant: the page is mapped before, and without, being copied.
CloneUncopied(source) ==
  /\ used' = used \cup {FirstFree}
  /\ table' = [table EXCEPT ![table[new][pd]][pt] = FirstFree]
  /\ UNCHANGED data

\* copy_frame_page, and the child's entry.
ClonePage(source) ==
  /\ used' = used \cup {FirstFree}
  /\ data' = [data EXCEPT ![FirstFree] = data[source]]
  /\ table' = [table EXCEPT ![table[new][pd]][pt] = FirstFree]

\* One page of the parent's table.
CloneTableEntry ==
  /\ pc = "clone_table"
  /\ pt <= 2
  /\ LET source == table[table[root[who]][pd]][pt] IN
       \/ /\ source = Absent
          /\ pt' = pt + 1
          /\ UNCHANGED <<frameVars, pc, old, pd>>
       \/ /\ source # Absent
          /\ FirstFree = NoFrame
          /\ Destroys(new)
          /\ UNCHANGED <<frameVars, pt>>
       \/ /\ source # Absent
          /\ FirstFree # NoFrame
          /\ ClonePage(source)
          /\ pt' = pt + 1
          /\ UNCHANGED <<pc, old, pd>>
  /\ UNCHANGED <<root, heap, who, child, new, pages>>

CloneTableEnds ==
  /\ pc = "clone_table"
  /\ pt = 3
  /\ pc' = "clone_dir"
  /\ pd' = pd + 1
  /\ UNCHANGED <<frameVars, root, heap, who, child, new, old, pt, pages>>

Cloned == pc = "clone_dir" /\ pd = KERNEL_PD_INDEX

ForkSucceeds ==
  /\ Cloned
  /\ root' = [root EXCEPT ![child] = new]
  /\ Return
  /\ UNCHANGED <<frameVars, heap>>

\* No kernel stack for the child, or no room in the ready queue.
ForkFailsLate ==
  /\ Cloned
  /\ Destroys(new)
  /\ UNCHANGED <<frameVars, root, heap, who, child, new, pt, pages>>

-----------------------------------------------------------------------------
(* sys_exec and build_new_image; pt counts the pages loaded *)

SysExec(p, n) ==
  /\ pc = "idle"
  /\ root[p] # NoFrame
  /\ pc' = "exec"
  /\ who' = p
  /\ pages' = n
  /\ UNCHANGED <<frameVars, root, heap, child, new, old, pd, pt>>

\* There is a frame for the page and, if it has no table yet, for that.
PageFits(d) ==
  /\ FirstFree # NoFrame
  /\ table[new][d] = Absent => SecondFree # NoFrame

\* pfa_alloc and map_user_page: entry i of table d of the new directory maps
\* a new page that holds v; a zeroed table is allocated if there is none.
NewPage(d, i, v) ==
  LET absent == table[new][d] = Absent
      t == IF absent THEN SecondFree ELSE table[new][d]
      entries == IF absent THEN NoEntries ELSE table[t]
  IN /\ PageFits(d)
     /\ used' = used \cup {FirstFree, t}
     /\ table' = [table EXCEPT ![t] = [entries EXCEPT ![i] = FirstFree],
                               ![new][d] = t]
     /\ data' = [data EXCEPT ![FirstFree] = v]

\* One page of the module.
LoadPage ==
  /\ pc = "load"
  /\ NewPage(0, pt, 1)
  /\ pt' = pt + 1
  /\ pc' = IF pt + 1 < pages THEN "load" ELSE "stack"
  /\ UNCHANGED <<root, heap, who, child, new, old, pd, pages>>

\* setup_user_stack
SetupStack ==
  /\ pc = "stack"
  /\ NewPage(StackDir, StackPage, 0)
  /\ pc' = "commit"
  /\ UNCHANGED <<root, heap, callVars>>

\* A frame is missing: a page whose table cannot be had is given back (no
\* change), and the image is destroyed.
BuildFails ==
  /\ \/ pc = "load" /\ ~ PageFits(0)
     \/ pc = "stack" /\ ~ PageFits(StackDir)
  /\ Destroys(new)
  /\ UNCHANGED <<frameVars, root, heap, who, child, new, pt, pages>>

\* The process and cr3 move to the new directory, then the old one goes.
ExecCommits ==
  /\ pc = "commit"
  /\ root' = [root EXCEPT ![who] = new]
  /\ Destroys(root[who])
  /\ UNCHANGED <<frameVars, heap, who, child, new, pt, pages>>

-----------------------------------------------------------------------------
\* sys_exit, when another process takes over.
SysExit(p) ==
  /\ pc = "idle"
  /\ root[p] # NoFrame
  /\ \E q \in Procs \ {p} : root[q] # NoFrame
  /\ who' = p
  /\ root' = [root EXCEPT ![p] = NoFrame]
  /\ Destroys(root[p])
  /\ UNCHANGED <<frameVars, heap, child, new, pt, pages>>

\* kmalloc grows the heap by a frame (ksbrk), between calls or for the kernel
\* stack of a child.
HeapGrows ==
  /\ pc = "idle" \/ Cloned
  /\ FirstFree # NoFrame
  /\ used' = used \cup {FirstFree}
  /\ heap' = heap \cup {FirstFree}
  /\ UNCHANGED <<table, data, root, pc, callVars>>

UserPages(d) ==
  UNION {PagesOf(table[d][i]) : i \in {k \in 0 .. 1 : table[d][k] # Absent}}

\* A process writes to one of its pages.
UserWrite(p, v) ==
  /\ pc = "idle"
  /\ root[p] # NoFrame
  /\ \E f \in UserPages(root[p]) : data' = [data EXCEPT ![f] = v]
  /\ UNCHANGED <<used, table, root, heap, pc, callVars>>

\* What the kernel does on its own once a call has begun.
KernelStep ==
  \/ CreateDirectory("fork", "clone_dir")
  \/ CloneDirectoryEntry
  \/ CloneTableEntry
  \/ CloneTableEnds
  \/ ForkSucceeds
  \/ ForkFailsLate
  \/ CreateDirectory("exec", "load")
  \/ LoadPage
  \/ SetupStack
  \/ BuildFails
  \/ ExecCommits
  \/ DestroyTable
  \/ DestroyEnds

Next ==
  \/ \E p \in Procs : BootModule(p)
  \/ BootEnds
  \/ \E p, c \in Procs : SysFork(p, c)
  \/ \E p \in Procs, n \in 1 .. MaxPages : SysExec(p, n)
  \/ \E p \in Procs : SysExit(p)
  \/ KernelStep
  \/ HeapGrows
  \/ \E p \in Procs, v \in Contents : UserWrite(p, v)

Spec == Init /\ [][Next]_vars

\* Kernel code runs without interruption.
FairSpec == Spec /\ WF_vars(KernelStep)

-----------------------------------------------------------------------------
TablesOf(d) == {table[d][i] : i \in 0 .. 1} \ {Absent}

\* The frames that hang together under directory d.
Owned(d) == {d} \cup TablesOf(d) \cup UserPages(d)

Live == {p \in Procs : root[p] # NoFrame}

\* The directory that belongs to the running call: half built or half gone.
Pending == IF pc \in {"clone_dir", "clone_table", "load", "stack", "commit"}
           THEN {new}
           ELSE IF pc = "destroy" THEN {old} ELSE {}

Directories == {root[p] : p \in Live} \cup Pending

\* Safety: at every step of every call, also in the middle of a copy and of the
\* clean-up after a failed allocation, the allocated frames are exactly the
\* kernel heap's and those of the directories in existence: nothing leaks,
\* and nothing still mapped is free.
FramesAccounted ==
  used = heap \cup UNION {Owned(d) : d \in Directories}

\* The entries of a directory and its tables that lead to a page.
PageSlots(d) ==
  {ij \in (0 .. 1) \X Index :
     table[d][ij[1]] # Absent /\ table[table[d][ij[1]]][ij[2]] # Absent}

PageAt(d, ij) == table[table[d][ij[1]]][ij[2]]

\* Safety: no frame belongs to two directories, twice to one, or to a
\* directory and the heap: processes share no memory, and destroying one
\* address space takes no frame of another.
NoSharing ==
  /\ \A d, e \in Directories : d # e => Owned(d) \cap Owned(e) = {}
  /\ \A d \in Directories :
       /\ Owned(d) \cap heap = {}
       /\ d \notin TablesOf(d)
       /\ UserPages(d) \cap ({d} \cup TablesOf(d)) = {}
       /\ table[d][0] # Absent => table[d][0] # table[d][1]
       /\ \A s, t \in PageSlots(d) : s # t => PageAt(d, s) # PageAt(d, t)
  /\ \A p, q \in Live : p # q => root[p] # root[q]

\* Safety: every directory a process may run on maps the kernel, so that the
\* handlers exist in it.
KernelMapped ==
  \A p \in Live : table[root[p]][KERNEL_PD_INDEX] = KernelTable

\* What is visible at entry j of table i of directory d.
Seen(d, i, j) ==
  IF table[d][i] = Absent THEN Absent
  ELSE IF table[table[d][i]][j] = Absent THEN Absent ELSE data[table[table[d][i]][j]]

CopiesStep ==
  \A p \in Procs : pc = "clone_dir" /\ root[p] = NoFrame /\ root'[p] # NoFrame
    => \A i \in 0 .. 1, j \in Index : Seen(root'[p], i, j) = Seen(root[who], i, j)

\* Action property: the child that a fork creates sees exactly its parent's
\* pages, whatever the frames it was given held before.
ForkCopies == [][CopiesStep]_vars

\* The step changes what p sees in the directory it keeps.
SeesChange(p) ==
  /\ root'[p] = root[p]
  /\ \E i \in 0 .. 1, j \in Index : Seen(root[p], i, j)' # Seen(root[p], i, j)

UndisturbedStep ==
  \A p \in Live : SeesChange(p) =>
    pc = "idle" /\ \A q \in Live \ {p} : ~ SeesChange(q)

\* Action property: what a process sees in its memory changes only by its own
\* hand: no step of a kernel call, its own or another's, changes it, until exec
\* gives it a new directory, and no write of another process does.
Undisturbed == [][UndisturbedStep]_vars

\* Liveness: fork, exec and exit come to an end, with or without memory.
CallsReturn == pc \notin {"boot", "idle"} ~> pc = "idle"
=============================================================================
