-------------------------------- MODULE KHeap --------------------------------
(***************************************************************************)
(* The kernel heap of kheap.c: kmalloc and kfree on a circular list of     *)
(* free blocks ordered by address (Kernighan and Ritchie), grown page by   *)
(* page by ksbrk, which takes frames from the page frame allocator.  An    *)
(* action is one turn of a loop.  Addresses count units of sizeof(Header). *)
(* The callers hold blocks and give any of them back at any time.          *)
(***************************************************************************)
EXTENDS Integers, FiniteSets, FiniteSetsExt

CONSTANTS
  PageUnits,   \* units in a page (512)
  NALLOC,      \* units that morecore asks for at least (128)
  HeapPages,   \* pages between the end of the kernel and TEMP_MAP_VADDR
  NumFrames,   \* frames that may be free for the heap
  Sizes        \* the values of nunits that callers cause

ASSUME KHeapAssumption ==
  /\ PageUnits \in Nat \ {0}
  /\ NALLOC \in Nat /\ HeapPages \in Nat /\ NumFrames \in Nat
  /\ Sizes \subseteq Nat \ {0, 1}

NULL == -1             \* a null pointer
base == 0              \* the sentinel: in the kernel's data, below the heap
Start == 1             \* kernel_virtual_end, rounded up to a page
heap_max == Start + HeapPages * PageUnits
Units == Start .. heap_max - 1
Addr == Units \cup {base}

VARIABLES
  next, size,          \* the two fields of the header at each address
  freep,               \* where the next search begins
  heap_current,        \* the end of the heap
  frames,              \* free frames in the page frame allocator
  mapped,              \* the pages of the heap's range that have a frame
  lost,                \* whether the heap has mapped over one of its frames
  held,                \* the blocks that the callers hold, by header address
  pc,                  \* "idle", or the loop that is running
  p, prevp, bp,        \* the locals of kmalloc and kfree
  nunits               \* what kmalloc is asked for; 0 outside kmalloc

listVars == <<next, size, freep>>
pageVars == <<heap_current, frames, mapped, lost>>
localVars == <<p, prevp, bp, nunits>>
vars == <<listVars, pageVars, held, pc, localVars>>

Init ==
  /\ next = [a \in Addr |-> base]
  /\ size = [a \in Addr |-> 0]
  /\ freep = NULL
  /\ heap_current = Start
  /\ frames \in 0 .. NumFrames
  /\ mapped = {}
  /\ lost = FALSE
  /\ held = {}
  /\ pc = "idle"
  /\ p = NULL /\ prevp = NULL /\ bp = NULL
  /\ nunits = 0

\* The call returns, and its locals are gone.
Return ==
  /\ pc' = "idle"
  /\ p' = NULL /\ prevp' = NULL /\ bp' = NULL
  /\ nunits' = 0

\* The fields after an operation; what is inside a block now, and no header
\* any more, is cleared: no code reads it again.
Headers(sizes, nexts, gone) ==
  /\ size' = [a \in Addr |-> IF a \in gone THEN 0 ELSE sizes[a]]
  /\ next' = [a \in Addr |-> IF a \in gone THEN base ELSE nexts[a]]

-----------------------------------------------------------------------------
(* kmalloc *)

\* The first call makes the list out of the sentinel; the fields of the
\* sentinel are zero before that, like all static data, so next is base.
Kmalloc(n) ==
  /\ pc = "idle"
  /\ pc' = "search"
  /\ nunits' = n
  /\ freep' = IF freep = NULL THEN base ELSE freep
  /\ prevp' = freep'
  /\ p' = next[freep']
  /\ UNCHANGED <<next, size, pageVars, held, bp>>

\* Mutant: an exact fit is taken, but stays on the list.
ExactFitStaysListed ==
  /\ size[p] = nunits
  /\ held' = held \cup {p}
  /\ UNCHANGED <<next, size>>

ExactFit ==
  /\ size[p] = nunits
  /\ next' = [next EXCEPT ![prevp] = next[p], ![p] = base]
  /\ held' = held \cup {p}
  /\ UNCHANGED size

\* Mutant: the block is cut one unit too low.
SplitOffByOne ==
  /\ size[p] > nunits
  /\ LET rest == size[p] - nunits
     IN /\ size' = [size EXCEPT ![p] = rest, ![p + rest - 1] = nunits]
        /\ held' = held \cup {p + rest - 1}
  /\ UNCHANGED next

\* The end of a larger block is handed out.
Split ==
  /\ size[p] > nunits
  /\ LET rest == size[p] - nunits
     IN /\ size' = [size EXCEPT ![p] = rest, ![p + rest] = nunits]
        /\ held' = held \cup {p + rest}
  /\ UNCHANGED next

Found ==
  /\ pc = "search"
  /\ ExactFit \/ Split
  /\ freep' = prevp
  /\ Return
  /\ UNCHANGED pageVars

\* Mutant: the search gives up at the end of the list, not where it began.
SearchOnToBase ==
  /\ pc = "search"
  /\ size[p] < nunits
  /\ IF p = base
     THEN pc' = "morecore" /\ UNCHANGED <<p, prevp>>
     ELSE UNCHANGED pc /\ prevp' = p /\ p' = next[p]
  /\ UNCHANGED <<listVars, pageVars, held, bp, nunits>>

\* The block is too small: on to the next, or to morecore after a full turn.
SearchOn ==
  /\ pc = "search"
  /\ size[p] < nunits
  /\ IF p = freep
     THEN pc' = "morecore" /\ UNCHANGED <<p, prevp>>
     ELSE UNCHANGED pc /\ prevp' = p /\ p' = next[p]
  /\ UNCHANGED <<listVars, pageVars, held, bp, nunits>>

-----------------------------------------------------------------------------
(* morecore and ksbrk *)

PagesFor(n) == (Max({n, NALLOC}) + PageUnits - 1) \div PageUnits

\* The pages that ksbrk goes through, one frame each, up to the first failure.
SbrkPages(n) ==
  LET first == (heap_current - Start) \div PageUnits
  IN first .. first + Min({n, frames}) - 1

\* paging_map_page replaces what was mapped there.
SbrkMaps(pages) ==
  /\ frames' = frames - Cardinality(pages)
  /\ mapped' = mapped \cup pages
  /\ lost' = (lost \/ mapped \cap pages # {})

\* No room below heap_max, or a frame is missing half way: the pages mapped
\* so far stay mapped, heap_current does not move, and kmalloc returns 0.
MorecoreFails ==
  /\ pc = "morecore"
  /\ LET n == PagesFor(nunits)
     IN IF heap_current + n * PageUnits > heap_max
        THEN UNCHANGED pageVars
        ELSE /\ frames < n
             /\ SbrkMaps(SbrkPages(n))
             /\ UNCHANGED heap_current
  /\ Return
  /\ UNCHANGED <<listVars, held>>

\* The new pages become one block, which kfree puts on the list.
Morecore ==
  /\ pc = "morecore"
  /\ LET n == PagesFor(nunits)
     IN /\ heap_current + n * PageUnits <= heap_max
        /\ frames >= n
        /\ SbrkMaps(SbrkPages(n))
        /\ heap_current' = heap_current + n * PageUnits
        /\ size' = [size EXCEPT ![heap_current] = n * PageUnits]
  /\ bp' = heap_current
  /\ p' = freep
  /\ pc' = "place"
  /\ UNCHANGED <<next, freep, held, prevp, nunits>>

-----------------------------------------------------------------------------
(* kfree *)

Kfree(b) ==
  /\ pc = "idle"
  /\ b \in held
  /\ held' = held \ {b}
  /\ bp' = b
  /\ p' = freep
  /\ pc' = "place"
  /\ UNCHANGED <<listVars, pageVars, prevp, nunits>>

\* Mutant: the test for the ends of the list is gone.
FollowsNoEnds(b, q) == q < b /\ b < next[q]

\* Block b belongs between q and the block after it.
Follows(b, q) ==
  \/ q < b /\ b < next[q]
  \/ q >= next[q] /\ (b > q \/ b < next[q])

WalkOn ==
  /\ pc = "place"
  /\ ~ Follows(bp, p)
  /\ p' = next[p]
  /\ UNCHANGED <<listVars, pageVars, held, pc, prevp, bp, nunits>>

\* Mutant: a block is not merged with the free one right above it.
TouchesNever(b, q) == FALSE

\* Block b ends where block q begins.
Touches(b, q) == b + size[b] = q

\* bp goes behind p, merged with its upper and then with its lower neighbour.
Insert ==
  LET up == next[p]
      above == IF Touches(bp, up) THEN {up} ELSE {}
      after == IF Touches(bp, up) THEN next[up] ELSE up
      whole == size[bp] + (IF Touches(bp, up) THEN size[up] ELSE 0)
  IN IF Touches(p, bp)
     THEN Headers([size EXCEPT ![p] = @ + whole], [next EXCEPT ![p] = after],
                  above \cup {bp})
     ELSE Headers([size EXCEPT ![bp] = whole],
                  [next EXCEPT ![bp] = after, ![p] = bp], above)

\* kfree returns: to its caller, or through morecore to the for loop of
\* kmalloc, which steps on from the freep it is given.
Place ==
  /\ pc = "place"
  /\ Follows(bp, p)
  /\ Insert
  /\ freep' = p
  /\ IF nunits = 0
     THEN Return
     ELSE /\ pc' = "search"
          /\ prevp' = p
          /\ p' = next'[p]
          /\ bp' = NULL
          /\ UNCHANGED nunits
  /\ UNCHANGED <<pageVars, held>>

-----------------------------------------------------------------------------
\* The rest of the kernel takes frames and gives them back (external).
OthersUseFrames ==
  /\ pc = "idle"
  /\ frames' \in 0 .. NumFrames
  /\ UNCHANGED <<listVars, heap_current, mapped, lost, held, pc, localVars>>

HeapStep == Found \/ SearchOn \/ MorecoreFails \/ Morecore \/ WalkOn \/ Place

Next ==
  \/ \E n \in Sizes : Kmalloc(n)
  \/ \E b \in held : Kfree(b)
  \/ HeapStep
  \/ OthersUseFrames

Spec == Init /\ [][Next]_vars

\* Kernel code runs without interruption.
FairSpec == Spec /\ WF_vars(HeapStep)

-----------------------------------------------------------------------------
\* The blocks that a walk from the sentinel meets.
After[k \in 0 .. Cardinality(Addr)] == IF k = 0 THEN base ELSE next[After[k - 1]]
FreeList == {After[k] : k \in DOMAIN After} \ {base}

\* Where the block that kfree is about to place still is on neither side.
InTransit == IF pc = "place" THEN {bp} ELSE {}
Blocks == FreeList \cup held \cup InTransit

\* Safety: at every step the free list, the blocks in use and the one on its
\* way back cover the heap from its start to heap_current, each unit once: no
\* split, merge or growth overlaps two blocks or loses memory between them.
HeapTiled ==
  \A u \in Units :
    Cardinality({b \in Blocks : b <= u /\ u < b + size[b]})
      = IF u < heap_current THEN 1 ELSE 0

\* Safety: the free list is a cycle through the sentinel in address order and
\* no free block touches the next, so that the walk of kfree always finds its
\* place and a search sees every run of free memory as one block.
ListOrdered ==
  /\ \E k \in DOMAIN After : k > 0 /\ After[k] = base
  /\ \A b \in FreeList : next[b] = base \/ b + size[b] < next[b]
  /\ freep \in FreeList \cup {base, NULL}

\* Safety: kmalloc turns to morecore, and so fails, only after its search, from
\* wherever freep stood, has met every free block and none was large enough.
SearchIsComplete ==
  pc = "morecore" => \A b \in FreeList : size[b] < nunits

\* Refinement: the callers see disjoint blocks whose headers nobody changes.
A == INSTANCE Arena WITH live <- [b \in held |-> size[b]]
ImplementsArena == A!Spec

\* Liveness: kmalloc and kfree return, whatever the list looks like.
HeapCallsReturn == pc # "idle" ~> pc = "idle"

\* Claim of the comment on ksbrk: every frame it took is mapped in the heap.
FramesStayMapped == ~ lost
=============================================================================
