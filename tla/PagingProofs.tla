----------------------------- MODULE PagingProofs -----------------------------
(***************************************************************************)
(* For every number of frames and every size of the kernel: an access      *)
(* through the window reaches the frame it is meant for, the TLB holds     *)
(* nothing that the tables do not say, and no frame of the address space   *)
(* in use is free.  The invariant is about what the running routine has    *)
(* still to do: it is closed under putting pieces of routines together and *)
(* under doing the first operation.                                        *)
(***************************************************************************)
EXTENDS Paging, SequenceTheorems, FiniteSetTheorems, WellFoundedInduction, TLAPS

\* Leaves that name no prover go to the SMT solver, with time to spare.
USE SMTT(30)

-----------------------------------------------------------------------------
(* The inductive invariant *)

Dirs == Frames \cup {BOOT}
Pdts == {s[1] : s \in spaces}

Op == [op : {"map", "touch", "free"}, f : Nat]
        \cup [op : {"page"}, d : Nat, v : Int, f : Nat]
        \cup [op : {"cr3"}, d : Nat] \cup [op : {"invlpg"}, v : Int] \cup [op : {"init"}]

PagingTypes ==
  /\ kernel_page_table \in [KIndex -> Nat]
  /\ maps \in [Dirs -> [LowPages -> Nat]]
  /\ tlb \in [Pages -> Nat]
  /\ spaces \subseteq [1 .. 5 -> Frames]
  /\ free \subseteq Frames
  /\ cr3 \in Dirs
  /\ otherTable \in Nat
  /\ todo \in Seq(Op)

\* No frame has two uses among the address spaces, and none is free.
SpacesApart ==
  /\ \A s, r \in spaces : \A i, j \in 1 .. 5 : s[i] = r[j] => s = r /\ i = j
  /\ \A s \in spaces : \A i \in 1 .. 5 : s[i] \notin free

\* Whether update_cr3 comes before operation i.
Switches(t, i) == \E k \in 1 .. i - 1 : t[k].op = "cr3"

\* The operation before an access opens the window for it.
Opened(t, i) ==
  t[i].op = "touch" => i > 1 /\ t[i - 1].op = "map" /\ t[i - 1].f = t[i].f

\* An entry is changed in a directory that is not in use by then, or its page
\* is still to be flushed.
EntryIdle(t, i, c) ==
  t[i].op = "page" =>
    /\ t[i].d \in Dirs /\ t[i].v \in LowPages
    /\ \/ \E j \in DOMAIN t : j > i /\ t[j].op = "invlpg" /\ t[j].v = t[i].v
       \/ /\ t[i].d # c \/ Switches(t, i)
          /\ \A k \in 1 .. i - 1 : t[k].op = "cr3" => t[k].d # t[i].d

\* A frame is freed that no address space has, once cr3 has been left.
FreedLast(t, i, S) ==
  t[i].op = "free" =>
    /\ t[i].f \in Frames
    /\ \A s \in S : \A n \in 1 .. 5 : s[n] # t[i].f
    /\ \A k \in DOMAIN t : k > i => t[k].op # "cr3"

PendingAt(i) ==
  /\ Opened(todo, i) \/ (i = 1 /\ kernel_page_table[TEMP_PT_INDEX] = todo[i].f)
  /\ EntryIdle(todo, i, cr3)
  /\ todo[i].op = "cr3" => todo[i].d \in Pdts /\ ~ Switches(todo, i)
  /\ todo[i].op = "invlpg" => todo[i].v \in Others
  /\ FreedLast(todo, i, spaces)

Pending == \A i \in DOMAIN todo : PendingAt(i)

\* The directory in use: the first one, that of a process, or one that update_cr3
\* is about to leave and of which nothing has been freed.
Rooted ==
  \/ cr3 = BOOT
  \/ inUse \in spaces /\ inUse[1] = cr3
  \/ /\ inUse[1] = cr3 /\ \A i \in 1 .. 5 : inUse[i] \notin free
     /\ \E k \in DOMAIN todo : todo[k].op = "cr3"

PagingInv == PagingTypes /\ SpacesApart /\ Pending /\ Rooted /\ TlbCoherent

-----------------------------------------------------------------------------
(* The first operation is done *)

\* The fields of the operations.
LEMMA Fields ==
  /\ \A f \in Nat : /\ Map(f) \in Op /\ Map(f).op = "map" /\ Map(f).f = f
                    /\ Touch(f) \in Op /\ Touch(f).op = "touch" /\ Touch(f).f = f
                    /\ Release(f) \in Op /\ Release(f).op = "free" /\ Release(f).f = f
  /\ Unmap \in Op /\ Unmap.op = "map" /\ Unmap.f = None
  /\ \A d \in Nat : LoadCr3(d) \in Op /\ LoadCr3(d).op = "cr3" /\ LoadCr3(d).d = d
  /\ \A v \in Int : Flush(v) \in Op /\ Flush(v).op = "invlpg" /\ Flush(v).v = v
  /\ Start \in Op /\ Start.op = "init"
BY DEF Map, Touch, Release, Unmap, LoadCr3, Flush, Start, Op, None

\* The fields of the operation that changes an entry.
LEMMA SetPageFields ==
  ASSUME NEW d \in Nat, NEW v \in Int, NEW f \in Nat
  PROVE  /\ SetPage(d, v, f) \in Op /\ SetPage(d, v, f).op = "page"
         /\ SetPage(d, v, f).d = d /\ SetPage(d, v, f).v = v /\ SetPage(d, v, f).f = f
BY DEF SetPage, Op

\* What is left of a routine after its first operation.
LEMMA Rest ==
  ASSUME NEW t \in Seq(Op), t # <<>>
  PROVE  /\ Len(t) \in Nat /\ Len(t) >= 1 /\ DOMAIN t = 1 .. Len(t) /\ Head(t) = t[1]
         /\ Tail(t) \in Seq(Op) /\ DOMAIN Tail(t) = 1 .. Len(t) - 1
         /\ \A i \in 1 .. Len(t) - 1 : Tail(t)[i] = t[i + 1]
OBVIOUS

\* What is left of a routine may still be done, once its first operation is.
LEMMA PendingRest ==
  ASSUME PagingTypes, Pending, todo # <<>>, todo' = Tail(todo), spaces' = spaces,
         cr3' = IF Head(todo).op = "cr3" THEN Head(todo).d ELSE cr3,
         Head(todo).op = "map" => kernel_page_table'[TEMP_PT_INDEX] = Head(todo).f
  PROVE  Pending'
<1> DEFINE n == Len(todo)
<1>1. /\ n \in Nat /\ n >= 1 /\ DOMAIN todo = 1 .. n /\ Head(todo) = todo[1]
      /\ DOMAIN todo' = 1 .. n - 1 /\ \A i \in 1 .. n - 1 : todo'[i] = todo[i + 1]
  BY Rest DEF PagingTypes
<1> HIDE DEF n
<1>2. Pdts' = Pdts
  BY DEF Pdts
<1> SUFFICES ASSUME NEW i \in 1 .. n - 1 PROVE PendingAt(i)'
  BY <1>1, Zenon DEF Pending
<1> DEFINE j == i + 1
<1>3. j \in 1 .. n /\ j # 1 /\ j - 1 = i /\ todo'[i] = todo[j]
  BY <1>1
<1> HIDE DEF j
<1>4. /\ Opened(todo, j) /\ EntryIdle(todo, j, cr3) /\ FreedLast(todo, j, spaces)
      /\ todo[j].op = "cr3" => todo[j].d \in Pdts /\ ~ Switches(todo, j)
      /\ todo[j].op = "invlpg" => todo[j].v \in Others
  BY <1>1, <1>3, Zenon DEF Pending, PendingAt
<1>5. Opened(todo', i) \/ (i = 1 /\ kernel_page_table'[TEMP_PT_INDEX] = todo'[i].f)
  <2>1. CASE i = 1
    BY <1>1, <1>3, <1>4, <2>1, Zenon DEF Opened
  <2>2. CASE i # 1
    <3>1. i - 1 \in 1 .. n - 1 /\ todo'[i - 1] = todo[j - 1] /\ i > 1
      BY <1>1, <1>3, <2>2
    <3> QED BY <1>3, <1>4, <3>1, Zenon DEF Opened
  <2> QED BY <2>1, <2>2, Zenon
<1>6. Switches(todo, j) <=> Switches(todo', i) \/ todo[1].op = "cr3"
  <2>1. ASSUME NEW k \in 1 .. j - 1, todo[k].op = "cr3", k # 1 PROVE Switches(todo', i)
    <3>1. k - 1 \in 1 .. i - 1 /\ todo'[k - 1] = todo[k]
      BY <1>1, <1>3, <2>1
    <3> QED BY <2>1, <3>1, Zenon DEF Switches
  <2>2. ASSUME NEW k \in 1 .. i - 1, todo'[k].op = "cr3" PROVE Switches(todo, j)
    <3>1. k + 1 \in 1 .. j - 1 /\ todo'[k] = todo[k + 1]
      BY <1>1, <1>3
    <3> QED BY <2>2, <3>1, Zenon DEF Switches
  <2>3. 1 \in 1 .. j - 1
    BY <1>3
  <2> QED BY <2>1, <2>2, <2>3, Zenon DEF Switches
<1>7. EntryIdle(todo', i, cr3')
  <2> SUFFICES ASSUME todo[j].op = "page"
               PROVE  \/ \E k \in 1 .. n - 1 : k > i /\ todo'[k].op = "invlpg" /\ todo'[k].v = todo[j].v
                      \/ /\ todo[j].d # cr3' \/ Switches(todo', i)
                         /\ \A k \in 1 .. i - 1 : todo'[k].op = "cr3" => todo'[k].d # todo[j].d
    BY <1>1, <1>3, <1>4, Zenon DEF EntryIdle
  <2>1. ASSUME NEW k \in 1 .. n, k > j, todo[k].op = "invlpg", todo[k].v = todo[j].v
        PROVE  \E m \in 1 .. n - 1 : m > i /\ todo'[m].op = "invlpg" /\ todo'[m].v = todo[j].v
    <3>1. k - 1 \in 1 .. n - 1 /\ k - 1 > i /\ todo'[k - 1] = todo[k]
      BY <1>1, <1>3, <2>1
    <3> QED BY <2>1, <3>1, Zenon
  <2>2. ASSUME todo[j].d # cr3 \/ Switches(todo, j),
               \A k \in 1 .. j - 1 : todo[k].op = "cr3" => todo[k].d # todo[j].d
        PROVE  /\ todo[j].d # cr3' \/ Switches(todo', i)
               /\ \A k \in 1 .. i - 1 : todo'[k].op = "cr3" => todo'[k].d # todo[j].d
    <3>1. ASSUME NEW k \in 1 .. i - 1, todo'[k].op = "cr3" PROVE todo'[k].d # todo[j].d
      <4>1. k + 1 \in 1 .. j - 1 /\ todo'[k] = todo[k + 1]
        BY <1>1, <1>3
      <4> QED BY <2>2, <3>1, <4>1, Zenon
    <3>2. 1 \in 1 .. j - 1
      BY <1>3
    <3> QED BY <1>1, <1>6, <2>2, <3>1, <3>2
  <2> QED BY <1>1, <1>4, <2>1, <2>2, Zenon DEF EntryIdle
<1>8. FreedLast(todo', i, spaces')
  <2> SUFFICES ASSUME todo[j].op = "free", NEW k \in 1 .. n - 1, k > i PROVE todo'[k].op # "cr3"
    BY <1>1, <1>3, <1>4, Zenon DEF FreedLast
  <2>1. k + 1 \in 1 .. n /\ k + 1 > j /\ todo'[k] = todo[k + 1]
    BY <1>1, <1>3
  <2> QED BY <1>1, <1>4, <2>1, Zenon DEF FreedLast
<1>9. /\ todo'[i].op = "cr3" => todo'[i].d \in Pdts' /\ ~ Switches(todo', i)
      /\ todo'[i].op = "invlpg" => todo'[i].v \in Others
  BY <1>2, <1>3, <1>4, <1>6, Zenon
<1> QED BY <1>5, <1>7, <1>8, <1>9, Zenon DEF PendingAt

\* How the sets of pages and frames lie.
LEMMA PageSets ==
  /\ TEMP_PT_INDEX \in KIndex /\ KIndex \subseteq Pages /\ LowPages \subseteq Pages
  /\ Pages = KIndex \cup LowPages /\ KIndex \cap LowPages = {} /\ Others \subseteq LowPages
  /\ HeapIndex \subseteq KIndex /\ TEMP_PT_INDEX \notin HeapIndex /\ None = 0 /\ BOOT = 0
  /\ TEXT \in LowPages /\ STACK \in LowPages /\ LowPages \subseteq Int
  /\ Frames \subseteq Nat /\ BOOT \notin Frames /\ \A i \in KIndex : Identity(i) \in Nat
BY PagingAssumption DEF KIndex, Pages, LowPages, HeapIndex, None, BOOT, TEXT, STACK, Frames, Identity

\* A page that waits for its invlpg goes on waiting until that is done.
LEMMA FlushingRest ==
  ASSUME PagingTypes, Pending, todo # <<>>, todo' = Tail(todo)
  PROVE  /\ Flushing \subseteq Others
         /\ \A v \in Flushing : v \in Flushing' \/ (Head(todo).op = "invlpg" /\ Head(todo).v = v)
         /\ \A i \in DOMAIN todo : todo[i].op = "invlpg" /\ i # 1 => todo[i].v \in Flushing'
<1> DEFINE n == Len(todo)
<1>1. /\ n \in Nat /\ n >= 1 /\ DOMAIN todo = 1 .. n /\ Head(todo) = todo[1]
      /\ DOMAIN todo' = 1 .. n - 1 /\ \A i \in 1 .. n - 1 : todo'[i] = todo[i + 1]
  BY Rest DEF PagingTypes
<1> HIDE DEF n
<1>2. Flushing \subseteq Others
  BY Zenon DEF Flushing, Pending, PendingAt
<1>3. ASSUME NEW i \in 1 .. n, todo[i].op = "invlpg", i # 1 PROVE todo[i].v \in Flushing'
  <2>1. i - 1 \in 1 .. n - 1 /\ todo'[i - 1] = todo[i]
    BY <1>1, <1>3
  <2> QED BY <1>1, <1>3, <2>1, Zenon DEF Flushing
<1>4. ASSUME NEW v \in Flushing
      PROVE  v \in Flushing' \/ (Head(todo).op = "invlpg" /\ Head(todo).v = v)
  <2>1. PICK i \in 1 .. n : todo[i].op = "invlpg" /\ todo[i].v = v
    BY <1>1, Zenon DEF Flushing
  <2> QED BY <1>1, <1>3, <2>1, Zenon
<1> QED BY <1>1, <1>2, <1>3, <1>4, Zenon

\* Rooted survives operations that neither switch nor free.
LEMMA RootedRest ==
  ASSUME PagingTypes, Rooted, todo # <<>>, todo' = Tail(todo), Head(todo).op # "cr3",
         UNCHANGED <<spaces, free, cr3, inUse>>
  PROVE  Rooted'
<1> DEFINE n == Len(todo)
<1>1. /\ n \in Nat /\ n >= 1 /\ DOMAIN todo = 1 .. n /\ Head(todo) = todo[1]
      /\ DOMAIN todo' = 1 .. n - 1 /\ \A i \in 1 .. n - 1 : todo'[i] = todo[i + 1]
  BY Rest DEF PagingTypes
<1> HIDE DEF n
<1>2. Pdts' = Pdts
  BY DEF Pdts
<1>3. ASSUME NEW k \in 1 .. n, todo[k].op = "cr3"
      PROVE  \E m \in DOMAIN todo' : todo'[m].op = "cr3"
  <2>1. k - 1 \in 1 .. n - 1 /\ todo'[k - 1] = todo[k]
    BY <1>1, <1>3
  <2> QED BY <1>1, <1>3, <2>1, Zenon
<1> QED BY <1>1, <1>2, <1>3, Zenon DEF Rooted

\* What all operations of a routine have in common.
LEMMA DoneTypes ==
  ASSUME PagingTypes, NEW op, Do(op)
  PROVE  /\ todo # <<>> /\ todo' = Tail(todo) /\ todo' \in Seq(Op) /\ Head(todo).op = op
         /\ Head(todo) \in Op /\ 1 \in DOMAIN todo /\ Head(todo) = todo[1]
<1>1. todo # <<>> /\ todo' = Tail(todo) /\ Head(todo).op = op /\ todo \in Seq(Op)
  BY DEF Do, PagingTypes
<1> QED BY <1>1, Rest

\* Which operations have which fields.
LEMMA OpFields ==
  ASSUME NEW o \in Op
  PROVE  /\ o.op \in {"map", "touch", "free"} => o.f \in Nat
         /\ o.op = "page" => o.d \in Nat /\ o.v \in Int /\ o.f \in Nat
BY DEF Op

\* temp_map and temp_unmap: the entry of the window changes and is flushed.
LEMMA TempMapInv == ASSUME PagingInv, TempMap PROVE PagingInv'
<1> USE DEF PagingInv
<1>1. /\ Do("map") /\ UNCHANGED <<maps, otherTable, spaces, free, cr3, inUse>>
      /\ kernel_page_table' = [kernel_page_table EXCEPT ![TEMP_PT_INDEX] = Head(todo).f]
      /\ tlb' = [tlb EXCEPT ![TEMP_PT_INDEX] = None]
  BY DEF TempMap, Invlpg
<1>2. /\ todo # <<>> /\ todo' = Tail(todo) /\ todo' \in Seq(Op) /\ Head(todo).op = "map"
      /\ Head(todo).f \in Nat
  BY <1>1, DoneTypes, OpFields
<1>3. /\ kernel_page_table' \in [KIndex -> Nat] /\ tlb' \in [Pages -> Nat]
      /\ kernel_page_table'[TEMP_PT_INDEX] = Head(todo).f /\ tlb'[TEMP_PT_INDEX] = None
      /\ \A v \in KIndex \ {TEMP_PT_INDEX} : kernel_page_table'[v] = kernel_page_table[v]
      /\ \A v \in Pages \ {TEMP_PT_INDEX} : tlb'[v] = tlb[v]
  BY <1>1, <1>2, PageSets DEF PagingTypes
<1>4. PagingTypes'
  BY <1>1, <1>2, <1>3 DEF PagingTypes
<1>5. Pending'
  BY <1>1, <1>2, <1>3, PendingRest
<1>6. Rooted' /\ SpacesApart'
  <2>1. SpacesApart'
    BY <1>1 DEF SpacesApart
  <2> QED BY <1>1, <1>2, <2>1, RootedRest
<1>7. TlbCoherent'
  <2> SUFFICES ASSUME NEW v \in Pages \ Flushing' PROVE tlb'[v] \in {None, Walk(v)'}
    BY Zenon DEF TlbCoherent
  <2>1. v \in Pages \ Flushing
    BY <1>2, FlushingRest
  <2>2. v # TEMP_PT_INDEX => Walk(v)' = Walk(v)
    BY <1>1, <1>3 DEF Walk
  <2>3. tlb[v] \in {None, Walk(v)}
    BY <2>1 DEF TlbCoherent
  <2> QED BY <1>3, <2>1, <2>2, <2>3
<1> QED BY <1>4, <1>5, <1>6, <1>7

\* An access through the window changes no table.
LEMMA TempTouchInv == ASSUME PagingInv, TempTouch PROVE PagingInv'
<1> USE DEF PagingInv
<1>1. /\ Do("touch") /\ UNCHANGED <<kernel_page_table, maps, otherTable, spaces, free, cr3, inUse>>
      /\ tlb' = [tlb EXCEPT ![TEMP_PT_INDEX] = Translate(TEMP_PT_INDEX)]
  BY DEF TempTouch, tableVars
<1>2. /\ todo # <<>> /\ todo' = Tail(todo) /\ todo' \in Seq(Op) /\ Head(todo).op = "touch"
  BY <1>1, DoneTypes
<1>3. Translate(TEMP_PT_INDEX) \in Nat
      /\ Translate(TEMP_PT_INDEX) \in {tlb[TEMP_PT_INDEX], Walk(TEMP_PT_INDEX)}
  BY PageSets DEF Translate, Walk, PagingTypes
<1>4. PagingTypes'
  <2>1. tlb' \in [Pages -> Nat]
    BY <1>1, <1>3, PageSets DEF PagingTypes
  <2> QED BY <1>1, <1>2, <2>1 DEF PagingTypes
<1>5. Pending'
  BY <1>1, <1>2, PendingRest
<1>6. Rooted' /\ SpacesApart'
  <2>1. SpacesApart'
    BY <1>1 DEF SpacesApart
  <2> QED BY <1>1, <1>2, <2>1, RootedRest
<1>7. TlbCoherent'
  <2> SUFFICES ASSUME NEW v \in Pages \ Flushing' PROVE tlb'[v] \in {None, Walk(v)'}
    BY Zenon DEF TlbCoherent
  <2>1. v \in Pages \ Flushing
    BY <1>2, FlushingRest
  <2>2. Walk(v)' = Walk(v)
    BY <1>1 DEF Walk
  <2>3. tlb[v] \in {None, Walk(v)}
    BY <2>1 DEF TlbCoherent
  <2>4. tlb'[v] \in {tlb[v], Walk(v)}
    BY <1>1, <1>3, PageSets DEF PagingTypes
  <2> QED BY <2>2, <2>3, <2>4
<1> QED BY <1>4, <1>5, <1>6, <1>7

\* An entry changes in a directory that is not in use, or is flushed later.
LEMMA SetEntryInv == ASSUME PagingInv, SetEntry PROVE PagingInv'
<1> USE DEF PagingInv
<1> DEFINE o == Head(todo)
<1>1. /\ Do("page") /\ UNCHANGED <<kernel_page_table, otherTable, spaces, free, cr3, inUse, tlb>>
      /\ maps' = [maps EXCEPT ![o.d][o.v] = o.f]
  BY DEF SetEntry
<1>2. /\ todo # <<>> /\ todo' = Tail(todo) /\ todo' \in Seq(Op) /\ o.op = "page"
      /\ o.f \in Nat /\ 1 \in DOMAIN todo /\ o = todo[1]
  BY <1>1, DoneTypes, OpFields
<1>3. EntryIdle(todo, 1, cr3)
  BY <1>2, Zenon DEF Pending, PendingAt
<1>4. o.d \in Dirs /\ o.v \in LowPages
  BY <1>2, <1>3, Zenon DEF EntryIdle
<1>5. \/ o.d # cr3
      \/ \E j \in DOMAIN todo : j # 1 /\ todo[j].op = "invlpg" /\ todo[j].v = o.v
  <2>1. ~ Switches(todo, 1) /\ \A j \in Nat : j > 1 => j # 1
    BY DEF Switches
  <2>2. \A j \in DOMAIN todo : j \in Nat
    BY <1>2 DEF PagingTypes
  <2> QED BY <1>2, <1>3, <2>1, <2>2, Zenon DEF EntryIdle
<1> HIDE DEF o
<1>6. /\ maps' \in [Dirs -> [LowPages -> Nat]]
      /\ \A v \in LowPages : maps'[cr3][v] = maps[cr3][v] \/ (o.d = cr3 /\ o.v = v)
  <2>1. maps \in [Dirs -> [LowPages -> Nat]] /\ cr3 \in Dirs
    BY DEF PagingTypes
  <2> QED BY <1>1, <1>2, <1>4, <2>1
<1>7. PagingTypes'
  BY <1>1, <1>2, <1>6 DEF PagingTypes
<1>8. Pending'
  BY <1>1, <1>2, PendingRest DEF o
<1>9. Rooted' /\ SpacesApart'
  <2>1. SpacesApart'
    BY <1>1 DEF SpacesApart
  <2> QED BY <1>1, <1>2, <2>1, RootedRest DEF o
<1>10. TlbCoherent'
  <2> SUFFICES ASSUME NEW v \in Pages \ Flushing' PROVE tlb'[v] \in {None, Walk(v)'}
    BY Zenon DEF TlbCoherent
  <2>1. v \in Pages \ Flushing
    BY <1>2, FlushingRest DEF o
  <2>2. o.d # cr3 \/ o.v # v
    BY <1>2, <1>5, FlushingRest, Zenon
  <2>3. Walk(v)' = Walk(v)
    BY <1>1, <1>6, <2>2, PageSets DEF Walk
  <2>4. tlb[v] \in {None, Walk(v)}
    BY <2>1 DEF TlbCoherent
  <2> QED BY <1>1, <2>3, <2>4
<1> QED BY <1>7, <1>8, <1>9, <1>10

\* update_cr3 empties the TLB.
LEMMA UpdateCr3Inv == ASSUME PagingInv, UpdateCr3 PROVE PagingInv'
<1> USE DEF PagingInv
<1>1. /\ Do("cr3") /\ UNCHANGED <<kernel_page_table, maps, otherTable, spaces, free>>
      /\ cr3' = Head(todo).d /\ tlb' = [v \in Pages |-> None]
      /\ inUse' = CHOOSE s \in spaces : s[1] = Head(todo).d
  BY DEF UpdateCr3, FlushTlb, tableVars
<1>2. /\ todo # <<>> /\ todo' = Tail(todo) /\ todo' \in Seq(Op) /\ Head(todo).op = "cr3"
      /\ 1 \in DOMAIN todo /\ Head(todo) = todo[1]
  BY <1>1, DoneTypes
<1>3. cr3' \in Pdts
  BY <1>1, <1>2, Zenon DEF Pending, PendingAt
<1>4. Pdts \subseteq Dirs /\ Pdts' = Pdts
  BY <1>1 DEF Pdts, PagingTypes, Dirs
<1>5. PagingTypes'
  <2>1. tlb' \in [Pages -> Nat]
    BY <1>1, PageSets
  <2> QED BY <1>1, <1>2, <1>3, <1>4, <2>1 DEF PagingTypes
<1>6. Pending'
  BY <1>1, <1>2, PendingRest
<1>7. Rooted' /\ SpacesApart'
  <2>1. \E s \in spaces : s[1] = Head(todo).d
    BY <1>1, <1>3, Zenon DEF Pdts
  <2>2. inUse' \in spaces /\ inUse'[1] = Head(todo).d
    BY <1>1, <2>1, Zenon
  <2> QED BY <1>1, <2>2 DEF Rooted, SpacesApart
<1>8. TlbCoherent'
  BY <1>1 DEF TlbCoherent
<1> QED BY <1>5, <1>6, <1>7, <1>8

\* pfa_free takes back a frame that no address space has.
LEMMA PfaFreeInv == ASSUME PagingInv, PfaFree PROVE PagingInv'
<1> USE DEF PagingInv
<1> DEFINE f == Head(todo).f
<1>1. /\ Do("free") /\ UNCHANGED <<kernel_page_table, maps, otherTable, spaces, cr3, inUse, tlb>>
      /\ free' = free \cup {f}
  BY DEF PfaFree, tableVars
<1>2. /\ todo # <<>> /\ todo' = Tail(todo) /\ todo' \in Seq(Op) /\ Head(todo).op = "free"
      /\ 1 \in DOMAIN todo /\ Head(todo) = todo[1]
  BY <1>1, DoneTypes
<1>3. FreedLast(todo, 1, spaces)
  BY <1>2, Zenon DEF Pending, PendingAt
<1>4. /\ f \in Frames /\ \A s \in spaces : \A n \in 1 .. 5 : s[n] # f
      /\ \A k \in DOMAIN todo : todo[k].op # "cr3"
  <2>1. \A k \in DOMAIN todo : k = 1 \/ k > 1
    BY <1>2 DEF PagingTypes
  <2> QED BY <1>2, <1>3, <2>1, Zenon DEF FreedLast
<1>5. PagingTypes'
  BY <1>1, <1>2, <1>4 DEF PagingTypes
<1>6. Pending'
  BY <1>1, <1>2, PendingRest
<1>7. SpacesApart'
  BY <1>1, <1>4 DEF SpacesApart
<1>8. Rooted'
  <2>1. cr3 = BOOT \/ (inUse \in spaces /\ inUse[1] = cr3)
    BY <1>4, Zenon DEF Rooted
  <2> QED BY <1>1, <2>1, Zenon DEF Rooted
<1>9. TlbCoherent'
  <2> SUFFICES ASSUME NEW v \in Pages \ Flushing' PROVE tlb'[v] \in {None, Walk(v)'}
    BY Zenon DEF TlbCoherent
  <2>1. v \in Pages \ Flushing
    BY <1>2, FlushingRest
  <2>2. Walk(v)' = Walk(v)
    BY <1>1 DEF Walk
  <2>3. tlb[v] \in {None, Walk(v)}
    BY <2>1 DEF TlbCoherent
  <2> QED BY <1>1, <2>2, <2>3
<1> QED BY <1>5, <1>6, <1>7, <1>8, <1>9

\* invlpg at the end of paging_map_page.
LEMMA FlushPageInv == ASSUME PagingInv, FlushPage PROVE PagingInv'
<1> USE DEF PagingInv
<1> DEFINE w == Head(todo).v
<1>1. /\ Do("invlpg") /\ UNCHANGED <<kernel_page_table, maps, otherTable, spaces, free, cr3, inUse>>
      /\ tlb' = [tlb EXCEPT ![w] = None]
  BY DEF FlushPage, Invlpg, tableVars
<1>2. /\ todo # <<>> /\ todo' = Tail(todo) /\ todo' \in Seq(Op) /\ Head(todo).op = "invlpg"
      /\ 1 \in DOMAIN todo /\ Head(todo) = todo[1]
  BY <1>1, DoneTypes
<1>0. w \in Pages
  <2>1. w \in Others
    BY <1>2, Zenon DEF Pending, PendingAt
  <2> QED BY <2>1, PageSets, Zenon
<1> HIDE DEF w
<1>3. PagingTypes'
  <2>1. tlb' \in [Pages -> Nat]
    <3>1. None \in Nat /\ tlb \in [Pages -> Nat]
      BY DEF None, PagingTypes
    <3> QED BY <1>1, <1>0, <3>1
  <2> QED BY <1>1, <1>2, <2>1 DEF PagingTypes
<1>4. Pending'
  BY <1>1, <1>2, PendingRest
<1>5. Rooted' /\ SpacesApart'
  <2>1. SpacesApart'
    BY <1>1 DEF SpacesApart
  <2> QED BY <1>1, <1>2, <2>1, RootedRest
<1>6. TlbCoherent'
  <2> SUFFICES ASSUME NEW v \in Pages \ Flushing' PROVE tlb'[v] \in {None, Walk(v)'}
    BY Zenon DEF TlbCoherent
  <2>1. CASE v = w
    BY <1>1, <2>1 DEF PagingTypes
  <2>2. CASE v # w
    <3>1. v \in Pages \ Flushing
      BY <1>2, <2>2, FlushingRest, Zenon DEF w
    <3>2. Walk(v)' = Walk(v)
      BY <1>1 DEF Walk
    <3>3. tlb[v] \in {None, Walk(v)}
      BY <3>1 DEF TlbCoherent
    <3>4. tlb'[v] = tlb[v]
      BY <1>1, <2>2 DEF PagingTypes
    <3> QED BY <3>2, <3>3, <3>4
  <2> QED BY <2>1, <2>2
<1> QED BY <1>3, <1>4, <1>5, <1>6

\* paging_init leaves the 4MB page and empties the TLB.
LEMMA PagingInitInv == ASSUME PagingInv, PagingInit PROVE PagingInv'
<1> USE DEF PagingInv
<1>1. /\ Do("init") /\ UNCHANGED <<maps, otherTable, spaces, free, cr3, inUse>>
      /\ kernel_page_table' =
           [i \in KIndex |-> IF i < mapped_frames THEN Identity(i) ELSE None]
      /\ tlb' = [v \in Pages |-> None]
  BY DEF PagingInit, FlushTlb
<1>2. /\ todo # <<>> /\ todo' = Tail(todo) /\ todo' \in Seq(Op) /\ Head(todo).op = "init"
  BY <1>1, DoneTypes
<1>3. PagingTypes'
  <2>1. tlb' \in [Pages -> Nat] /\ kernel_page_table' \in [KIndex -> Nat]
    BY <1>1, PageSets
  <2> QED BY <1>1, <1>2, <2>1 DEF PagingTypes
<1>4. Pending'
  BY <1>1, <1>2, PendingRest
<1>5. Rooted' /\ SpacesApart'
  <2>1. SpacesApart'
    BY <1>1 DEF SpacesApart
  <2> QED BY <1>1, <1>2, <2>1, RootedRest
<1>6. TlbCoherent'
  BY <1>1 DEF TlbCoherent
<1> QED BY <1>3, <1>4, <1>5, <1>6

\* The processor caches what the tables say.
LEMMA TlbFillInv == ASSUME PagingInv, NEW w \in Pages, TlbFill(w) PROVE PagingInv'
<1> USE DEF PagingInv
<1>1. /\ UNCHANGED <<kernel_page_table, maps, otherTable, spaces, free, cr3, inUse, todo>>
      /\ tlb' = [tlb EXCEPT ![w] = Walk(w)]
  BY DEF TlbFill, tableVars
<1>2. Walk(w) \in Nat
  <2>1. w \in KIndex \/ w \in LowPages
    BY PageSets, Zenon
  <2>2. /\ kernel_page_table \in [KIndex -> Nat] /\ maps \in [Dirs -> [LowPages -> Nat]]
        /\ cr3 \in Dirs
    BY Zenon DEF PagingTypes
  <2> QED BY <2>1, <2>2 DEF Walk
<1>3. PagingTypes'
  <2>1. tlb' \in [Pages -> Nat]
    BY <1>1, <1>2 DEF PagingTypes
  <2> QED BY <1>1, <2>1 DEF PagingTypes
<1>4. Pdts' = Pdts /\ Flushing' = Flushing
  BY <1>1, Zenon DEF Pdts, Flushing
<1>5. SpacesApart' /\ Rooted'
  BY <1>1, <1>4 DEF SpacesApart, Rooted
<1>6. Pending'
  BY <1>1, <1>4, Zenon DEF Pending, PendingAt
<1>7. TlbCoherent'
  <2> SUFFICES ASSUME NEW v \in Pages \ Flushing PROVE tlb'[v] \in {None, Walk(v)'}
    BY <1>4, Zenon DEF TlbCoherent
  <2>1. Walk(v)' = Walk(v)
    BY <1>1 DEF Walk
  <2>2. tlb'[v] \in {tlb[v], Walk(v)}
    BY <1>1 DEF PagingTypes
  <2>3. tlb[v] \in {None, Walk(v)}
    BY DEF TlbCoherent
  <2> QED BY <2>1, <2>2, <2>3
<1> QED BY <1>3, <1>5, <1>6, <1>7

-----------------------------------------------------------------------------
(* The allocator *)

Rank(f) == Cardinality({g \in free : g <= f})

\* Every rank up to the number of free frames is that of a free frame.
LEMMA RankExists ==
  ASSUME free \subseteq Frames, NEW k \in 1 .. Cardinality(free)
  PROVE  \E f \in free : Rank(f) = k
<1>1. IsFiniteSet(free) /\ Cardinality(free) \in Nat /\ (\A g \in free : g \in Nat)
  <2>1. IsFiniteSet(Frames)
    BY PagingAssumption, FS_Interval DEF Frames
  <2>2. IsFiniteSet(free) /\ Cardinality(free) \in Nat
    BY <2>1, FS_Subset, FS_CardinalityType
  <2> QED BY <2>2, PageSets
<1>2. ASSUME NEW S \in SUBSET free, S # {} PROVE \E x \in S : \A y \in S : x <= y
  <2>1. S \subseteq Nat
    BY <1>1
  <2>2. PICK x \in S : \A y \in S : ~ (<<y, x>> \in OpToRel(<, Nat))
    BY <1>2, <2>1, NatLessThanWellFounded, WFMin, Zenon
  <2>3. ASSUME NEW y \in S PROVE x <= y
    <3>1. x \in Nat /\ y \in Nat /\ ~ (y < x)
      BY <2>1, <2>2, Zenon DEF OpToRel
    <3> QED BY <3>1
  <2> QED BY <2>3
<1> DEFINE Bad == {m \in Nat : m \in 1 .. Cardinality(free) /\ ~ \E f \in free : Rank(f) = m}
<1> SUFFICES ASSUME Bad # {} PROVE FALSE
  BY <1>1
<1>3. PICK m \in Bad : \A y \in Bad : ~ (<<y, m>> \in OpToRel(<, Nat))
  BY NatLessThanWellFounded, WFMin, Zenon
<1>4. m \in Nat /\ 1 <= m /\ m <= Cardinality(free) /\ ~ \E f \in free : Rank(f) = m
  BY <1>1
<1>5. m # 1
  <2>1. free # {}
    BY <1>4, FS_EmptySet
  <2>2. PICK f \in free : \A y \in free : f <= y
    BY <1>2, <2>1
  <2>3. {g \in free : g <= f} = {f}
    BY <1>1, <2>2
  <2>4. Rank(f) = 1
    BY <2>3, FS_Singleton, Zenon DEF Rank
  <2> QED BY <1>4, <2>4, Zenon
<1>6. m - 1 \in Nat /\ m - 1 < m /\ m - 1 \in 1 .. Cardinality(free)
  BY <1>1, <1>4, <1>5
<1>7. PICK f \in free : Rank(f) = m - 1
  <2>1. m - 1 \notin Bad
    BY <1>3, <1>4, <1>6, Zenon DEF OpToRel
  <2> QED BY <1>6, <2>1, Zenon
<1> DEFINE Low == {g \in free : g <= f}
           High == {g \in free : ~ (g <= f)}
<1>8. High # {}
  <2> SUFFICES ASSUME High = {} PROVE FALSE
    OBVIOUS
  <2>1. Low = free
    BY Zenon
  <2>2. Cardinality(free) = m - 1
    BY <1>7, <2>1, Zenon DEF Rank
  <2> QED BY <1>4, <2>2
<1>9. PICK h \in High : \A y \in High : h <= y
  <2>1. High \in SUBSET free
    OBVIOUS
  <2> HIDE DEF High
  <2> QED BY <1>2, <1>8, <2>1
<1>10. {g \in free : g <= h} = Low \cup {h}
  <2>1. f \in Nat /\ h \in Nat /\ h \in free /\ ~ (h <= f)
    BY <1>1
  <2>2. ASSUME NEW g \in free PROVE g <= h <=> g <= f \/ g = h
    <3>1. ~ (g <= f) => h <= g
      BY <1>9
    <3> QED BY <1>1, <2>1, <3>1
  <2> QED BY <2>1, <2>2, Zenon
<1>11. IsFiniteSet(Low) /\ Cardinality(Low) = m - 1 /\ h \notin Low
  <2>1. Low \in SUBSET free
    OBVIOUS
  <2>2. Cardinality(Low) = m - 1
    BY <1>7, Zenon DEF Rank
  <2>3. h \notin Low
    OBVIOUS
  <2> HIDE DEF Low
  <2> QED BY <1>1, <2>1, <2>2, <2>3, FS_Subset
<1> HIDE DEF Low
<1>12. Cardinality(Low \cup {h}) = m
  <2>1. Cardinality(Low \cup {h}) = Cardinality(Low) + 1
    BY <1>11, FS_AddElement, Zenon
  <2> QED BY <1>4, <1>11, <2>1
<1>13. Rank(h) = m /\ h \in free
  BY <1>10, <1>12, Zenon DEF Rank
<1> QED BY <1>4, <1>13, Zenon

\* pfa_alloc gives n different free frames.
LEMMA AllocGives ==
  ASSUME free \subseteq Frames, NEW n \in Nat, Cardinality(free) >= n
  PROVE  /\ Alloc(n) \in [1 .. n -> free]
         /\ \A i, j \in 1 .. n : Alloc(n)[i] = Alloc(n)[j] => i = j
<1>1. Cardinality(free) \in Nat
  <2>1. IsFiniteSet(Frames)
    BY PagingAssumption, FS_Interval DEF Frames
  <2> QED BY <2>1, FS_Subset, FS_CardinalityType
<1>2. \A k \in 1 .. n : Alloc(n)[k] = CHOOSE f \in free : Cardinality({g \in free : g <= f}) = k
  BY Zenon DEF Alloc
<1>3. ASSUME NEW k \in 1 .. n PROVE Alloc(n)[k] \in free /\ Rank(Alloc(n)[k]) = k
  <2>1. k \in 1 .. Cardinality(free)
    BY <1>1
  <2>2. \E f \in free : Cardinality({g \in free : g <= f}) = k
    BY <2>1, RankExists, Zenon DEF Rank
  <2> QED BY <1>2, <2>2, Zenon DEF Rank
<1>4. Alloc(n) \in [1 .. n -> free]
  <2>1. Alloc(n) = [k \in 1 .. n |-> Alloc(n)[k]]
    BY DEF Alloc
  <2> QED BY <1>3, <2>1, Zenon
<1>5. \A i, j \in 1 .. n : Alloc(n)[i] = Alloc(n)[j] => i = j
  BY <1>3, Zenon
<1> QED BY <1>4, <1>5

-----------------------------------------------------------------------------
(* Pieces of routines *)

\* A piece that opens the window before each access, changes entries of user
\* pages in the directories D only, frees the frames R only, and leaves cr3 alone.
Script(t, D, R) ==
  /\ t \in Seq(Op)
  /\ \A i \in DOMAIN t :
       /\ t[i].op \in {"map", "touch", "page", "free"}
       /\ Opened(t, i)
       /\ t[i].op = "page" => t[i].d \in D /\ t[i].v \in LowPages
       /\ t[i].op = "free" => t[i].f \in R

\* The operations of two routines, one after the other.
LEMMA Joined ==
  ASSUME NEW a \in Seq(Op), NEW b \in Seq(Op)
  PROVE  /\ a \o b \in Seq(Op) /\ Len(a) \in Nat /\ Len(b) \in Nat
         /\ DOMAIN a = 1 .. Len(a) /\ DOMAIN b = 1 .. Len(b)
         /\ DOMAIN (a \o b) = 1 .. Len(a) + Len(b)
         /\ \A i \in 1 .. Len(a) : (a \o b)[i] = a[i]
         /\ \A i \in 1 .. Len(b) : (a \o b)[Len(a) + i] = b[i]
OBVIOUS

\* Windows stay open for their accesses when routines are put together.
LEMMA OpenedJoined ==
  ASSUME NEW a \in Seq(Op), NEW b \in Seq(Op),
         \A i \in DOMAIN a : Opened(a, i), \A i \in DOMAIN b : Opened(b, i)
  PROVE  \A i \in DOMAIN (a \o b) : Opened(a \o b, i)
<1> DEFINE c == a \o b
           m == Len(a)
           n == Len(b)
<1>1. /\ m \in Nat /\ n \in Nat /\ DOMAIN a = 1 .. m /\ DOMAIN b = 1 .. n /\ DOMAIN c = 1 .. m + n
      /\ (\A i \in 1 .. m : c[i] = a[i]) /\ (\A i \in 1 .. n : c[m + i] = b[i])
  BY Joined, Zenon
<1> HIDE DEF c, m, n
<1>2. ASSUME NEW i \in 1 .. m + n PROVE Opened(c, i)
  <2>1. CASE i <= m
    <3>1. i \in 1 .. m /\ (i > 1 => i - 1 \in 1 .. m)
      BY <1>1, <2>1
    <3>2. Opened(a, i) /\ c[i] = a[i] /\ (i > 1 => c[i - 1] = a[i - 1])
      BY <1>1, <3>1
    <3> QED BY <3>2, Zenon DEF Opened
  <2>2. CASE ~ (i <= m)
    <3>2. i - m > 1 => (i - m) - 1 \in 1 .. n /\ m + ((i - m) - 1) = i - 1 /\ i > 1
      BY <1>1, <2>2
    <3>3. i - m \in 1 .. n /\ m + (i - m) = i
      BY <1>1, <2>2
    <3>4. Opened(b, i - m) /\ c[i] = b[i - m]
      BY <1>1, <3>3
    <3>5. i - m > 1 => c[i - 1] = b[(i - m) - 1] /\ i > 1
      BY <1>1, <3>2
    <3> QED BY <3>4, <3>5, Zenon DEF Opened
  <2> QED BY <2>1, <2>2
<1> QED BY <1>1, <1>2, Zenon DEF c

\* So do the other demands on a piece of a routine.
LEMMA ScriptJoined ==
  ASSUME NEW a, NEW b, NEW D, NEW R, Script(a, D, R), Script(b, D, R)
  PROVE  Script(a \o b, D, R)
<1> DEFINE c == a \o b
           m == Len(a)
           n == Len(b)
<1>0. a \in Seq(Op) /\ b \in Seq(Op)
  BY DEF Script
<1>1. /\ m \in Nat /\ n \in Nat /\ DOMAIN a = 1 .. m /\ DOMAIN b = 1 .. n /\ DOMAIN c = 1 .. m + n
      /\ (\A i \in 1 .. m : c[i] = a[i]) /\ (\A i \in 1 .. n : c[m + i] = b[i]) /\ c \in Seq(Op)
  BY <1>0, Joined, Zenon
<1>2. \A i \in DOMAIN c : Opened(c, i)
  BY <1>0, OpenedJoined, Zenon DEF Script
<1> HIDE DEF c, m, n
<1>3. ASSUME NEW i \in 1 .. m + n
      PROVE  /\ c[i].op \in {"map", "touch", "page", "free"}
             /\ c[i].op = "page" => c[i].d \in D /\ c[i].v \in LowPages
             /\ c[i].op = "free" => c[i].f \in R
  <2>1. CASE i <= m
    <3>1. i \in 1 .. m
      BY <1>1, <2>1
    <3> QED BY <1>1, <3>1, Zenon DEF Script
  <2>2. CASE ~ (i <= m)
    <3>1. i - m \in 1 .. n /\ m + (i - m) = i
      BY <1>1, <2>2
    <3>2. c[i] = b[i - m]
      BY <1>1, <3>1
    <3> QED BY <1>1, <3>1, <3>2, Zenon DEF Script
  <2> QED BY <2>1, <2>2, Zenon
<1> QED BY <1>1, <1>2, <1>3, Zenon DEF Script, c

\* Opening the window, one access, closing it.
LEMMA WindowScript ==
  ASSUME NEW D, NEW R, NEW f \in Nat
  PROVE  Script(Window(f), D, R)
<1> DEFINE t == <<Map(f), Touch(f), Unmap>>
<1>1. t \in Seq(Op) /\ DOMAIN t = 1 .. 3 /\ t[1] = Map(f) /\ t[2] = Touch(f) /\ t[3] = Unmap
  BY Fields
<1> HIDE DEF t
<1>2. ASSUME NEW i \in 1 .. 3
      PROVE  /\ t[i].op \in {"map", "touch"}
             /\ Opened(t, i)
  <2>1. CASE i = 1
    BY <1>1, <2>1, Fields DEF Opened
  <2>2. CASE i = 2
    BY <1>1, <2>2, Fields DEF Opened
  <2>3. CASE i = 3
    BY <1>1, <2>3, Fields DEF Opened
  <2> QED BY <2>1, <2>2, <2>3
<1>3. Script(t, D, R)
  BY <1>1, <1>2 DEF Script
<1> QED BY <1>3 DEF Window, t

\* Set page v of directory d, through its table.
LEMMA EntryScript ==
  ASSUME NEW D, NEW R, NEW t \in Nat, NEW d \in D, d \in Nat, NEW v \in LowPages, NEW f \in Nat
  PROVE  Script(<<Map(t), Touch(t), SetPage(d, v, f), Unmap>>, D, R)
<1> DEFINE q == <<Map(t), Touch(t), SetPage(d, v, f), Unmap>>
<1>0. v \in Int
  BY PageSets
<1>1. /\ SetPage(d, v, f) \in Op /\ SetPage(d, v, f).op = "page"
      /\ SetPage(d, v, f).d = d /\ SetPage(d, v, f).v = v
  BY <1>0, SetPageFields
<1>2. q \in Seq(Op) /\ DOMAIN q = 1 .. 4 /\ q[1] = Map(t) /\ q[2] = Touch(t)
      /\ q[3] = SetPage(d, v, f) /\ q[4] = Unmap
  BY <1>1, Fields
<1> HIDE DEF q
<1>3. ASSUME NEW i \in 1 .. 4
      PROVE  /\ q[i].op \in {"map", "touch", "page"}
             /\ Opened(q, i)
             /\ q[i].op = "page" => q[i].d \in D /\ q[i].v \in LowPages
  <2>1. CASE i = 1
    BY <1>2, <2>1, Fields DEF Opened
  <2>2. CASE i = 2
    BY <1>2, <2>2, Fields DEF Opened
  <2>3. CASE i = 3
    BY <1>1, <1>2, <2>3 DEF Opened
  <2>4. CASE i = 4
    BY <1>2, <2>4, Fields DEF Opened
  <2> QED BY <2>1, <2>2, <2>3, <2>4
<1>4. Script(q, D, R)
  BY <1>2, <1>3 DEF Script
<1> QED BY <1>4 DEF q

\* Freeing one frame.
LEMMA ReleaseScript ==
  ASSUME NEW D, NEW R, NEW f \in R, f \in Nat
  PROVE  Script(<<Release(f)>>, D, R)
<1> DEFINE q == <<Release(f)>>
<1>1. q \in Seq(Op) /\ DOMAIN q = {1} /\ q[1] = Release(f)
  BY Fields
<1> HIDE DEF q
<1>2. Script(q, D, R)
  BY <1>1, Fields DEF Script, Opened
<1> QED BY <1>2 DEF q

\* The pages of table t are freed while the window shows it, and then the table.
LEMMA TableScript ==
  ASSUME NEW D, NEW R, NEW t \in R, t \in Nat, NEW f \in R, f \in Nat
  PROVE  Script(<<Map(t), Touch(t), Release(f), Unmap, Release(t)>>, D, R)
<1> DEFINE q == <<Map(t), Touch(t), Release(f), Unmap, Release(t)>>
<1>1. q \in Seq(Op) /\ DOMAIN q = 1 .. 5 /\ q[1] = Map(t) /\ q[2] = Touch(t)
      /\ q[3] = Release(f) /\ q[4] = Unmap /\ q[5] = Release(t)
  BY Fields
<1> HIDE DEF q
<1>2. ASSUME NEW i \in 1 .. 5
      PROVE  /\ q[i].op \in {"map", "touch", "free"}
             /\ Opened(q, i)
             /\ q[i].op = "free" => q[i].f \in R
  <2>1. CASE i = 1
    BY <1>1, <2>1, Fields DEF Opened
  <2>2. CASE i = 2
    BY <1>1, <2>2, Fields DEF Opened
  <2>3. CASE i = 3 \/ i = 5
    BY <1>1, <2>3, Fields DEF Opened
  <2>4. CASE i = 4
    BY <1>1, <2>4, Fields DEF Opened
  <2> QED BY <2>1, <2>2, <2>3, <2>4
<1>3. Script(q, D, R)
  BY <1>1, <1>2 DEF Script
<1> QED BY <1>3 DEF q

\* paging_map_user_page on a new table.
LEMMA MapUserPageScript ==
  ASSUME NEW D, NEW R, NEW d \in D, d \in Nat, NEW t \in Nat, NEW v \in LowPages, NEW f \in Nat
  PROVE  Script(map_user_page(d, t, v, f), D, R)
<1> DEFINE q == <<Map(t), Touch(t), SetPage(d, v, f), Unmap>>
<1>1. Script(q, D, R)
  BY EntryScript
<1>2. Script(Window(d), D, R) /\ Script(Window(t), D, R)
  BY WindowScript
<1> HIDE DEF q
<1>3. Script(Window(d) \o Window(t), D, R)
  BY <1>2, ScriptJoined
<1>4. Script(Window(d) \o Window(t) \o Window(d), D, R)
  BY <1>2, <1>3, ScriptJoined
<1>5. Script(Window(d) \o Window(t) \o Window(d) \o q, D, R)
  BY <1>1, <1>4, ScriptJoined
<1> QED BY <1>5, Zenon DEF map_user_page, alloc_zeroed_frame, q

\* paging_create_user_pdt.
LEMMA CreateUserPdtScript ==
  ASSUME NEW D, NEW R, NEW d \in Nat PROVE Script(create_user_pdt(d), D, R)
<1>1. Script(Window(d), D, R)
  BY WindowScript
<1>2. Script(Window(d) \o Window(d), D, R)
  BY <1>1, ScriptJoined
<1> QED BY <1>2, Zenon DEF create_user_pdt, alloc_zeroed_frame

\* sys_exec builds the new image in its own directory only.
LEMMA BuildScript ==
  ASSUME NEW D, NEW R, NEW s \in [1 .. 5 -> Nat], s[1] \in D, NEW src \in Nat
  PROVE  Script(build_new_image(s, src), D, R)
<1>1. s[1] \in Nat /\ s[2] \in Nat /\ s[3] \in Nat /\ s[4] \in Nat /\ s[5] \in Nat
  OBVIOUS
<1>2. TEXT \in LowPages /\ STACK \in LowPages
  BY PageSets
<1>3. Script(create_user_pdt(s[1]), D, R)
  BY <1>1, CreateUserPdtScript
<1>4. Script(map_user_page(s[1], s[2], TEXT, s[3]), D, R)
      /\ Script(map_user_page(s[1], s[4], STACK, s[5]), D, R)
  BY <1>1, <1>2, MapUserPageScript
<1>5. Script(Window(s[3]), D, R) /\ Script(Window(src), D, R) /\ Script(Window(s[5]), D, R)
  BY <1>1, WindowScript
<1>6. Script(Window(s[3]) \o Window(src), D, R)
  BY <1>5, ScriptJoined
<1>7. Script(copy_phys_region_to_frame(s[3], src), D, R)
  BY <1>5, <1>6, ScriptJoined DEF copy_phys_region_to_frame
<1>8. Script(setup_user_stack(s[1], s[4], s[5]), D, R)
  BY <1>4, <1>5, ScriptJoined DEF setup_user_stack
<1>9. Script(create_user_pdt(s[1]) \o map_user_page(s[1], s[2], TEXT, s[3]), D, R)
  BY <1>3, <1>4, ScriptJoined
<1>10. Script(create_user_pdt(s[1]) \o map_user_page(s[1], s[2], TEXT, s[3])
                \o copy_phys_region_to_frame(s[3], src), D, R)
  BY <1>7, <1>9, ScriptJoined
<1> QED BY <1>8, <1>10, ScriptJoined, Zenon DEF build_new_image

\* What paging_clone_user_space does for one page.
LEMMA CloneEntryScript ==
  ASSUME NEW D, NEW R, NEW d \in Nat, NEW t \in Nat, NEW f \in Nat, NEW c \in D, c \in Nat,
         NEW ct \in Nat, NEW v \in LowPages, NEW cf \in Nat
  PROVE  Script(CloneEntry(d, t, f, c, ct, v, cf), D, R)
<1> DEFINE q == <<Map(ct), Touch(ct), SetPage(c, v, cf), Unmap>>
           W(x) == Window(x)
<1>1. Script(q, D, R)
  BY EntryScript
<1>2. Script(W(d), D, R) /\ Script(W(ct), D, R) /\ Script(W(c), D, R) /\ Script(W(t), D, R)
      /\ Script(W(f), D, R) /\ Script(W(cf), D, R)
  BY WindowScript
<1> HIDE DEF q, W
<1>3. Script(W(f) \o W(cf), D, R)
  BY <1>2, ScriptJoined
<1>4. Script(W(d) \o W(ct), D, R)
  BY <1>2, ScriptJoined
<1>5. Script(W(d) \o W(ct) \o W(c), D, R)
  BY <1>4, <1>2, ScriptJoined
<1>6. Script(W(d) \o W(ct) \o W(c) \o W(t), D, R)
  BY <1>5, <1>2, ScriptJoined
<1>7. Script(W(d) \o W(ct) \o W(c) \o W(t) \o (W(f) \o W(cf)), D, R)
  BY <1>6, <1>3, ScriptJoined
<1>8. Script(W(d) \o W(ct) \o W(c) \o W(t) \o (W(f) \o W(cf)) \o q, D, R)
  BY <1>7, <1>1, ScriptJoined
<1> QED BY <1>8, Zenon DEF CloneEntry, alloc_zeroed_frame, copy_frame_page, q, W

\* sys_fork writes entries of the child's directory only.
LEMMA CloneScript ==
  ASSUME NEW D, NEW R, NEW s \in [1 .. 5 -> Nat], NEW c \in [1 .. 5 -> Nat], c[1] \in D
  PROVE  Script(clone_user_space(s, c), D, R)
<1>1. /\ s[1] \in Nat /\ s[2] \in Nat /\ s[3] \in Nat /\ s[4] \in Nat /\ s[5] \in Nat
      /\ c[1] \in Nat /\ c[2] \in Nat /\ c[3] \in Nat /\ c[4] \in Nat /\ c[5] \in Nat
  OBVIOUS
<1>2. TEXT \in LowPages /\ STACK \in LowPages
  BY PageSets
<1>3. Script(create_user_pdt(c[1]), D, R)
  BY <1>1, CreateUserPdtScript
<1>4. Script(CloneEntry(s[1], s[2], s[3], c[1], c[2], TEXT, c[3]), D, R)
  BY <1>1, <1>2, CloneEntryScript
<1>5. Script(CloneEntry(s[1], s[4], s[5], c[1], c[4], STACK, c[5]), D, R)
  BY <1>1, <1>2, CloneEntryScript
<1>6. Script(create_user_pdt(c[1]) \o CloneEntry(s[1], s[2], s[3], c[1], c[2], TEXT, c[3]), D, R)
  BY <1>3, <1>4, ScriptJoined
<1> QED BY <1>5, <1>6, ScriptJoined, Zenon DEF clone_user_space

\* What paging_destroy_user_space does for one page.
LEMMA DestroyEntryScript ==
  ASSUME NEW D, NEW R, NEW d \in D, d \in Nat, NEW t \in R, t \in Nat, NEW v \in LowPages,
         NEW f \in R, f \in Nat
  PROVE  Script(DestroyEntry(d, t, v, f), D, R)
<1> DEFINE x == <<Map(t), Touch(t), Release(f), Unmap, Release(t)>>
           y == <<Map(d), Touch(d), SetPage(d, v, None), Unmap>>
<1>1. Script(x, D, R)
  BY TableScript
<1>2. Script(y, D, R)
  <2>1. None \in Nat
    BY DEF None
  <2> QED BY <2>1, EntryScript
<1>3. Script(Window(d), D, R)
  BY WindowScript
<1> HIDE DEF x, y
<1>4. Script(Window(d) \o x, D, R)
  BY <1>1, <1>3, ScriptJoined
<1>5. Script(Window(d) \o x \o y, D, R)
  BY <1>2, <1>4, ScriptJoined
<1> QED BY <1>5, Zenon DEF DestroyEntry, x, y

\* An address space is taken apart: entries of its directory, its frames.
LEMMA DestroyScript ==
  ASSUME NEW D, NEW R, NEW s \in [1 .. 5 -> Nat], s[1] \in D, \A i \in 1 .. 5 : s[i] \in R
  PROVE  Script(destroy_user_space(s), D, R)
<1>1. /\ s[1] \in Nat /\ s[2] \in Nat /\ s[3] \in Nat /\ s[4] \in Nat /\ s[5] \in Nat
      /\ s[1] \in R /\ s[2] \in R /\ s[3] \in R /\ s[4] \in R /\ s[5] \in R
  OBVIOUS
<1>2. TEXT \in LowPages /\ STACK \in LowPages
  BY PageSets
<1>3. Script(DestroyEntry(s[1], s[2], TEXT, s[3]), D, R)
  BY <1>1, <1>2, DestroyEntryScript
<1>4. Script(DestroyEntry(s[1], s[4], STACK, s[5]), D, R)
  BY <1>1, <1>2, DestroyEntryScript
<1>5. Script(<<Release(s[1])>>, D, R)
  BY <1>1, ReleaseScript
<1>6. Script(DestroyEntry(s[1], s[2], TEXT, s[3]) \o DestroyEntry(s[1], s[4], STACK, s[5]), D, R)
  BY <1>3, <1>4, ScriptJoined
<1> QED BY <1>5, <1>6, ScriptJoined, Zenon DEF destroy_user_space

\* A module of the boot loader becomes a process, in its own directory.
LEMMA CreateScript ==
  ASSUME NEW D, NEW R, NEW s \in [1 .. 5 -> Nat], s[1] \in D
  PROVE  Script(create_pcb_grub_modules(s), D, R)
<1> DEFINE W(i) == Window(s[i])
           x == <<Map(s[2]), Touch(s[2]), SetPage(s[1], TEXT, s[3]), Unmap>>
           y == <<Map(s[4]), Touch(s[4]), SetPage(s[1], STACK, s[5]), Unmap>>
<1>1. s[1] \in Nat /\ s[2] \in Nat /\ s[3] \in Nat /\ s[4] \in Nat /\ s[5] \in Nat
  OBVIOUS
<1>2. TEXT \in LowPages /\ STACK \in LowPages
  BY PageSets
<1>3. Script(x, D, R) /\ Script(y, D, R)
  BY <1>1, <1>2, EntryScript
<1>4. Script(W(1), D, R) /\ Script(W(2), D, R) /\ Script(W(3), D, R) /\ Script(W(4), D, R)
  BY <1>1, WindowScript
<1> HIDE DEF W, x, y
<1>0. Script(W(1) \o W(1), D, R)
  BY <1>4, ScriptJoined
<1>5. Script(W(1) \o W(1) \o W(2), D, R)
  BY <1>0, <1>4, ScriptJoined
<1>6. Script(W(1) \o W(1) \o W(2) \o W(1), D, R)
  BY <1>5, <1>4, ScriptJoined
<1>7. Script(W(1) \o W(1) \o W(2) \o W(1) \o x, D, R)
  BY <1>6, <1>3, ScriptJoined
<1>8. Script(W(1) \o W(1) \o W(2) \o W(1) \o x \o W(2), D, R)
  BY <1>7, <1>4, ScriptJoined
<1>9. Script(W(1) \o W(1) \o W(2) \o W(1) \o x \o W(2) \o W(3), D, R)
  BY <1>8, <1>4, ScriptJoined
<1>10. Script(W(1) \o W(1) \o W(2) \o W(1) \o x \o W(2) \o W(3) \o W(4), D, R)
  BY <1>9, <1>4, ScriptJoined
<1>11. Script(W(1) \o W(1) \o W(2) \o W(1) \o x \o W(2) \o W(3) \o W(4) \o y, D, R)
  BY <1>10, <1>3, ScriptJoined
<1>12. Script(W(1) \o W(1) \o W(2) \o W(1) \o x \o W(2) \o W(3) \o W(4) \o y \o W(1), D, R)
  BY <1>11, <1>4, ScriptJoined
<1> QED BY <1>12, Zenon DEF create_pcb_grub_modules, x, y, W

-----------------------------------------------------------------------------
(* Routines start *)

\* A routine that stays on its directory.
LEMMA WorkPending ==
  ASSUME NEW D, Script(todo', D, {}), D \subseteq Dirs, cr3' \notin D
  PROVE  Pending'
<1>1. ASSUME NEW i \in DOMAIN todo'
      PROVE  /\ Opened(todo', i) /\ todo'[i].op # "cr3" /\ todo'[i].op # "invlpg"
             /\ todo'[i].op # "free"
             /\ todo'[i].op = "page" => todo'[i].d \in D /\ todo'[i].v \in LowPages
  BY DEF Script
<1>2. \A i \in DOMAIN todo' : \A k \in 1 .. i - 1 : k \in DOMAIN todo'
  BY DEF Script
<1>3. ASSUME NEW i \in DOMAIN todo' PROVE EntryIdle(todo', i, cr3')
  BY <1>1, <1>2, Zenon DEF EntryIdle
<1> QED BY <1>1, <1>3, Zenon DEF Pending, PendingAt, FreedLast

\* A routine of m operations whose operation n + 1 is update_cr3 to directory x:
\* before it, only directories of D are changed, after it only those of E, and
\* frames of R freed.
SwitchScript(t, n, m, x, D, E, R) ==
  /\ t \in Seq(Op) /\ DOMAIN t = 1 .. m
  /\ \A i \in 1 .. m : Opened(t, i)
  /\ t[n + 1].op = "cr3" /\ t[n + 1].d = x
  /\ \A i \in 1 .. n : /\ t[i].op \in {"map", "touch", "page"}
                       /\ t[i].op = "page" => t[i].d \in D /\ t[i].v \in LowPages
  /\ \A i \in n + 2 .. m :
       /\ t[i].op \in {"map", "touch", "page", "free"}
       /\ t[i].op = "page" => t[i].d \in E /\ t[i].v \in LowPages
       /\ t[i].op = "free" => t[i].f \in R

\* Such a routine may be started.
LEMMA SwitchPending ==
  ASSUME NEW D \in SUBSET Dirs, NEW E \in SUBSET Dirs, NEW R \in SUBSET Frames, NEW n \in Nat,
         NEW m \in Nat, n < m, NEW x, x \in Pdts', cr3' \notin D, x \notin E,
         \A s \in spaces' : \A k \in 1 .. 5 : s[k] \notin R,
         SwitchScript(todo', n, m, x, D, E, R)
  PROVE  Pending'
<1> /\ todo' \in Seq(Op) /\ DOMAIN todo' = 1 .. m
    /\ \A i \in 1 .. m : Opened(todo', i)
    /\ todo'[n + 1].op = "cr3" /\ todo'[n + 1].d = x
    /\ \A i \in 1 .. n : /\ todo'[i].op \in {"map", "touch", "page"}
                         /\ todo'[i].op = "page" => todo'[i].d \in D /\ todo'[i].v \in LowPages
    /\ \A i \in n + 2 .. m :
         /\ todo'[i].op \in {"map", "touch", "page", "free"}
         /\ todo'[i].op = "page" => todo'[i].d \in E /\ todo'[i].v \in LowPages
         /\ todo'[i].op = "free" => todo'[i].f \in R
  BY Zenon DEF SwitchScript
<1> SUFFICES ASSUME NEW i \in 1 .. m PROVE PendingAt(i)'
  BY Zenon DEF Pending
<1>1. \A k \in 1 .. m : k = n + 1 \/ todo'[k].op # "cr3"
  <2> TAKE k \in 1 .. m
  <2>1. k \in 1 .. n \/ k = n + 1 \/ k \in n + 2 .. m
    OBVIOUS
  <2> QED BY <2>1, Zenon
<1>2. CASE i \in 1 .. n
  <2>1. /\ todo'[i].op \in {"map", "touch", "page"}
        /\ todo'[i].op = "page" => todo'[i].d \in D /\ todo'[i].v \in LowPages
    BY <1>2
  <2>2. \A k \in 1 .. i - 1 : k \in 1 .. m /\ k # n + 1
    BY <1>2
  <2>3. EntryIdle(todo', i, cr3')
    BY <1>1, <2>1, <2>2, Zenon DEF EntryIdle
  <2>4. todo'[i].op # "cr3" /\ todo'[i].op # "invlpg" /\ todo'[i].op # "free"
    BY <2>1
  <2> QED BY <2>3, <2>4, Zenon DEF PendingAt, FreedLast
<1>3. CASE i = n + 1
  <2>1. \A k \in 1 .. i - 1 : k \in 1 .. m /\ k # n + 1
    BY <1>3
  <2>2. ~ Switches(todo', i)
    BY <1>1, <2>1, Zenon DEF Switches
  <2>3. todo'[i].op # "page" /\ todo'[i].op # "invlpg" /\ todo'[i].op # "free"
    BY <1>3
  <2> QED BY <1>3, <2>2, <2>3, Zenon DEF PendingAt, FreedLast, EntryIdle
<1>4. CASE i \in n + 2 .. m
  <2>1. /\ todo'[i].op \in {"map", "touch", "page", "free"}
        /\ todo'[i].op = "page" => todo'[i].d \in E /\ todo'[i].v \in LowPages
        /\ todo'[i].op = "free" => todo'[i].f \in R
    BY <1>4
  <2>2. n + 1 \in 1 .. i - 1 /\ \A k \in 1 .. i - 1 : k \in 1 .. m
    BY <1>4
  <2>3. Switches(todo', i)
    BY <2>2, Zenon DEF Switches
  <2>4. EntryIdle(todo', i, cr3')
    BY <1>1, <2>1, <2>2, <2>3, Zenon DEF EntryIdle
  <2>5. \A k \in 1 .. m : k > i => k # n + 1
    BY <1>4
  <2>6. FreedLast(todo', i, spaces')
    BY <1>1, <2>1, <2>5, Zenon DEF FreedLast
  <2>7. todo'[i].op # "cr3" /\ todo'[i].op # "invlpg"
    BY <2>1
  <2> QED BY <2>4, <2>6, <2>7, Zenon DEF PendingAt
<1>5. i \in 1 .. n \/ i = n + 1 \/ i \in n + 2 .. m
  OBVIOUS
<1> QED BY <1>2, <1>3, <1>4, <1>5

\* Nothing is to be flushed when no routine runs.
LEMMA SameTlb ==
  ASSUME PagingInv, Idle, UNCHANGED <<kernel_page_table, maps, cr3, inUse, tlb>>
  PROVE  TlbCoherent'
<1>1. Flushing = {}
  BY DEF Idle, Flushing
<1> SUFFICES ASSUME NEW v \in Pages PROVE tlb'[v] \in {None, Walk(v)'}
  BY Zenon DEF TlbCoherent
<1>2. Walk(v)' = Walk(v)
  BY DEF Walk
<1>3. tlb[v] \in {None, Walk(v)}
  BY <1>1 DEF PagingInv, TlbCoherent
<1> QED BY <1>2, <1>3

\* When no routine runs, cr3 is the first directory or that of a process.
LEMMA IdleRooted ==
  ASSUME PagingInv, Idle
  PROVE  /\ cr3 \in Pdts \cup {BOOT}
         /\ cr3 = BOOT \/ (inUse \in spaces /\ inUse[1] = cr3)
         /\ \A s \in spaces : s[1] = cr3 => inUse = s
<1>1. cr3 = BOOT \/ (inUse \in spaces /\ inUse[1] = cr3)
  BY DEF PagingInv, Rooted, Idle
<1>2. ASSUME NEW s \in spaces, s[1] = cr3 PROVE inUse = s
  <2>1. s[1] \in Frames /\ BOOT \notin Frames
    BY PageSets DEF PagingInv, PagingTypes
  <2>2. 1 \in 1 .. 5
    OBVIOUS
  <2> QED BY <1>1, <1>2, <2>1, <2>2, Zenon DEF PagingInv, SpacesApart
<1> QED BY <1>1, <1>2, Zenon DEF Pdts

\* Five new frames become an address space, S stay.
LEMMA NewSpace ==
  ASSUME PagingInv, Takes(5), NEW S \in SUBSET spaces, spaces' = S \cup {Alloc(5)}
  PROVE  /\ Alloc(5) \in [1 .. 5 -> Frames] /\ spaces' \subseteq [1 .. 5 -> Frames]
         /\ free' \subseteq Frames /\ SpacesApart' /\ Alloc(5)[1] \in Pdts'
         /\ \A i \in 1 .. 5 : Alloc(5)[i] \in free
<1> DEFINE c == Alloc(5)
<1>1. free \subseteq Frames /\ spaces \subseteq [1 .. 5 -> Frames] /\ SpacesApart
  BY DEF PagingInv, PagingTypes
<1>2. Cardinality(free) >= 5 /\ free' = free \ Range(c)
  BY DEF Takes
<1>3. c \in [1 .. 5 -> free] /\ \A i, j \in 1 .. 5 : c[i] = c[j] => i = j
  <2>1. 5 \in Nat
    OBVIOUS
  <2> QED BY <1>1, <1>2, <2>1, AllocGives, Zenon
<1> HIDE DEF c
<1>4. c \in [1 .. 5 -> Frames]
  BY <1>1, <1>3
<1>5. free' \subseteq free /\ \A i \in 1 .. 5 : c[i] \notin free' /\ c[i] \in free
  BY <1>2, <1>3 DEF Range
<1>6. SpacesApart'
  <2>1. ASSUME NEW s \in spaces', NEW r \in spaces', NEW i \in 1 .. 5, NEW j \in 1 .. 5, s[i] = r[j]
        PROVE  s = r /\ i = j
    <3>1. s \in spaces \/ s = c
      BY DEF c
    <3>2. r \in spaces \/ r = c
      BY DEF c
    <3>3. \A q \in spaces : \A k \in 1 .. 5 : q[k] \notin free
      BY <1>1 DEF SpacesApart
    <3>4. CASE s \in spaces /\ r \in spaces
      BY <1>1, <2>1, <3>4 DEF SpacesApart
    <3>5. CASE s = c /\ r = c
      BY <1>3, <2>1, <3>5
    <3>6. CASE s \in spaces /\ r = c
      BY <1>5, <2>1, <3>3, <3>6
    <3>7. CASE s = c /\ r \in spaces
      BY <1>5, <2>1, <3>3, <3>7
    <3> QED BY <3>1, <3>2, <3>4, <3>5, <3>6, <3>7
  <2>2. ASSUME NEW s \in spaces', NEW i \in 1 .. 5 PROVE s[i] \notin free'
    <3>1. s \in spaces \/ s = c
      BY DEF c
    <3> QED BY <1>1, <1>5, <3>1 DEF SpacesApart
  <2> QED BY <2>1, <2>2 DEF SpacesApart
<1>7. c[1] \in Pdts'
  BY DEF Pdts, c
<1>8. spaces' \subseteq [1 .. 5 -> Frames]
  BY <1>1, <1>4 DEF c
<1> QED BY <1>1, <1>4, <1>5, <1>6, <1>7, <1>8 DEF c

\* The frames of the allocator are numbers, and none is the first directory.
LEMMA SpaceIsNat ==
  ASSUME NEW s \in [1 .. 5 -> Frames]
  PROVE  s \in [1 .. 5 -> Nat] /\ s[1] \in Frames /\ s[1] # BOOT /\ s[1] \in Dirs
<1>1. (\A f \in Frames : f \in Nat) /\ BOOT \notin Frames
  BY PageSets, Zenon
<1>2. s[1] \in Frames
  OBVIOUS
<1>3. s \in [1 .. 5 -> Nat]
  BY <1>1
<1> QED BY <1>1, <1>2, <1>3, Zenon DEF Dirs

\* A module gets its address space at boot.
LEMMA BootModuleInv == ASSUME PagingInv, BootModule PROVE PagingInv'
<1> DEFINE c == Alloc(5)
<1>1. /\ Idle /\ cr3 = BOOT /\ Takes(5) /\ spaces' = spaces \cup {c}
      /\ todo' = create_pcb_grub_modules(c)
      /\ UNCHANGED <<kernel_page_table, maps, otherTable, cr3, inUse, tlb>>
  BY DEF BootModule, tableVars
<1>2. /\ c \in [1 .. 5 -> Frames] /\ spaces' \subseteq [1 .. 5 -> Frames]
      /\ free' \subseteq Frames /\ SpacesApart'
  BY <1>1, NewSpace
<1> HIDE DEF c
<1>3. c \in [1 .. 5 -> Nat] /\ c[1] # BOOT /\ c[1] \in Dirs
  BY <1>2, SpaceIsNat
<1>4. Script(todo', {c[1]}, {})
  BY <1>1, <1>3, CreateScript
<1>5. Pending'
  BY <1>1, <1>3, <1>4, WorkPending
<1>6. PagingTypes'
  BY <1>1, <1>2, <1>4 DEF PagingInv, PagingTypes, Script
<1>7. Rooted'
  BY <1>1 DEF Rooted
<1>8. TlbCoherent'
  BY <1>1, SameTlb
<1> QED BY <1>2, <1>5, <1>6, <1>7, <1>8 DEF PagingInv

\* fork copies into frames that were free, so not into the directory in use.
LEMMA ForkInv == ASSUME PagingInv, NEW s \in spaces, Fork(s) PROVE PagingInv'
<1> DEFINE c == Alloc(5)
<1>1. /\ Idle /\ cr3 = s[1] /\ Takes(5) /\ spaces' = spaces \cup {c}
      /\ todo' = clone_user_space(s, c)
      /\ UNCHANGED <<kernel_page_table, maps, otherTable, cr3, inUse, tlb>>
  BY DEF Fork, tableVars
<1>2. /\ c \in [1 .. 5 -> Frames] /\ spaces' \subseteq [1 .. 5 -> Frames]
      /\ free' \subseteq Frames /\ SpacesApart' /\ \A i \in 1 .. 5 : c[i] \in free
  BY <1>1, NewSpace
<1> HIDE DEF c
<1>3. c \in [1 .. 5 -> Nat] /\ c[1] \in Dirs /\ s \in [1 .. 5 -> Nat]
  BY <1>2, SpaceIsNat DEF PagingInv, PagingTypes
<1>4. Script(todo', {c[1]}, {})
  BY <1>1, <1>3, CloneScript
<1>5. cr3 # c[1]
  <2>1. s[1] \notin free
    BY DEF PagingInv, SpacesApart
  <2> QED BY <1>1, <1>2, <2>1
<1>6. Pending'
  BY <1>1, <1>3, <1>4, <1>5, WorkPending
<1>7. PagingTypes'
  BY <1>1, <1>2, <1>4 DEF PagingInv, PagingTypes, Script
<1>8. Rooted'
  <2>1. inUse = s
    BY <1>1, IdleRooted, Zenon
  <2> QED BY <1>1, <2>1, Zenon DEF Rooted
<1>9. TlbCoherent'
  BY <1>1, SameTlb
<1> QED BY <1>2, <1>6, <1>7, <1>8, <1>9 DEF PagingInv

\* A process takes over with update_cr3.
LEMMA RunInv == ASSUME PagingInv, NEW s \in spaces, Run(s) PROVE PagingInv'
<1>1. /\ Idle /\ todo' = <<LoadCr3(s[1])>>
      /\ UNCHANGED <<kernel_page_table, maps, otherTable, spaces, free, cr3, inUse, tlb>>
  BY DEF Run, tableVars
<1>2. s[1] \in Nat /\ s[1] \in Pdts /\ Pdts' = Pdts
  BY <1>1, SpaceIsNat DEF PagingInv, PagingTypes, Pdts
<1>3. todo' \in Seq(Op) /\ DOMAIN todo' = {1} /\ todo'[1].op = "cr3" /\ todo'[1].d = s[1]
  <2>1. LoadCr3(s[1]) \in Op /\ LoadCr3(s[1]).op = "cr3" /\ LoadCr3(s[1]).d = s[1]
    BY <1>2, Fields
  <2> QED BY <1>1, <2>1
<1>4. Pending'
  <2>1. ~ Switches(todo', 1)
    BY DEF Switches
  <2>2. PendingAt(1)'
    BY <1>2, <1>3, <2>1 DEF PendingAt, Opened, EntryIdle, FreedLast
  <2> QED BY <1>3, <2>2, Zenon DEF Pending
<1>5. PagingTypes' /\ SpacesApart'
  BY <1>1, <1>3 DEF PagingInv, PagingTypes, SpacesApart
<1>6. Rooted'
  BY <1>1, IdleRooted, Zenon DEF Rooted
<1>7. TlbCoherent'
  BY <1>1, SameTlb
<1> QED BY <1>4, <1>5, <1>6, <1>7 DEF PagingInv

\* exit leaves the directory before it takes it apart.
LEMMA ExitInv ==
  ASSUME PagingInv, NEW s \in spaces, NEW r \in spaces, s # r, Exit(s, r) PROVE PagingInv'
<1> DEFINE a == <<LoadCr3(r[1])>>
           b == destroy_user_space(s)
           R == {s[i] : i \in 1 .. 5}
<1>1. /\ Idle /\ cr3 = s[1] /\ spaces' = spaces \ {s} /\ todo' = a \o b
      /\ UNCHANGED <<kernel_page_table, maps, otherTable, free, cr3, inUse, tlb>>
  BY DEF Exit, tableVars
<1>2. /\ s \in [1 .. 5 -> Nat] /\ r \in [1 .. 5 -> Nat] /\ s[1] \in Dirs /\ r[1] \in Nat
      /\ s \in [1 .. 5 -> Frames]
  BY SpaceIsNat DEF PagingInv, PagingTypes
<1>3. Script(b, {s[1]}, R)
  BY <1>2, DestroyScript
<1>4. a \in Seq(Op) /\ Len(a) = 1 /\ a[1].op = "cr3" /\ a[1].d = r[1]
  <2>1. LoadCr3(r[1]) \in Op /\ LoadCr3(r[1]).op = "cr3" /\ LoadCr3(r[1]).d = r[1]
    BY <1>2, Fields
  <2> QED BY <2>1
<1>5. b \in Seq(Op)
  BY <1>3 DEF Script
<1>6. R \subseteq Frames /\ (\A q \in spaces' : \A k \in 1 .. 5 : q[k] \notin R)
      /\ r[1] \notin {s[1]} /\ r[1] \in Pdts'
  <2>1. \A q \in spaces : \A k, i \in 1 .. 5 : q[k] = s[i] => q = s
    BY Zenon DEF PagingInv, SpacesApart
  <2>2. R \subseteq Frames
    BY <1>2
  <2>3. r[1] \in Pdts'
    BY <1>1, Zenon DEF Pdts
  <2> QED BY <1>1, <2>1, <2>2, <2>3
<1> HIDE DEF a, b, R
<1> DEFINE m == 1 + Len(b)
<1>7. /\ todo' \in Seq(Op) /\ DOMAIN todo' = 1 .. m /\ m \in Nat /\ 0 < m /\ todo'[1] = a[1]
      /\ \A i \in 1 .. Len(b) : todo'[1 + i] = b[i]
      /\ DOMAIN b = 1 .. Len(b) /\ Len(b) \in Nat
  <2>1. /\ a \o b \in Seq(Op) /\ Len(b) \in Nat /\ DOMAIN b = 1 .. Len(b)
        /\ DOMAIN (a \o b) = 1 .. 1 + Len(b) /\ (\A i \in 1 .. 1 : (a \o b)[i] = a[i])
        /\ \A i \in 1 .. Len(b) : (a \o b)[1 + i] = b[i]
    BY <1>4, <1>5, Joined
  <2>2. (a \o b)[1] = a[1]
    BY <2>1
  <2> QED BY <1>1, <2>1, <2>2
<1>8. \A i \in 1 .. m : Opened(todo', i)
  <2>1. \A i \in DOMAIN a : Opened(a, i)
    BY <1>4 DEF Opened
  <2>2. \A i \in DOMAIN b : Opened(b, i)
    BY <1>3 DEF Script
  <2> QED BY <1>1, <1>4, <1>5, <1>7, <2>1, <2>2, OpenedJoined, Zenon
<1>9. ASSUME NEW i \in 2 .. m
      PROVE  /\ todo'[i].op \in {"map", "touch", "page", "free"}
             /\ todo'[i].op = "page" => todo'[i].d \in {s[1]} /\ todo'[i].v \in LowPages
             /\ todo'[i].op = "free" => todo'[i].f \in R
  <2>1. i - 1 \in 1 .. Len(b) /\ todo'[1 + (i - 1)] = b[i - 1] /\ 1 + (i - 1) = i
    BY <1>7
  <2>2. todo'[i] = b[i - 1]
    BY <2>1
  <2> QED BY <1>3, <1>7, <2>1, <2>2, Zenon DEF Script
<1> HIDE DEF m
<1>10. Pending'
  <2>1. todo'[0 + 1].op = "cr3" /\ todo'[0 + 1].d = r[1] /\ 0 \in Nat /\ 0 < m /\ m \in Nat
    BY <1>4, <1>7
  <2>2. \A i \in 1 .. 0 : /\ todo'[i].op \in {"map", "touch", "page"}
                          /\ todo'[i].op = "page" => todo'[i].d \in {} /\ todo'[i].v \in LowPages
    OBVIOUS
  <2>3. \A i \in 0 + 2 .. m :
           /\ todo'[i].op \in {"map", "touch", "page", "free"}
           /\ todo'[i].op = "page" => todo'[i].d \in {s[1]} /\ todo'[i].v \in LowPages
           /\ todo'[i].op = "free" => todo'[i].f \in R
    <3>1. 0 + 2 .. m = 2 .. m
      OBVIOUS
    <3> QED BY <1>9, <3>1, Zenon
  <2>4. /\ {} \in SUBSET Dirs /\ {s[1]} \in SUBSET Dirs /\ R \in SUBSET Frames /\ cr3' \notin {}
        /\ r[1] \notin {s[1]}
    BY <1>2, <1>6
  <2>5. SwitchScript(todo', 0, m, r[1], {}, {s[1]}, R)
    BY <1>7, <1>8, <2>1, <2>2, <2>3, Zenon DEF SwitchScript
  <2> QED BY <1>6, <2>1, <2>4, <2>5, SwitchPending, Zenon
<1>11. PagingTypes' /\ SpacesApart'
  BY <1>1, <1>7 DEF PagingInv, PagingTypes, SpacesApart
<1>12. Rooted'
  <2>1. inUse = s /\ \A i \in 1 .. 5 : s[i] \notin free
    BY <1>1, IdleRooted, Zenon DEF PagingInv, SpacesApart
  <2>2. 1 \in DOMAIN todo' /\ todo'[1].op = "cr3"
    BY <1>4, <1>7
  <2> QED BY <1>1, <2>1, <2>2, Zenon DEF Rooted
<1>13. TlbCoherent'
  BY <1>1, SameTlb
<1> QED BY <1>10, <1>11, <1>12, <1>13 DEF PagingInv

\* exec builds the new image, switches to it, then takes the old one apart.
LEMMA ExecInv == ASSUME PagingInv, NEW s \in spaces, Exec(s) PROVE PagingInv'
<1> DEFINE c == Alloc(5)
           a == build_new_image(c, Identity(0))
           x == <<LoadCr3(c[1])>>
           b == destroy_user_space(s)
           R == {s[i] : i \in 1 .. 5}
<1>1. /\ Idle /\ cr3 = s[1] /\ Takes(5) /\ spaces' = (spaces \ {s}) \cup {c}
      /\ todo' = a \o x \o b
      /\ UNCHANGED <<kernel_page_table, maps, otherTable, cr3, inUse, tlb>>
  BY DEF Exec, tableVars
<1>2. /\ c \in [1 .. 5 -> Frames] /\ spaces' \subseteq [1 .. 5 -> Frames]
      /\ free' \subseteq Frames /\ SpacesApart' /\ \A i \in 1 .. 5 : c[i] \in free
  <2>1. spaces \ {s} \in SUBSET spaces
    BY Zenon
  <2> QED BY <1>1, <2>1, NewSpace, Zenon
<1>3. /\ s \in [1 .. 5 -> Nat] /\ s[1] \in Dirs /\ s \in [1 .. 5 -> Frames]
      /\ \A i \in 1 .. 5 : s[i] \notin free
  BY SpaceIsNat DEF PagingInv, PagingTypes, SpacesApart
<1> HIDE DEF c
<1>4. c \in [1 .. 5 -> Nat] /\ c[1] \in Dirs /\ c[1] \in Nat /\ Identity(0) \in Nat
  <2>1. Identity(0) \in Nat
    BY PagingAssumption DEF Identity
  <2> QED BY <1>2, <2>1, SpaceIsNat
<1>5. Script(a, {c[1]}, {}) /\ Script(b, {s[1]}, R)
  BY <1>3, <1>4, BuildScript, DestroyScript
<1>6. x \in Seq(Op) /\ Len(x) = 1 /\ x[1].op = "cr3" /\ x[1].d = c[1]
  <2>1. LoadCr3(c[1]) \in Op /\ LoadCr3(c[1]).op = "cr3" /\ LoadCr3(c[1]).d = c[1]
    BY <1>4, Fields
  <2> QED BY <2>1
<1>7. a \in Seq(Op) /\ b \in Seq(Op)
  BY <1>5, Zenon DEF Script
<1>8. R \subseteq Frames /\ (\A q \in spaces' : \A k \in 1 .. 5 : q[k] \notin R)
      /\ c[1] \notin {s[1]} /\ c[1] \in Pdts'
  <2>1. \A q \in spaces : \A k, i \in 1 .. 5 : q[k] = s[i] => q = s
    BY Zenon DEF PagingInv, SpacesApart
  <2>2. R \subseteq Frames
    BY <1>3
  <2>3. c[1] \in Pdts'
    BY <1>1, Zenon DEF Pdts
  <2>4. \A k, i \in 1 .. 5 : c[k] # s[i]
    BY <1>2, <1>3
  <2> QED BY <1>1, <2>1, <2>2, <2>3, <2>4
<1> HIDE DEF a, x, b, R
<1> DEFINE n == Len(a)
           p == a \o x
           m == n + 1 + Len(b)
<1>9. /\ n \in Nat /\ DOMAIN a = 1 .. n /\ p \in Seq(Op) /\ Len(p) = n + 1 /\ DOMAIN p = 1 .. n + 1
      /\ (\A i \in 1 .. n : p[i] = a[i]) /\ p[n + 1] = x[1]
  <2>1. /\ a \o x \in Seq(Op) /\ Len(a) \in Nat /\ DOMAIN a = 1 .. Len(a)
        /\ DOMAIN (a \o x) = 1 .. Len(a) + Len(x)
        /\ (\A i \in 1 .. Len(a) : (a \o x)[i] = a[i])
        /\ \A i \in 1 .. Len(x) : (a \o x)[Len(a) + i] = x[i]
    BY <1>6, <1>7, Joined, Zenon
  <2>2. 1 \in 1 .. Len(x) /\ Len(p) = n + 1
    BY <1>6, <2>1
  <2> QED BY <1>6, <2>1, <2>2, Zenon
<1>10. todo' = p \o b
  BY <1>1, Zenon
<1> HIDE DEF n, p
<1>11. /\ todo' \in Seq(Op) /\ DOMAIN todo' = 1 .. m /\ m \in Nat /\ n < m
       /\ (\A i \in 1 .. n + 1 : todo'[i] = p[i])
       /\ (\A i \in 1 .. Len(b) : todo'[n + 1 + i] = b[i])
       /\ DOMAIN b = 1 .. Len(b) /\ Len(b) \in Nat
  <2>1. /\ todo' \in Seq(Op) /\ Len(b) \in Nat /\ DOMAIN b = 1 .. Len(b)
        /\ DOMAIN todo' = 1 .. n + 1 + Len(b) /\ (\A i \in 1 .. n + 1 : todo'[i] = p[i])
        /\ \A i \in 1 .. Len(b) : todo'[n + 1 + i] = b[i]
    <3>1. /\ todo' \in Seq(Op) /\ Len(b) \in Nat /\ DOMAIN b = 1 .. Len(b)
          /\ DOMAIN todo' = 1 .. Len(p) + Len(b) /\ (\A i \in 1 .. Len(p) : todo'[i] = p[i])
          /\ \A i \in 1 .. Len(b) : todo'[Len(p) + i] = b[i]
      BY <1>7, <1>9, <1>10, Joined, ZenonT(30)
    <3>2. Len(p) = n + 1
      BY <1>9, Zenon
    <3> QED BY <3>1, <3>2
  <2>2. m \in Nat /\ n < m
    BY <1>9, <2>1
  <2> QED BY <2>1, <2>2, Zenon
<1>12. \A i \in 1 .. m : Opened(todo', i)
  <2>1. (\A i \in DOMAIN x : Opened(x, i)) /\ (\A i \in DOMAIN a : Opened(a, i))
        /\ \A i \in DOMAIN b : Opened(b, i)
    BY <1>5, <1>6 DEF Script, Opened
  <2>2. \A i \in DOMAIN p : Opened(p, i)
    BY <1>6, <1>7, <2>1, OpenedJoined, Zenon DEF p
  <2> QED BY <1>7, <1>9, <1>10, <1>11, <2>1, <2>2, OpenedJoined, Zenon
<1>13. ASSUME NEW i \in n + 2 .. m
       PROVE  /\ todo'[i].op \in {"map", "touch", "page", "free"}
              /\ todo'[i].op = "page" => todo'[i].d \in {s[1]} /\ todo'[i].v \in LowPages
              /\ todo'[i].op = "free" => todo'[i].f \in R
  <2> DEFINE j == i - (n + 1)
  <2>1. j \in 1 .. Len(b) /\ i = n + 1 + j
    BY <1>9, <1>11
  <2> HIDE DEF j
  <2>2. todo'[i] = b[j]
    BY <1>11, <2>1, Zenon
  <2> QED BY <1>5, <1>11, <2>1, <2>2, Zenon DEF Script
<1>14. ASSUME NEW i \in 1 .. n
       PROVE  /\ todo'[i].op \in {"map", "touch", "page"}
              /\ todo'[i].op = "page" => todo'[i].d \in {c[1]} /\ todo'[i].v \in LowPages
  <2>1. i \in 1 .. n + 1
    BY <1>9
  <2>2. todo'[i] = a[i]
    BY <1>9, <1>11, <2>1, Zenon
  <2>3. /\ a[i].op \in {"map", "touch", "page", "free"}
        /\ a[i].op = "page" => a[i].d \in {c[1]} /\ a[i].v \in LowPages
        /\ a[i].op = "free" => a[i].f \in {}
    BY <1>5, <1>9, Zenon DEF Script
  <2> QED BY <2>2, <2>3, Zenon
<1>15. n + 1 \in DOMAIN todo' /\ todo'[n + 1].op = "cr3" /\ todo'[n + 1].d = c[1]
  <2>1. n + 1 \in 1 .. n + 1 /\ n + 1 \in 1 .. m
    BY <1>9, <1>11
  <2> QED BY <1>6, <1>9, <1>11, <2>1, Zenon
<1> HIDE DEF m
<1>16. Pending'
  <2>1. /\ {c[1]} \in SUBSET Dirs /\ {s[1]} \in SUBSET Dirs /\ R \in SUBSET Frames
        /\ cr3' \notin {c[1]}
    BY <1>1, <1>3, <1>4, <1>8
  <2>2. SwitchScript(todo', n, m, c[1], {c[1]}, {s[1]}, R)
    BY <1>11, <1>12, <1>13, <1>14, <1>15, Zenon DEF SwitchScript
  <2> QED BY <1>8, <1>9, <1>11, <2>1, <2>2, SwitchPending, Zenon
<1>17. PagingTypes'
  BY <1>1, <1>2, <1>11 DEF PagingInv, PagingTypes
<1>18. Rooted'
  <2>1. free' \subseteq free
    BY <1>1 DEF Takes
  <2>2. inUse = s /\ \A i \in 1 .. 5 : s[i] \notin free'
    BY <1>1, <1>3, <2>1, IdleRooted, Zenon
  <2> QED BY <1>1, <1>15, <2>2, Zenon DEF Rooted
<1>19. TlbCoherent'
  BY <1>1, SameTlb
<1> QED BY <1>2, <1>16, <1>17, <1>18, <1>19 DEF PagingInv

\* The entry of a kernel page changes, and invlpg follows in the same step.
LEMMA KernelPageInv ==
  ASSUME PagingInv, Idle, NEW i \in HeapIndex, NEW f \in Nat,
         kernel_page_table' = [kernel_page_table EXCEPT ![i] = f], Invlpg(i),
         free' \subseteq free, UNCHANGED <<maps, otherTable, spaces, cr3, inUse, todo>>
  PROVE  PagingInv'
<1>1. i \in KIndex /\ i \in Pages /\ KIndex \subseteq Pages /\ None \in Nat
  BY PageSets
<1>2. kernel_page_table' \in [KIndex -> Nat] /\ tlb' \in [Pages -> Nat]
  BY <1>1 DEF PagingInv, PagingTypes, Invlpg
<1>3. PagingTypes'
  BY <1>2 DEF PagingInv, PagingTypes
<1>4. SpacesApart'
  BY DEF PagingInv, SpacesApart
<1>5. Pending'
  BY DEF Idle, Pending
<1>6. Rooted'
  BY IdleRooted, Zenon DEF Rooted
<1>7. TlbCoherent'
  <2>1. Flushing = {}
    BY DEF Idle, Flushing
  <2> SUFFICES ASSUME NEW v \in Pages PROVE tlb'[v] \in {None, Walk(v)'}
    BY Zenon DEF TlbCoherent
  <2>2. CASE v = i
    BY <1>1, <2>2 DEF Invlpg, PagingInv, PagingTypes
  <2>3. CASE v # i
    <3>1. tlb'[v] = tlb[v]
      BY <1>1, <2>3 DEF Invlpg, PagingInv, PagingTypes
    <3>2. v \in KIndex => kernel_page_table'[v] = kernel_page_table[v]
      BY <1>1, <2>3 DEF PagingInv, PagingTypes
    <3>3. Walk(v)' = Walk(v)
      BY <3>2 DEF Walk
    <3>4. tlb[v] \in {None, Walk(v)}
      BY <2>1 DEF PagingInv, TlbCoherent
    <3> QED BY <3>1, <3>3, <3>4
  <2> QED BY <2>2, <2>3
<1> QED BY <1>3, <1>4, <1>5, <1>6, <1>7 DEF PagingInv

\* One new frame.
LEMMA NewFrame ==
  ASSUME PagingInv, Cardinality(free) >= 1
  PROVE  Alloc(1)[1] \in free /\ Alloc(1)[1] \in Frames /\ Alloc(1)[1] \in Nat
<1>1. 1 \in Nat /\ 1 \in 1 .. 1
  OBVIOUS
<1>2. free \subseteq Frames
  BY DEF PagingInv, PagingTypes
<1>3. Alloc(1) \in [1 .. 1 -> free]
  BY <1>1, <1>2, AllocGives, Zenon
<1> HIDE DEF Alloc
<1>4. Alloc(1)[1] \in free
  BY <1>1, <1>3, Zenon
<1>5. \A f \in Frames : f \in Nat
  BY PageSets, Zenon
<1> QED BY <1>2, <1>4, <1>5, Zenon

\* paging_map_page on a page of the heap.
LEMMA MapHeapPageInv == ASSUME PagingInv, NEW i \in HeapIndex, MapHeapPage(i) PROVE PagingInv'
<1>1. /\ Idle /\ Cardinality(free) >= 1 /\ free' \subseteq free /\ Invlpg(i)
      /\ kernel_page_table' = [kernel_page_table EXCEPT ![i] = Alloc(1)[1]]
      /\ UNCHANGED <<maps, otherTable, spaces, cr3, inUse, todo>>
  BY Zenon DEF MapHeapPage, Takes
<1>2. Alloc(1)[1] \in Nat
  BY <1>1, NewFrame
<1> QED BY <1>1, <1>2, KernelPageInv, Zenon

\* paging_unmap_page.
LEMMA UnmapPageInv == ASSUME PagingInv, NEW i \in HeapIndex, UnmapPage(i) PROVE PagingInv'
<1>1. /\ Idle /\ free' \subseteq free /\ Invlpg(i)
      /\ kernel_page_table' = [kernel_page_table EXCEPT ![i] = None]
      /\ UNCHANGED <<maps, otherTable, spaces, cr3, inUse, todo>>
  BY Zenon DEF UnmapPage
<1>2. None \in Nat
  BY DEF None
<1> QED BY <1>1, <1>2, KernelPageInv, Zenon

\* What loader.s leaves.
LEMMA InitInv == ASSUME Init PROVE PagingInv
<1>1. Start \in Op /\ Start.op = "init" /\ None \in Nat /\ \A i \in KIndex : Identity(i) \in Nat
  BY Fields, PageSets DEF None
<1>2. todo \in Seq(Op) /\ DOMAIN todo = {1} /\ todo[1].op = "init"
  BY <1>1 DEF Init
<1>3. PagingTypes
  <2>1. Identity(0) \in Nat
    BY PagingAssumption DEF Identity
  <2>2. maps \in [Dirs -> [LowPages -> Nat]]
    BY <1>1, <2>1 DEF Init, Dirs
  <2>3. /\ kernel_page_table \in [KIndex -> Nat] /\ tlb \in [Pages -> Nat]
        /\ otherTable \in Nat /\ spaces = {} /\ free = Frames /\ cr3 \in Dirs
    BY <1>1 DEF Init, Dirs
  <2> QED BY <1>2, <2>2, <2>3 DEF PagingTypes
<1>4. SpacesApart
  BY DEF Init, SpacesApart
<1>5. Pending
  <2>1. PendingAt(1)
    BY <1>2 DEF PendingAt, Opened, EntryIdle, FreedLast
  <2> QED BY <1>2, <2>1, Zenon DEF Pending
<1>6. Rooted
  BY DEF Init, Rooted
<1>7. TlbCoherent
  BY DEF Init, TlbCoherent
<1> QED BY <1>3, <1>4, <1>5, <1>6, <1>7 DEF PagingInv

\* The invariant speaks of the variables only.
LEMMA StutterInv == ASSUME PagingInv, UNCHANGED vars PROVE PagingInv'
<1>1. UNCHANGED <<kernel_page_table, maps, otherTable, spaces, free, cr3, inUse, tlb, todo>>
  BY DEF vars, tableVars
<1>2. PagingTypes'
  BY <1>1 DEF PagingInv, PagingTypes
<1>3. SpacesApart'
  BY <1>1 DEF PagingInv, SpacesApart
<1>4. Pdts' = Pdts
  BY <1>1 DEF Pdts
<1>5. Pending'
  <2> SUFFICES ASSUME NEW i \in DOMAIN todo PROVE PendingAt(i)'
    BY <1>1, Zenon DEF Pending
  <2>1. PendingAt(i)
    BY Zenon DEF PagingInv, Pending
  <2> QED BY <1>1, <1>4, <2>1, Zenon DEF PendingAt
<1>6. Rooted'
  BY <1>1, <1>4, Zenon DEF PagingInv, Rooted
<1>7. TlbCoherent'
  <2>1. Flushing' = Flushing
    BY <1>1 DEF Flushing
  <2>2. ASSUME NEW v \in Pages \ Flushing PROVE tlb'[v] \in {None, Walk(v)'}
    <3>1. Walk(v)' = Walk(v)
      BY <1>1 DEF Walk
    <3>2. tlb[v] \in {None, Walk(v)}
      BY Zenon DEF PagingInv, TlbCoherent
    <3> QED BY <1>1, <3>1, <3>2
  <2> QED BY <2>1, <2>2, Zenon DEF TlbCoherent
<1> QED BY <1>2, <1>3, <1>5, <1>6, <1>7, Zenon DEF PagingInv

\* paging_map_page outside the first 4MB flushes the page at the end.
LEMMA MapOtherPageInv ==
  ASSUME PagingInv, NEW v \in Others, NEW f \in Nat, MapOtherPage(v, f) PROVE PagingInv'
<1> DEFINE t == IF otherTable = None THEN Alloc(1)[1] ELSE otherTable
           q == <<Map(t), Touch(t), SetPage(BOOT, v, f), Unmap, Flush(v)>>
<1>1. /\ Idle /\ UNCHANGED <<kernel_page_table, maps, spaces, cr3, inUse, tlb>>
      /\ \/ UNCHANGED <<otherTable, free, todo>>
         \/ /\ ~ (otherTable = None /\ free = {})
            /\ otherTable' = t /\ free' = free \ {t} /\ todo' = q
  BY Zenon DEF MapOtherPage
<1>2. CASE UNCHANGED <<otherTable, free, todo>>
  BY <1>1, <1>2, StutterInv DEF vars, tableVars
<1>3. CASE /\ ~ (otherTable = None /\ free = {})
           /\ otherTable' = t /\ free' = free \ {t} /\ todo' = q
  <2>1. t \in Nat
    <3>1. CASE otherTable = None
      <4>1. free # {} /\ free \subseteq Frames
        BY <1>3, <3>1 DEF PagingInv, PagingTypes
      <4>2. Cardinality(free) >= 1
        <5>1. IsFiniteSet(Frames)
          BY PagingAssumption, FS_Interval DEF Frames
        <5>2. IsFiniteSet(free)
          BY <4>1, <5>1, FS_Subset
        <5>3. Cardinality(free) \in Nat /\ Cardinality(free) # 0
          BY <4>1, <5>2, FS_CardinalityType, FS_EmptySet
        <5> QED BY <5>3
      <4> QED BY <3>1, <4>2, NewFrame
    <3>2. CASE otherTable # None
      BY <3>2 DEF PagingInv, PagingTypes
    <3> QED BY <3>1, <3>2
  <2> HIDE DEF t
  <2>2. v \in LowPages /\ v \in Int /\ BOOT \in Nat /\ BOOT \in Dirs
    BY PageSets DEF Dirs
  <2>3. /\ Map(t) \in Op /\ Map(t).op = "map" /\ Map(t).f = t
        /\ Touch(t) \in Op /\ Touch(t).op = "touch" /\ Touch(t).f = t
        /\ Unmap \in Op /\ Unmap.op = "map"
        /\ Flush(v) \in Op /\ Flush(v).op = "invlpg" /\ Flush(v).v = v
    BY <2>1, <2>2, Fields, Zenon
  <2>4. /\ SetPage(BOOT, v, f) \in Op /\ SetPage(BOOT, v, f).op = "page"
        /\ SetPage(BOOT, v, f).d = BOOT /\ SetPage(BOOT, v, f).v = v
    BY <2>2, SetPageFields
  <2>5. /\ q \in Seq(Op) /\ DOMAIN q = 1 .. 5 /\ q[1] = Map(t) /\ q[2] = Touch(t)
        /\ q[3] = SetPage(BOOT, v, f) /\ q[4] = Unmap /\ q[5] = Flush(v)
    BY <2>3, <2>4
  <2> HIDE DEF q
  <2>6. PagingTypes'
    BY <1>1, <1>3, <2>1, <2>5 DEF PagingInv, PagingTypes
  <2>7. SpacesApart'
    BY <1>1, <1>3 DEF PagingInv, SpacesApart
  <2>8. Rooted'
    BY <1>1, IdleRooted, Zenon DEF Rooted
  <2>9. TlbCoherent'
    BY <1>1, SameTlb
  <2>10. Pending'
    <3>1. \A i \in 1 .. 5 : i = 1 \/ i = 2 \/ i = 3 \/ i = 4 \/ i = 5
      OBVIOUS
    <3>2. /\ q[1].op = "map" /\ q[1].f = t /\ q[2].op = "touch" /\ q[2].f = t
          /\ q[3].op = "page" /\ q[3].d = BOOT /\ q[3].v = v
          /\ q[4].op = "map" /\ q[5].op = "invlpg" /\ q[5].v = v
      BY <2>3, <2>4, <2>5, Zenon
    <3>3. \A i \in 1 .. 5 : Opened(q, i)
      <4>1. Opened(q, 2)
        <5>1. 2 > 1 /\ 2 - 1 = 1
          OBVIOUS
        <5> QED BY <3>2, <5>1, Zenon DEF Opened
      <4>2. Opened(q, 1) /\ Opened(q, 3) /\ Opened(q, 4) /\ Opened(q, 5)
        BY <3>2, Zenon DEF Opened
      <4> QED BY <3>1, <4>1, <4>2, Zenon
    <3>4. \A i \in 1 .. 5 : EntryIdle(q, i, cr3')
      <4>1. 5 \in DOMAIN q /\ 5 > 3
        BY <2>5
      <4>2. EntryIdle(q, 3, cr3')
        BY <2>2, <3>2, <4>1, Zenon DEF EntryIdle
      <4>3. q[1].op # "page" /\ q[2].op # "page" /\ q[4].op # "page" /\ q[5].op # "page"
        BY <3>2
      <4> QED BY <3>1, <4>2, <4>3, Zenon DEF EntryIdle
    <3>5. \A i \in 1 .. 5 : /\ q[i].op # "cr3" /\ q[i].op # "free"
                            /\ q[i].op = "invlpg" => q[i].v \in Others
      <4>1. q[1].op # "invlpg" /\ q[2].op # "invlpg" /\ q[3].op # "invlpg" /\ q[4].op # "invlpg"
        BY <3>2
      <4>2. \A i \in 1 .. 5 : q[i].op # "cr3" /\ q[i].op # "free"
        BY <3>1, <3>2
      <4> QED BY <3>1, <3>2, <4>1, <4>2, Zenon
    <3>6. todo' = q
      BY <1>3
    <3> QED BY <2>5, <3>3, <3>4, <3>5, <3>6, Zenon DEF Pending, PendingAt, FreedLast
  <2> QED BY <2>6, <2>7, <2>8, <2>9, <2>10 DEF PagingInv
<1> QED BY <1>1, <1>2, <1>3, Zenon

-----------------------------------------------------------------------------
(* The theorems *)

\* The running routine, the tables, the TLB and cr3 always fit together, in every
\* interleaving of TLB fills with the operations of the routines of paging.c.
THEOREM PagingInvariant == Spec => []PagingInv
<1>1. Init => PagingInv
  BY InitInv
<1>2. PagingInv /\ [Next]_vars => PagingInv'
  <2> SUFFICES ASSUME PagingInv, [Next]_vars PROVE PagingInv'
    OBVIOUS
  <2>1. CASE \E v \in Pages : TlbFill(v)
    BY <2>1, TlbFillInv
  <2>2. CASE Step
    BY <2>2, TempMapInv, TempTouchInv, SetEntryInv, UpdateCr3Inv, PfaFreeInv, FlushPageInv,
       PagingInitInv, Zenon DEF Step
  <2>3. CASE BootModule
    BY <2>3, BootModuleInv
  <2>4. CASE \E s \in spaces : Run(s) \/ Fork(s) \/ Exec(s)
    BY <2>4, RunInv, ForkInv, ExecInv, Zenon
  <2>5. CASE \E s, r \in spaces : s # r /\ Exit(s, r)
    BY <2>5, ExitInv, Zenon
  <2>6. CASE \E i \in HeapIndex : MapHeapPage(i) \/ UnmapPage(i)
    BY <2>6, MapHeapPageInv, UnmapPageInv, Zenon
  <2>7. CASE \E v \in Others : MapOtherPage(v, Identity(0))
    <3>1. Identity(0) \in Nat
      BY PagingAssumption DEF Identity
    <3> QED BY <2>7, <3>1, MapOtherPageInv, Zenon
  <2>8. CASE UNCHANGED vars
    BY <2>8, StutterInv
  <2> QED BY <2>1, <2>2, <2>3, <2>4, <2>5, <2>6, <2>7, <2>8, Zenon DEF Next
<1> QED BY <1>1, <1>2, PTL DEF Spec

\* Whenever paging.c reads or writes through the temporary window, the access
\* reaches the frame the window was opened for.
THEOREM WindowAlwaysHits == Spec => []WindowHits
<1>1. PagingInv => WindowHits
  <2> SUFFICES ASSUME PagingInv, todo # <<>>, Head(todo).op = "touch"
               PROVE  Translate(TEMP_PT_INDEX) = Head(todo).f
    BY Zenon DEF WindowHits
  <2>1. 1 \in DOMAIN todo /\ Head(todo) = todo[1] /\ ~ (1 > 1)
    BY Rest DEF PagingInv, PagingTypes
  <2>2. kernel_page_table[TEMP_PT_INDEX] = todo[1].f
    BY <2>1, Zenon DEF PagingInv, Pending, PendingAt, Opened
  <2>3. TEMP_PT_INDEX \in KIndex /\ TEMP_PT_INDEX \in Pages /\ TEMP_PT_INDEX \notin Others
    BY PageSets, Zenon
  <2>4. TEMP_PT_INDEX \notin Flushing
    BY <2>3, Zenon DEF Flushing, PagingInv, Pending, PendingAt
  <2>5. tlb[TEMP_PT_INDEX] \in {None, Walk(TEMP_PT_INDEX)}
    BY <2>3, <2>4, Zenon DEF PagingInv, TlbCoherent
  <2>6. Walk(TEMP_PT_INDEX) = kernel_page_table[TEMP_PT_INDEX]
    BY <2>3, Zenon DEF Walk
  <2> QED BY <2>1, <2>2, <2>5, <2>6, Zenon DEF Translate
<1> QED BY <1>1, PagingInvariant, PTL

\* The TLB never gives a translation that the page tables in use do not give,
\* except for the one page whose invlpg is still to come.
THEOREM TlbAlwaysCoherent == Spec => []TlbCoherent
<1>1. PagingInv => TlbCoherent
  BY DEF PagingInv
<1> QED BY <1>1, PagingInvariant, PTL

\* No frame of the address space in cr3 is freed, by exec, exit or anything else,
\* before update_cr3 has left it, and between routines a process has that space.
THEOREM DirectoryAlwaysInUse == Spec => []DirectoryInUse
<1>1. PagingInv => DirectoryInUse
  <2> SUFFICES ASSUME PagingInv, cr3 # BOOT
               PROVE  /\ \A i \in 1 .. 5 : inUse[i] \notin free
                      /\ Idle => inUse \in spaces
    BY Zenon DEF DirectoryInUse
  <2>1. CASE inUse \in spaces
    BY <2>1, Zenon DEF PagingInv, SpacesApart
  <2>2. CASE /\ \A i \in 1 .. 5 : inUse[i] \notin free
             /\ \E k \in DOMAIN todo : todo[k].op = "cr3"
    BY <2>2 DEF Idle
  <2> QED BY <2>1, <2>2, Zenon DEF PagingInv, Rooted
<1> QED BY <1>1, PagingInvariant, PTL
=============================================================================
