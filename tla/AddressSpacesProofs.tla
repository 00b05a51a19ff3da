------------------------ MODULE AddressSpacesProofs -------------------------
(***************************************************************************)
(* For every number of processes and frames: the frames in use are exactly *)
(* those of the heap and of the address spaces, and no frame has two uses, *)
(* at every step of fork, exec and exit and of their failure paths; no     *)
(* call and no other process changes what a process sees in its memory,    *)
(* and fork copies it.                                                     *)
(***************************************************************************)
EXTENDS SpaceForest

\* Leaves that name no prover go to the SMT solver, with time to spare.
USE SMTT(30)

-----------------------------------------------------------------------------
(* Building an image, at boot and in exec, preserves the invariant *)

LEMMA NewPageForest ==
  ASSUME SpacesInv, new \in Directories, NEW d \in 0 .. 1, NEW i \in Index, NEW v,
         NewPage(d, i, v),
         table[new][d] # Absent => table[table[new][d]][i] = Absent
  PROVE  /\ FirstFree \in Frames
         /\ Forest(table', Directories, heap, used')
         /\ PageAdded(d, i)
<1> USE Special DEF NewPage, PageFits
<1>1. Forest(table, Directories, heap, used) /\ table \in [Frames -> Entries]
  BY DEF SpacesInv, TypeOK
<1>2. FirstFree \in Frames \ used /\ new \in Frames /\ FirstFree \notin Directories
  BY <1>1, FirstIsFree DEF Forest, Formed, OneUse
<1>3. CASE table[new][d] = Absent
  <2> DEFINE t == SecondFree
             tb == WithTable(table, new, d, t)
  <2>1. t \in Frames \ used /\ t # FirstFree /\ t # new
    BY <1>1, <1>3, SecondIsFree DEF Forest, OneUse, Formed
  <2>2. /\ table' = [table EXCEPT ![t] = [NoEntries EXCEPT ![i] = FirstFree],
                                  ![new][d] = t]
        /\ used' = (used \cup {t}) \cup {FirstFree}
    BY <1>3
  <2>3. /\ tb[t] = NoEntries /\ tb[new] = [table[new] EXCEPT ![d] = t]
        /\ \A f \in Frames \ {t, new} : tb[f] = table[f]
        /\ tb \in [Frames -> Entries]
    BY <1>1, <1>2, <2>1, EmptyTypes DEF WithTable, Entries
  <2> HIDE DEF t, tb
  <2>4. Forest(tb, Directories, heap, used \cup {t}) /\ IsTable(tb, Directories, t)
    <3> HIDE DEF NewPage, PageFits
    <3> QED BY <1>1, <1>3, <2>1, AddTable, Zenon DEF tb
  <2>5. Forest(WithPage(tb, t, i, FirstFree), Directories, heap,
               (used \cup {t}) \cup {FirstFree})
    <3> HIDE DEF NewPage, PageFits
    <3>1. tb[t][i] = Absent /\ FirstFree \in Frames \ (used \cup {t})
      BY <1>2, <2>1, <2>3, EmptyTypes
    <3> QED BY <2>1, <2>4, <3>1, AddPage, Zenon
  <2>6. table' = WithPage(tb, t, i, FirstFree)
    <3> HIDE DEF NewPage, PageFits
    <3>1. \A f \in Frames : table'[f] = WithPage(tb, t, i, FirstFree)[f]
      BY <1>1, <1>2, <2>1, <2>2, <2>3, Zenon DEF WithPage
    <3>2. /\ table' = [f \in Frames |-> table'[f]]
          /\ WithPage(tb, t, i, FirstFree) = [f \in Frames |-> WithPage(tb, t, i, FirstFree)[f]]
      BY <1>1, <2>2, <2>3, Zenon DEF WithPage
    <3> QED BY <3>1, <3>2
  <2>7. /\ table'[new] = [table[new] EXCEPT ![d] = t]
        /\ table'[t] = [NoEntries EXCEPT ![i] = FirstFree]
    BY <1>1, <1>2, <2>1, <2>2, Zenon
  <2>8. \A j \in Index : j # i => table'[t][j] = Absent
    <3> HIDE DEF NewPage, PageFits
    <3> QED BY <2>7, EmptyTypes DEF Entries
  <2>9. Forest(table', Directories, heap, used')
    BY <2>2, <2>5, <2>6, Zenon
  <2> HIDE DEF NewPage, PageFits
  <2> QED BY <1>2, <2>1, <2>7, <2>8, <2>9, Zenon DEF PageAdded
<1>4. CASE table[new][d] # Absent
  <2> DEFINE t == table[new][d]
  <2>1. t \in Frames \ Directories /\ IsTable(table, Directories, t)
    BY <1>4, Levels
  <2>2. t \in used
    BY <1>1, <2>1 DEF Forest, OneUse
  <2>3. /\ table' = [table EXCEPT ![t] = [table[t] EXCEPT ![i] = FirstFree], ![new][d] = t]
        /\ used' = used \cup {FirstFree}
    BY <1>4, <2>2
  <2>4. table' = WithPage(table, t, i, FirstFree)
    <3>1. t # new /\ table[new] = [table[new] EXCEPT ![d] = t]
      BY <1>1, <1>2, <2>1 DEF Entries
    <3> HIDE DEF NewPage, PageFits
    <3> QED BY <1>1, <1>2, <2>1, <2>3, <3>1, Zenon DEF WithPage, Entries
  <2>5. table[t][i] = Absent
    BY <1>4
  <2>6. Forest(WithPage(table, t, i, FirstFree), Directories, heap, used \cup {FirstFree})
    <3> HIDE DEF NewPage, PageFits, t
    <3> QED BY <1>1, <1>2, <2>1, <2>5, AddPage, Zenon
  <2>7. /\ table'[new] = [table[new] EXCEPT ![d] = t]
        /\ table'[t] = [table[t] EXCEPT ![i] = FirstFree]
    BY <1>1, <1>2, <2>1, <2>3 DEF Entries
  <2>8. \A j \in Index : j # i => table'[t][j] = table[t][j]
    BY <1>1, <2>1, <2>7, Zenon DEF Entries
  <2>9. \A j \in Index : j # i /\ table'[t][j] # Absent
          => table[new][d] = t /\ table[t][j] # Absent
    BY <2>8, Zenon
  <2> HIDE DEF t, NewPage, PageFits
  <2>10. Forest(table', Directories, heap, used')
    BY <2>3, <2>4, <2>6, Zenon
  <2> QED BY <1>2, <2>1, <2>7, <2>9, <2>10, Zenon DEF PageAdded
<1> QED BY <1>3, <1>4

LEMMA LoadPageInv == SpacesInv /\ LoadPage => SpacesInv'
<1> SUFFICES ASSUME SpacesInv, LoadPage PROVE SpacesInv'
  OBVIOUS
<1> USE Special DEF LoadPage
<1>1. Directories' = Directories /\ new \in Directories /\ new \in Frames
  BY DEF Directories, Live, Pending, SpacesInv, Call, Building
<1>2. /\ pt \in Index /\ pt < pages /\ pages \in 1 .. MaxPages /\ pt + 1 \in 0 .. 3
      /\ table[new][0] # Absent => table[table[new][0]][pt] = Absent
  <2>1. pc = "load"
    OBVIOUS
  <2> HIDE DEF LoadPage
  <2>2. Loading /\ pt \in 0 .. 3 /\ pages \in 1 .. MaxPages
    BY <2>1 DEF SpacesInv, Progress, TypeOK
  <2> QED BY <2>2, AddressSpacesAssumption DEF Loading
<1>3. /\ FirstFree \in Frames
      /\ Forest(table', Directories, heap, used')
      /\ PageAdded(0, pt)
  <2>1. NewPage(0, pt, 1) /\ 0 \in 0 .. 1
    OBVIOUS
  <2> HIDE DEF LoadPage
  <2> QED BY <1>1, <1>2, <2>1, NewPageForest
<1>4. Call'
  BY DEF SpacesInv, Call, Building, Live, Roots
<1>5. data' \in [Frames -> Contents \cup {Stale}]
  BY <1>3, AddressSpacesAssumption DEF SpacesInv, TypeOK, NewPage
<1>6. TypeOK'
  <2>1. used' \subseteq Frames /\ table' \in [Frames -> Entries] /\ heap' \subseteq Frames
    BY <1>3, ForestTypes
  <2> QED BY <1>2, <1>5, <2>1 DEF SpacesInv, TypeOK
<1>7. PICK t \in Frames :
        /\ table'[new] = [table[new] EXCEPT ![0] = t]
        /\ \A j \in Index : j # pt /\ table'[t][j] # Absent
             => table[new][0] = t /\ table[t][j] # Absent
  BY <1>3 DEF PageAdded
<1>8. table'[new][0] = t /\ table'[new][1] = table[new][1]
  BY <1>1, <1>7 DEF SpacesInv, TypeOK, Entries
<1>9. \A j \in Index : j >= pt + 1 => table'[t][j] = Absent
  <2>1. pc = "load"
    OBVIOUS
  <2> HIDE DEF LoadPage
  <2>2. table[new][0] # Absent => \A j \in Index : j >= pt => table[table[new][0]][j] = Absent
    BY <2>1 DEF SpacesInv, Progress, Loading
  <2>3. t # Absent
    OBVIOUS
  <2> QED BY <1>2, <1>7, <2>2, <2>3
<1>10. table'[new][1] = Absent
  BY <1>8 DEF SpacesInv, Progress, Loading
<1>11. Progress'
  BY <1>2, <1>8, <1>9, <1>10 DEF Progress, Loading
<1> QED BY <1>1, <1>3, <1>4, <1>6, <1>11 DEF SpacesInv

LEMMA SetupStackInv == SpacesInv /\ SetupStack => SpacesInv'
<1> SUFFICES ASSUME SpacesInv, SetupStack PROVE SpacesInv'
  OBVIOUS
<1> USE Special DEF SetupStack, callVars, StackDir, StackPage
<1>1. Directories' = Directories /\ new \in Directories /\ new \in Frames
  BY DEF Directories, Live, Pending, SpacesInv, Call, Building
<1>2. table[new][1] = Absent
  BY DEF SpacesInv, Progress
<1>3. FirstFree \in Frames /\ Forest(table', Directories, heap, used')
  BY <1>1, <1>2, NewPageForest
<1>4. Call' /\ Progress'
  BY DEF SpacesInv, Call, Building, Live, Roots, Progress
<1>5. data' \in [Frames -> Contents \cup {Stale}]
  BY <1>3, AddressSpacesAssumption DEF SpacesInv, TypeOK, NewPage
<1>6. TypeOK'
  <2>1. used' \subseteq Frames /\ table' \in [Frames -> Entries] /\ heap' \subseteq Frames
    BY <1>3, ForestTypes
  <2> QED BY <1>5, <2>1 DEF SpacesInv, TypeOK
<1> QED BY <1>1, <1>3, <1>4, <1>6 DEF SpacesInv

LEMMA BootModuleInv ==
  ASSUME SpacesInv, NEW p \in Procs, BootModule(p)
  PROVE  SpacesInv'
<1> DEFINE dir == FirstFree
           tab == FreeBut({dir})
           page1 == FreeBut({dir, tab})
           page2 == FreeBut({dir, tab, page1})
           stab == FreeBut({dir, tab, page1, page2})
           spage == FreeBut({dir, tab, page1, page2, stab})
           Six == {dir, tab, page1, page2, stab, spage}
<1> USE Special
<1>1. /\ pc = "boot" /\ root[p] = NoFrame /\ spage # NoFrame
      /\ used' = used \cup Six
      /\ table' = Planted(table, dir, tab, page1, page2, stab, spage)
      /\ data' = [data EXCEPT ![page1] = 1]
      /\ root' = [root EXCEPT ![p] = dir]
      /\ UNCHANGED <<heap, pc, who, child, new, old, pd, pt, pages>>
  BY DEF BootModule, Planted, callVars
<1>2. /\ dir \in Frames \ used /\ tab \in Frames \ used /\ page1 \in Frames \ used
      /\ page2 \in Frames \ used /\ stab \in Frames \ used /\ spage \in Frames \ used
      /\ tab # dir /\ page1 \notin {dir, tab} /\ page2 \notin {dir, tab, page1}
      /\ stab \notin {dir, tab, page1, page2}
      /\ spage \notin {dir, tab, page1, page2, stab}
  <2>1. FreeFrames \ {dir, tab, page1, page2, stab} # {}
    BY <1>1, Zenon DEF FreeBut
  <2>2. \A S : S \subseteq {dir, tab, page1, page2, stab}
          => FreeBut(S) \in (Frames \ used) \ S
    BY <2>1, AllocatorGives, Zenon
  <2> QED BY <2>2 DEF FirstFree
<1> HIDE DEF dir, tab, page1, page2, stab, spage
<1>3. Forest(table', Directories \cup {dir}, heap, used')
  <2>1. Forest(table, Directories, heap, used)
    BY DEF SpacesInv
  <2>2. Forest(Planted(table, dir, tab, page1, page2, stab, spage), Directories \cup {dir},
               heap, used \cup {dir, tab, page1, page2, stab, spage})
    BY <1>2, <2>1, AddImage
  <2> QED BY <1>1, <2>2
<1>4. root \in [Procs -> Frames \cup {NoFrame}] /\ dir \in Frames
  BY <1>2 DEF SpacesInv, TypeOK
<1>5. /\ Live' = Live \cup {p} /\ p \notin Live /\ root'[p] = dir
      /\ \A q \in Live : root'[q] = root[q]
  BY <1>1, <1>4 DEF Live
<1>6. Roots' = Roots \cup {dir}
  BY <1>5 DEF Roots
<1>7. Directories' = Directories \cup {dir}
  BY <1>1, <1>6 DEF Directories, Roots, Pending
<1>8. dir \notin Roots
  BY <1>2, DirectoriesAre DEF SpacesInv, Forest, OneUse
<1>9. Call' /\ Progress'
  <2>1. \A q \in Live : root[q] # dir
    BY <1>8 DEF Roots
  <2>2. pc' = "boot"
    BY <1>1
  <2>3. \A q, r \in Live' : q # r => root'[q] # root'[r]
    BY <1>5, <2>1 DEF SpacesInv, Call
  <2>4. Call'
    BY <2>2, <2>3 DEF Call, Building
  <2>5. Progress'
    BY <2>2 DEF Progress
  <2> QED BY <2>4, <2>5
<1>10. data' \in [Frames -> Contents \cup {Stale}]
  BY <1>1, <1>2, AddressSpacesAssumption DEF SpacesInv, TypeOK
<1>11. TypeOK'
  <2>1. used' \subseteq Frames /\ table' \in [Frames -> Entries] /\ heap' \subseteq Frames
    BY <1>3, <1>1, ForestTypes
  <2>2. root' \in [Procs -> Frames \cup {NoFrame}]
    BY <1>1, <1>4
  <2> QED BY <1>1, <1>10, <2>1, <2>2 DEF SpacesInv, TypeOK
<1> QED BY <1>1, <1>3, <1>7, <1>9, <1>11 DEF SpacesInv

LEMMA NextInv == SpacesInv /\ [Next]_vars => SpacesInv'
<1> SUFFICES ASSUME SpacesInv, [Next]_vars PROVE SpacesInv'
  OBVIOUS
<1>1. CASE UNCHANGED vars
  BY <1>1, StutterInv
<1>2. ASSUME NEW p \in Procs, BootModule(p) PROVE SpacesInv'
  BY <1>2, BootModuleInv
<1>3. ASSUME NEW p \in Procs, NEW c \in Procs, SysFork(p, c) PROVE SpacesInv'
  BY <1>3, SysForkInv
<1>4. ASSUME NEW p \in Procs, NEW n \in 1 .. MaxPages, SysExec(p, n) PROVE SpacesInv'
  BY <1>4, SysExecInv
<1>5. ASSUME NEW p \in Procs, SysExit(p) PROVE SpacesInv'
  BY <1>5, SysExitInv
<1>6. ASSUME NEW p \in Procs, NEW v \in Contents, UserWrite(p, v) PROVE SpacesInv'
  BY <1>6, UserWriteInv
<1>7. CASE KernelStep
  <2>1. CASE CreateDirectory("fork", "clone_dir")
    BY <2>1, CreateDirectoryInv
  <2>2. CASE CreateDirectory("exec", "load")
    BY <2>2, CreateDirectoryInv
  <2> QED BY <1>7, <2>1, <2>2, CloneDirectoryEntryInv, CloneTableEntryInv,
             CloneTableEndsInv, ForkSucceedsInv, ForkFailsLateInv, LoadPageInv,
             SetupStackInv, BuildFailsInv, ExecCommitsInv, DestroyTableInv,
             DestroyEndsInv DEF KernelStep
<1> QED BY <1>1, <1>2, <1>3, <1>4, <1>5, <1>6, <1>7, BootEndsInv, HeapGrowsInv DEF Next

\* The inductive invariant: at every step of every call the frames are a
\* forest under the roots of the processes and the directory in the making.
THEOREM SpacesInvariant == Spec => []SpacesInv
<1>1. Init => SpacesInv
  BY InitInv
<1>2. SpacesInv /\ [Next]_vars => SpacesInv'
  BY NextInv
<1> QED BY <1>1, <1>2, PTL DEF Spec

-----------------------------------------------------------------------------
(* What follows *)

LEMMA OwnedAre ==
  ASSUME SpacesInv, NEW d \in Directories
  PROVE  /\ \A f : f \in TablesOf(d) <=> f # Absent /\ \E i \in 0 .. 1 : table[d][i] = f
         /\ \A f : f \in UserPages(d) <=>
              f # Absent /\ \E i \in 0 .. 1, j \in Index :
                table[d][i] # Absent /\ table[table[d][i]][j] = f
         /\ Owned(d) \subseteq Frames
<1> USE Special
<1>1. \A f : f \in TablesOf(d) <=> f # Absent /\ \E i \in 0 .. 1 : table[d][i] = f
  BY DEF TablesOf
<1>2. \A f : f \in UserPages(d) <=>
         f # Absent /\ \E i \in 0 .. 1, j \in Index :
           table[d][i] # Absent /\ table[table[d][i]][j] = f
  BY DEF UserPages, PagesOf
<1>3. d \in Frames /\ TablesOf(d) \subseteq Frames
  <2>1. d \in Frames
    BY ForestTypes DEF SpacesInv
  <2>2. ASSUME NEW f \in TablesOf(d) PROVE f \in Frames
    BY <1>1, <2>2, Levels
  <2> QED BY <2>1, <2>2
<1>4. UserPages(d) \subseteq Frames
  <2> SUFFICES ASSUME NEW f \in UserPages(d) PROVE f \in Frames
    OBVIOUS
  <2>1. PICK i \in 0 .. 1, j \in Index :
          f # Absent /\ table[d][i] # Absent /\ table[table[d][i]][j] = f
    BY <1>2
  <2>2. table[d][i] \in Frames /\ IsTable(table, Directories, table[d][i])
    BY <2>1, Levels
  <2>3. table \in [Frames -> Entries] /\ table[table[d][i]][j] # KernelTable
    BY <2>2 DEF SpacesInv, Forest, Formed
  <2> QED BY <2>1, <2>2, <2>3 DEF Entries
<1> QED BY <1>1, <1>2, <1>3, <1>4 DEF Owned

\* The two parts of OwnedAre that name a frame's place.
LEMMA TableHangs ==
  ASSUME SpacesInv, NEW d \in Directories, NEW f \in TablesOf(d)
  PROVE  f # Absent /\ \E i \in 0 .. 1 : table[d][i] = f
BY OwnedAre

LEMMA PageHangs ==
  ASSUME SpacesInv, NEW d \in Directories, NEW f \in UserPages(d)
  PROVE  f # Absent /\ \E i \in 0 .. 1, j \in Index :
           table[d][i] # Absent /\ table[table[d][i]][j] = f
BY OwnedAre

LEMMA ForestAccounts == SpacesInv => FramesAccounted
<1> SUFFICES ASSUME SpacesInv PROVE FramesAccounted
  OBVIOUS
<1> USE Special
<1>1. \A f : IsTable(table, Directories, f) <=> \E d \in Directories : f \in TablesOf(d)
  BY OwnedAre DEF IsTable
<1>2. \A f : IsPage(table, Directories, f) => \E d \in Directories : f \in UserPages(d)
  <2> SUFFICES ASSUME NEW f, IsPage(table, Directories, f)
               PROVE  \E d \in Directories : f \in UserPages(d)
    OBVIOUS
  <2>1. PICK t \in Frames, j \in Index :
          f # Absent /\ IsTable(table, Directories, t) /\ table[t][j] = f
    BY Zenon DEF IsPage
  <2>2. PICK d \in Directories, i \in 0 .. 1 : t # Absent /\ table[d][i] = t
    BY <2>1, Zenon DEF IsTable
  <2>3. table[d][i] # Absent /\ table[table[d][i]][j] = f
    BY <2>1, <2>2
  <2> QED BY <2>1, <2>3, OwnedAre
<1>3. ASSUME NEW d \in Directories, NEW f \in UserPages(d)
      PROVE  IsPage(table, Directories, f)
  <2>1. PICK i \in 0 .. 1, j \in Index :
          f # Absent /\ table[d][i] # Absent /\ table[table[d][i]][j] = f
    BY <1>3, PageHangs
  <2>2. table[d][i] \in Frames /\ IsTable(table, Directories, table[d][i])
    BY <2>1, Levels
  <2> QED BY <2>1, <2>2, Zenon DEF IsPage
<1>4. \A f \in Frames : f \in used
        <=> f \in heap \/ \E d \in Directories : f \in Owned(d)
  BY <1>1, <1>2, <1>3 DEF SpacesInv, Forest, OneUse, Owned
<1>5. used \subseteq Frames /\ heap \subseteq Frames
      /\ \A d \in Directories : Owned(d) \subseteq Frames
  BY OwnedAre DEF SpacesInv, TypeOK
<1> QED BY <1>4, <1>5 DEF FramesAccounted

LEMMA ForestIsUnshared == SpacesInv => NoSharing
<1> SUFFICES ASSUME SpacesInv PROVE NoSharing
  OBVIOUS
<1>1. ASSUME NEW d \in Directories, NEW f \in TablesOf(d)
      PROVE  IsTable(table, Directories, f) /\ f \in Frames
  <2>1. PICK i \in 0 .. 1 : f # Absent /\ table[d][i] = f
    BY <1>1, TableHangs
  <2> QED BY <2>1, Levels, Zenon
<1>2. ASSUME NEW d \in Directories, NEW f \in UserPages(d)
      PROVE  IsPage(table, Directories, f) /\ f \in Frames
  <2>1. f \in Frames
    BY <1>2, OwnedAre DEF Owned
  <2>2. PICK i \in 0 .. 1, j \in Index :
          f # Absent /\ table[d][i] # Absent /\ table[table[d][i]][j] = f
    BY <1>2, PageHangs
  <2>3. table[d][i] \in Frames /\ IsTable(table, Directories, table[d][i])
    BY <2>2, Levels, Zenon
  <2> QED BY <2>1, <2>2, <2>3, Zenon DEF IsPage
<1>3. ASSUME NEW d \in Directories, NEW e \in Directories, NEW i \in 0 .. 1,
             NEW k \in 0 .. 1, table[d][i] # Absent, table[d][i] = table[e][k]
      PROVE  d = e /\ i = k
  BY <1>3, TablesOnce
<1>4. ASSUME NEW d \in Directories, NEW e \in Directories, NEW i \in 0 .. 1,
             NEW k \in 0 .. 1, NEW j \in Index, NEW l \in Index,
             table[d][i] # Absent, table[e][k] # Absent,
             table[table[d][i]][j] # Absent,
             table[table[d][i]][j] = table[table[e][k]][l]
      PROVE  d = e /\ i = k /\ j = l
  <2>1. /\ table[d][i] \in Frames /\ IsTable(table, Directories, table[d][i])
        /\ table[e][k] \in Frames /\ IsTable(table, Directories, table[e][k])
    BY <1>4, Levels, Zenon
  <2>2. table[d][i] = table[e][k] /\ j = l
    BY <1>4, <2>1, PagesOnce
  <2> QED BY <1>3, <1>4, <2>2
<1>5. ASSUME NEW d \in Directories, NEW e \in Directories, d # e
      PROVE  Owned(d) \cap Owned(e) = {}
  <2>1. TablesOf(d) \cap TablesOf(e) = {}
    <3> SUFFICES ASSUME NEW f \in TablesOf(d), f \in TablesOf(e) PROVE FALSE
      BY Zenon
    <3>1. PICK i \in 0 .. 1 : f # Absent /\ table[d][i] = f
      BY TableHangs
    <3>2. PICK k \in 0 .. 1 : table[e][k] = f
      BY TableHangs
    <3> QED BY <1>3, <1>5, <3>1, <3>2
  <2>2. UserPages(d) \cap UserPages(e) = {}
    <3> SUFFICES ASSUME NEW f \in UserPages(d), f \in UserPages(e) PROVE FALSE
      BY Zenon
    <3>1. PICK i \in 0 .. 1, j \in Index :
            f # Absent /\ table[d][i] # Absent /\ table[table[d][i]][j] = f
      BY PageHangs
    <3>2. PICK k \in 0 .. 1, l \in Index :
            table[e][k] # Absent /\ table[table[e][k]][l] = f
      BY PageHangs
    <3>3. table[table[d][i]][j] # Absent /\ table[table[d][i]][j] = table[table[e][k]][l]
      BY <3>1, <3>2, Zenon
    <3>4. d = e
      BY <1>4, <3>1, <3>2, <3>3
    <3> QED BY <1>5, <3>4, Zenon
  <2>3. \A f \in TablesOf(d) \cup TablesOf(e) :
          f \notin Directories /\ f \notin UserPages(d) /\ f \notin UserPages(e)
    BY <1>1, <1>2 DEF SpacesInv, Forest, OneUse
  <2>4. \A f \in UserPages(d) \cup UserPages(e) : f \notin Directories
    BY <1>2 DEF SpacesInv, Forest, OneUse
  <2> QED BY <1>5, <2>1, <2>2, <2>3, <2>4 DEF Owned
<1>6. ASSUME NEW d \in Directories
      PROVE  /\ Owned(d) \cap heap = {}
             /\ d \notin TablesOf(d)
             /\ UserPages(d) \cap ({d} \cup TablesOf(d)) = {}
             /\ table[d][0] # Absent => table[d][0] # table[d][1]
  <2>1. d \in Frames
    BY DEF SpacesInv, Forest, Formed
  <2>2. Owned(d) \cap heap = {}
    BY <1>1, <1>2, <2>1 DEF SpacesInv, Forest, OneUse, Owned
  <2>3. d \notin TablesOf(d) /\ UserPages(d) \cap ({d} \cup TablesOf(d)) = {}
    BY <1>1, <1>2, <2>1 DEF SpacesInv, Forest, OneUse
  <2>4. table[d][0] # Absent => table[d][0] # table[d][1]
    BY <1>3
  <2> QED BY <2>2, <2>3, <2>4
<1>7. ASSUME NEW d \in Directories, NEW s \in PageSlots(d), NEW t \in PageSlots(d), s # t
      PROVE  PageAt(d, s) # PageAt(d, t)
  <2>1. /\ s = <<s[1], s[2]>> /\ s[1] \in 0 .. 1 /\ s[2] \in Index
        /\ t = <<t[1], t[2]>> /\ t[1] \in 0 .. 1 /\ t[2] \in Index
        /\ table[d][s[1]] # Absent /\ table[table[d][s[1]]][s[2]] # Absent
        /\ table[d][t[1]] # Absent /\ table[table[d][t[1]]][t[2]] # Absent
    <3>1. PageSlots(d) \subseteq (0 .. 1) \X Index
      BY DEF PageSlots
    <3>2. \A u \in PageSlots(d) :
            table[d][u[1]] # Absent /\ table[table[d][u[1]]][u[2]] # Absent
      BY DEF PageSlots
    <3> QED BY <3>1, <3>2
  <2>2. s[1] # t[1] \/ s[2] # t[2]
    BY <1>7, <2>1
  <2> SUFFICES ASSUME PageAt(d, s) = PageAt(d, t) PROVE FALSE
    OBVIOUS
  <2>3. table[table[d][s[1]]][s[2]] = table[table[d][t[1]]][t[2]]
    BY DEF PageAt
  <2>4. s[1] = t[1] /\ s[2] = t[2]
    <3>1. /\ table[d][s[1]] \in Frames /\ IsTable(table, Directories, table[d][s[1]])
          /\ table[d][t[1]] \in Frames /\ IsTable(table, Directories, table[d][t[1]])
      BY <2>1, Levels
    <3>2. table[d][s[1]] = table[d][t[1]] /\ s[2] = t[2]
      BY <2>1, <2>3, <3>1, PagesOnce
    <3> QED BY <1>3, <2>1, <3>2
  <2> QED BY <2>2, <2>4
<1>8. \A p, q \in Live : p # q => root[p] # root[q]
  BY DEF SpacesInv, Call
<1> QED BY <1>5, <1>6, <1>7, <1>8 DEF NoSharing

\* TypeOK: the bitmap, the entries and the counters stay in their ranges.
THEOREM SpacesTypeCorrect == Spec => []TypeOK
BY SpacesInvariant, PTL DEF SpacesInv

\* FramesAccounted: pfa_alloc and pfa_free are called so that the allocated
\* frames are always those of the heap and of the address spaces.
THEOREM FramesAlwaysAccounted == Spec => []FramesAccounted
BY SpacesInvariant, ForestAccounts, PTL

\* NoSharing: clone_user_space, build_new_image and destroy_user_space never
\* leave a frame with two uses.
THEOREM SpacesNeverShared == Spec => []NoSharing
BY SpacesInvariant, ForestIsUnshared, PTL

\* KernelMapped: create_user_pdt gives every directory the kernel's entry, and
\* no call takes it away.
THEOREM KernelAlwaysMapped == Spec => []KernelMapped
<1>1. SpacesInv => KernelMapped
  BY DirectoriesAre DEF SpacesInv, Forest, Formed, KernelMapped, KERNEL_PD_INDEX, Roots
<1> QED BY <1>1, SpacesInvariant, PTL

-----------------------------------------------------------------------------
(* What processes see *)

Touched(f) == table'[f] # table[f] \/ data'[f] # data[f]

\* A step of a kernel call touches free frames and frames of the directory that
\* the call builds or destroys, no others.
LEMMA CallTouches ==
  ASSUME SpacesInv, Next, pc # "idle", NEW f \in Frames, Touched(f)
  PROVE  f \notin used \/ \E d \in Pending : f \in Owned(d)
<1> USE Special DEF Touched
<1>1. table \in [Frames -> Entries] /\ data \in [Frames -> Contents \cup {Stale}]
  BY DEF SpacesInv, TypeOK
<1>2. ASSUME NEW p \in Procs, BootModule(p) PROVE f \notin used
  <2> DEFINE dir == FirstFree
             tab == FreeBut({dir})
             page1 == FreeBut({dir, tab})
             page2 == FreeBut({dir, tab, page1})
             stab == FreeBut({dir, tab, page1, page2})
             spage == FreeBut({dir, tab, page1, page2, stab})
  <2>1. /\ spage # NoFrame
        /\ table' = Planted(table, dir, tab, page1, page2, stab, spage)
        /\ data' = [data EXCEPT ![page1] = 1]
    BY <1>2, Zenon DEF BootModule, Planted
  <2>2. FreeFrames \ {dir, tab, page1, page2, stab} # {}
    BY <2>1, Zenon DEF FreeBut
  <2>3. \A S : S \subseteq {dir, tab, page1, page2, stab}
          => FreeBut(S) \in (Frames \ used) \ S
    BY <2>2, AllocatorGives, Zenon
  <2>4. dir \notin used /\ tab \notin used /\ page1 \notin used /\ stab \notin used
    <3>1. dir = FreeBut({})
      BY DEF FirstFree
    <3> QED BY <2>3, <3>1
  <2> HIDE DEF dir, tab, page1, page2, stab, spage
  <2>5. f \in {dir, tab, page1, stab}
    BY <1>1, <2>1 DEF Planted
  <2> QED BY <2>4, <2>5
<1>3. ASSUME NEW from, NEW to, CreateDirectory(from, to) PROVE f \notin used
  BY <1>1, <1>3, FirstIsFree DEF CreateDirectory
<1>4. ASSUME CloneDirectoryEntry PROVE f \notin used \/ (f = new /\ new \in Pending)
  BY <1>1, <1>4, FirstIsFree DEF CloneDirectoryEntry, Pending
<1>5. ASSUME CloneTableEntry
      PROVE  \/ f \notin used
             \/ f = table[new][pd] /\ new \in Pending /\ pd \in 0 .. 1
  BY <1>1, <1>5, FirstIsFree, Zenon
     DEF CloneTableEntry, ClonePage, Pending, frameVars, SpacesInv, Progress, CloningTable
<1>6. ASSUME NEW d \in 0 .. 1, NEW i, NEW v, NewPage(d, i, v)
      PROVE  f \notin used \/ f = new \/ (f = table[new][d] /\ table[new][d] # Absent)
  BY <1>1, <1>6, FirstIsFree, SecondIsFree, Zenon DEF NewPage, PageFits
<1>7. ASSUME DestroyTable
      PROVE  /\ old \in Pending /\ pd \in 0 .. 1 /\ table[old][pd] # Absent
             /\ f \in {old, table[old][pd]} \cup PagesOf(table[old][pd])
  <2>1. ~ UNCHANGED frameVars
    BY DEF frameVars
  <2>2. pd \in 0 .. 1 /\ table[old][pd] # Absent /\ old \in Pending
    BY <1>7, <2>1 DEF DestroyTable, KERNEL_PD_INDEX, Pending, SpacesInv, TypeOK
  <2>3. Free({table[old][pd]} \cup PagesOf(table[old][pd]),
             [table EXCEPT ![old][pd] = Absent])
    BY <1>7, <2>1 DEF DestroyTable
  <2> QED BY <1>1, <2>2, <2>3 DEF Free
<1>8. ASSUME DestroyEnds PROVE f = old /\ old \in Pending
  BY <1>1, <1>8 DEF DestroyEnds, Free, Pending
<1>9. ASSUME NEW d \in Pending, NEW i \in 0 .. 1, table[d][i] # Absent
      PROVE  d \in Owned(d) /\ table[d][i] \in Owned(d) /\ PagesOf(table[d][i]) \subseteq Owned(d)
  BY <1>9 DEF Owned, TablesOf, UserPages
<1>10. \A d \in Pending : d \in Owned(d)
  BY DEF Owned
<1>11. CASE UNCHANGED <<table, data>>
  BY <1>11
<1>12. CASE CloneDirectoryEntry
  BY <1>4, <1>10, <1>12
<1>13. CASE CloneTableEntry
  BY <1>5, <1>9, <1>13, ZenonT(30) DEF CloneTableEntry, SpacesInv, Progress, CloningTable
<1>14. CASE LoadPage
  <2>1. NewPage(0, pt, 1) /\ new \in Pending
    BY <1>14, Zenon DEF LoadPage, Pending
  <2>2. f \notin used \/ f = new \/ (f = table[new][0] /\ table[new][0] # Absent)
    BY <1>6, <2>1
  <2> QED BY <1>9, <1>10, <2>1, <2>2
<1>15. CASE SetupStack
  <2>1. NewPage(1, 2, 0) /\ new \in Pending
    BY <1>15 DEF SetupStack, Pending, StackDir, StackPage
  <2>2. f \notin used \/ f = new \/ (f = table[new][1] /\ table[new][1] # Absent)
    BY <1>6, <2>1
  <2> QED BY <1>9, <1>10, <2>1, <2>2
<1>16. CASE DestroyTable
  BY <1>7, <1>9, <1>10, <1>16
<1>17. CASE DestroyEnds
  BY <1>8, <1>10, <1>17
<1>18. CASE CreateDirectory("fork", "clone_dir") \/ CreateDirectory("exec", "load")
  BY <1>3, <1>18
<1>19. \/ \E p \in Procs : BootModule(p)
       \/ UNCHANGED <<table, data>>
       \/ KernelStep
  BY Zenon DEF Next, BootEnds, SysFork, SysExec, SysExit, HeapGrows, UserWrite, frameVars
<1>20. KernelStep => \/ UNCHANGED <<table, data>>
                     \/ CreateDirectory("fork", "clone_dir")
                     \/ CreateDirectory("exec", "load")
                     \/ CloneDirectoryEntry \/ CloneTableEntry \/ LoadPage
                     \/ SetupStack \/ DestroyTable \/ DestroyEnds
  BY DEF KernelStep, CloneTableEnds, ForkSucceeds, ForkFailsLate, BuildFails,
         ExecCommits, frameVars
<1> QED BY <1>2, <1>11, <1>12, <1>13, <1>14, <1>15, <1>16, <1>17, <1>18, <1>19, <1>20

\* Seen, of given frames.
SeenIn(tb, dt, d, i, j) ==
  IF tb[d][i] = Absent THEN Absent
  ELSE IF tb[tb[d][i]][j] = Absent THEN Absent ELSE dt[tb[tb[d][i]][j]]

\* What is seen under d depends on the frames of d alone.
LEMMA SeenSame ==
  ASSUME SpacesInv, NEW d \in Directories, \A f \in Owned(d) : ~ Touched(f),
         NEW i \in 0 .. 1, NEW j \in Index
  PROVE  SeenIn(table', data', d, i, j) = SeenIn(table, data, d, i, j)
<1> USE Special DEF Touched
<1>1. table'[d] = table[d]
  BY DEF Owned
<1>2. table[d][i] # Absent => table[d][i] \in Owned(d)
  BY DEF Owned, TablesOf
<1>3. table[d][i] # Absent /\ table[table[d][i]][j] # Absent
        => table[table[d][i]][j] \in Owned(d)
  BY OwnedAre DEF Owned
<1> QED BY <1>1, <1>2, <1>3, ZenonT(30) DEF SeenIn

LEMMA UndisturbedHolds == SpacesInv /\ Next => UndisturbedStep
<1> SUFFICES ASSUME SpacesInv, Next, NEW p \in Live, SeesChange(p)
             PROVE  pc = "idle" /\ \A q \in Live \ {p} : ~ SeesChange(q)
  BY DEF UndisturbedStep
<1>1. NoSharing
  BY ForestIsUnshared
<1>2. ASSUME NEW q \in Live
      PROVE  root[q] \in Directories /\ Owned(root[q]) \subseteq Frames
  BY OwnedAre DEF Directories
<1>3. ASSUME NEW q \in Live, SeesChange(q)
      PROVE  \E f \in Owned(root[q]) : Touched(f)
  <2>1. PICK i \in 0 .. 1, j \in Index : Seen(root[q], i, j)' # Seen(root[q], i, j)
    BY <1>3 DEF SeesChange
  <2>2. root'[q] = root[q]
    BY <1>3 DEF SeesChange
  <2>3. /\ Seen(root[q], i, j) = SeenIn(table, data, root[q], i, j)
        /\ Seen(root[q], i, j)' = SeenIn(table', data', root[q], i, j)
    BY <2>2 DEF Seen, SeenIn
  <2>4. root[q] \in Directories
    BY <1>2
  <2> QED BY <2>1, <2>3, <2>4, SeenSame, Zenon
<1>4. pc = "idle"
  <2> SUFFICES ASSUME pc # "idle" PROVE FALSE
    OBVIOUS
  <2>1. PICK f \in Owned(root[p]) : Touched(f)
    BY <1>3
  <2>2. f \in used
    BY <1>2, ForestAccounts DEF FramesAccounted
  <2>3. PICK d \in Pending : f \in Owned(d)
    BY <1>2, <2>1, <2>2, CallTouches
  <2>4. d # root[p] /\ d \in Directories
    BY Zenon DEF SpacesInv, Call, Building, Pending, Roots, Directories
  <2> QED BY <1>1, <1>2, <2>1, <2>3, <2>4, Zenon DEF NoSharing
<1>5. ASSUME NEW q \in Live \ {p}, SeesChange(q) PROVE FALSE
  <2>1. PICK f \in Owned(root[p]) : Touched(f)
    BY <1>3
  <2>2. PICK g \in Owned(root[q]) : Touched(g)
    BY <1>3, <1>5
  <2>3. f \in Frames /\ g \in Frames
    BY <1>2
  <2>4. PICK r \in Procs, v \in Contents : UserWrite(r, v)
    <3>1. ~ UNCHANGED <<table, data>>
      BY <2>1, <2>3 DEF Touched
    <3>2. ~ KernelStep /\ ~ \E r \in Procs : BootModule(r)
      BY <1>4, Zenon DEF KernelStep, BootModule, CreateDirectory, CloneDirectoryEntry,
                  CloneTableEntry, CloneTableEnds, ForkSucceeds, ForkFailsLate, Cloned,
                  LoadPage, SetupStack, BuildFails, ExecCommits, DestroyTable, DestroyEnds
    <3> QED BY <3>1, <3>2 DEF Next, BootEnds, SysFork, SysExec, SysExit, HeapGrows, frameVars
  <2>5. PICK h \in UserPages(root[r]) : data' = [data EXCEPT ![h] = v]
    BY <2>4, Zenon DEF UserWrite
  <2>6. f = h /\ g = h
    BY <2>1, <2>2, <2>3, <2>4, <2>5 DEF Touched, UserWrite, SpacesInv, TypeOK
  <2> QED BY <1>1, <1>2, <1>5, <2>1, <2>2, <2>6, Zenon DEF NoSharing
<1> QED BY <1>4, <1>5

\* Undisturbed: neither the copying, loading and destroying of address spaces
\* nor a process's own writes change what another process sees.
THEOREM MemoryUndisturbed == Spec => Undisturbed
<1>1. SpacesInv /\ [Next]_vars => [UndisturbedStep]_vars
  BY UndisturbedHolds
<1> QED BY <1>1, SpacesInvariant, PTL DEF Spec, Undisturbed

-----------------------------------------------------------------------------
(* What a child sees *)

\* What has been copied so far is what the parent has.
Copied ==
  /\ pc = "clone_dir" =>
       \A i \in 0 .. 1, j \in Index : i < pd
         => SeenIn(table, data, new, i, j) = SeenIn(table, data, root[who], i, j)
  /\ pc = "clone_table" =>
       \A i \in 0 .. 1, j \in Index : i < pd \/ (i = pd /\ j < pt)
         => SeenIn(table, data, new, i, j) = SeenIn(table, data, root[who], i, j)

\* The parent's memory does not change while it is copied.
LEMMA ParentSame ==
  ASSUME SpacesInv, Next, pc \in {"clone_dir", "clone_table"}, UNCHANGED <<root, who>>,
         NEW i \in 0 .. 1, NEW j \in Index
  PROVE  SeenIn(table', data', root[who], i, j) = SeenIn(table, data, root[who], i, j)
<1>1. who \in Live
  BY DEF SpacesInv, Call
<1>2. ~ SeesChange(who)
  BY <1>1, UndisturbedHolds DEF UndisturbedStep
<1>3. Seen(root[who], i, j)' = Seen(root[who], i, j)
  BY <1>2 DEF SeesChange
<1> QED BY <1>3, Zenon DEF Seen, SeenIn

LEMMA CopiedStep ==
  ASSUME SpacesInv, SpacesInv', Copied, Next
  PROVE  Copied'
<1> USE Special
<1> DEFINE Now(d, i, j) == SeenIn(table, data, d, i, j)
           Then(d, i, j) == SeenIn(table', data', d, i, j)
<1>1. CASE CloneDirectoryEntry
  <2>1. /\ pc = "clone_dir" /\ pd \in 0 .. 1 /\ UNCHANGED <<root, who, new>>
        /\ \A i \in 0 .. 1 : i >= pd => table[new][i] = Absent
    BY <1>1 DEF CloneDirectoryEntry, SpacesInv, Progress, CloningDir, KERNEL_PD_INDEX
  <2>2. CASE table[root[who]][pd] = Absent
    <3>1. pd' = pd + 1 /\ UNCHANGED <<table, pc>> /\ UNCHANGED data
      BY <1>1, <2>2 DEF CloneDirectoryEntry
    <3>2. \A j \in Index : Now(new, pd, j) = Now(root[who], pd, j)
      BY <2>1, <2>2 DEF SeenIn
    <3>3. \A i \in 0 .. 1, j \in Index : i < pd + 1 => Now(new, i, j) = Now(root[who], i, j)
      BY <2>1, <3>2 DEF Copied
    <3> QED BY <2>1, <3>1, <3>3, Zenon DEF Copied
  <2>3. CASE table[root[who]][pd] # Absent /\ FirstFree = NoFrame
    BY <1>1, <2>3 DEF CloneDirectoryEntry, Destroys, Copied
  <2>4. CASE table[root[who]][pd] # Absent /\ FirstFree # NoFrame
    <3>1. /\ table' = [table EXCEPT ![FirstFree] = NoEntries, ![new][pd] = FirstFree]
          /\ pc' = "clone_table" /\ pt' = 0 /\ UNCHANGED <<pd, data>>
      BY <1>1, <2>4 DEF CloneDirectoryEntry
    <3>2. /\ FirstFree \in Frames \ used /\ new \in Directories /\ new \in Frames
          /\ table \in [Frames -> Entries]
      BY <2>1, <2>4, FirstIsFree, Zenon DEF SpacesInv, TypeOK, Call, Building, Directories, Pending
    <3>3. FirstFree \notin Directories
          /\ \A i \in 0 .. 1 : table[new][i] # Absent =>
               table[new][i] \in Frames \ Directories /\ table[new][i] # FirstFree
      <4>1. OneUse(table, Directories, heap, used)
        BY DEF SpacesInv, Forest
      <4>2. FirstFree \notin Directories /\ ~ IsTable(table, Directories, FirstFree)
        BY <3>2, <4>1 DEF OneUse
      <4>3. ASSUME NEW i \in 0 .. 1, table[new][i] # Absent
            PROVE  /\ table[new][i] \in Frames \ Directories
                   /\ IsTable(table, Directories, table[new][i])
        BY <3>2, <4>3, Levels
      <4> QED BY <4>2, <4>3
    <3>4. ASSUME NEW i \in 0 .. 1, NEW j \in Index, i < pd
          PROVE  Then(new, i, j) = Now(new, i, j)
      <4>1. table'[new] = [table[new] EXCEPT ![pd] = FirstFree]
        BY <3>1, <3>2, <3>3
      <4>2. table'[new][i] = table[new][i]
        BY <2>1, <3>2, <3>4, <4>1 DEF Entries
      <4>3. table[new][i] # Absent => table'[table[new][i]] = table[table[new][i]]
        BY <3>1, <3>2, <3>3
      <4>4. data' = data
        BY <3>1
      <4> QED BY <4>2, <4>3, <4>4, Zenon DEF SeenIn
    <3>5. \A i \in 0 .. 1, j \in Index : i < pd => Then(new, i, j) = Then(root[who], i, j)
      BY <2>1, <3>4, ParentSame DEF Copied
    <3>6. \A j \in Index : ~ (j < pt')
      BY <3>1
    <3>7. pc' = "clone_table" /\ UNCHANGED <<pd, root, who, new>>
      BY <2>1, <3>1
    <3> HIDE DEF Now
    <3> QED BY <3>5, <3>6, <3>7 DEF Copied
  <2> QED BY <2>2, <2>3, <2>4
<1>2. CASE CloneTableEntry
  <2> DEFINE t == table[new][pd]
             source == table[table[root[who]][pd]][pt]
  <2>1. /\ pc = "clone_table" /\ pd \in 0 .. 1 /\ pt \in Index /\ UNCHANGED <<root, who, new>>
        /\ t # Absent /\ table[root[who]][pd] # Absent
        /\ \A j \in Index : j >= pt => table[t][j] = Absent
    <3>1. pc = "clone_table" /\ pt <= 2 /\ UNCHANGED <<root, who, new>>
      BY <1>2, Zenon DEF CloneTableEntry
    <3>2. pt \in Index
      BY <3>1 DEF SpacesInv, TypeOK
    <3> QED BY <3>1, <3>2, Zenon DEF SpacesInv, Progress, CloningTable
  <2>2. CASE source = Absent
    <3>1. pt' = pt + 1 /\ UNCHANGED <<table, data, pc, pd>>
      BY <1>2, <2>2 DEF CloneTableEntry, frameVars
    <3>2. Now(new, pd, pt) = Now(root[who], pd, pt)
      BY <2>1, <2>2 DEF SeenIn
    <3>3. \A i \in 0 .. 1, j \in Index : i < pd \/ (i = pd /\ j < pt + 1)
            => Now(new, i, j) = Now(root[who], i, j)
      BY <2>1, <3>2 DEF Copied
    <3> QED BY <2>1, <3>1, <3>3, Zenon DEF Copied
  <2>3. CASE source # Absent /\ FirstFree = NoFrame
    <3>1. pc' \notin {"clone_dir", "clone_table"}
      BY <1>2, <2>3, Zenon DEF CloneTableEntry, Destroys
    <3> QED BY <3>1 DEF Copied
  <2>4. CASE source # Absent /\ FirstFree # NoFrame
    <3>1. /\ table' = [table EXCEPT ![t][pt] = FirstFree]
          /\ data' = [data EXCEPT ![FirstFree] = data[source]]
          /\ pt' = pt + 1 /\ UNCHANGED <<pc, pd>>
      BY <1>2, <2>4, Zenon DEF CloneTableEntry, ClonePage
    <3>2. /\ FirstFree \in Frames \ used /\ new \in Directories /\ new \in Frames
          /\ table \in [Frames -> Entries] /\ data \in [Frames -> Contents \cup {Stale}]
      BY <2>1, <2>4, FirstIsFree, Zenon DEF SpacesInv, TypeOK, Call, Building, Directories, Pending
    <3>3. t \in Frames \ Directories
      BY <2>1, <3>2, Levels, Zenon
    <3>4. table'[new] = table[new] /\ table'[t] = [table[t] EXCEPT ![pt] = FirstFree]
      BY <3>1, <3>2, <3>3, Zenon
    <3>5. Then(new, pd, pt) = Now(root[who], pd, pt)
      BY <2>1, <2>4, <3>1, <3>2, <3>3, <3>4, Zenon DEF SeenIn, Entries
    <3>6. ASSUME NEW i \in 0 .. 1, NEW j \in Index, i < pd \/ (i = pd /\ j < pt)
          PROVE  Then(new, i, j) = Now(new, i, j)
      <4>1. CASE table[new][i] = Absent
        BY <3>4, <4>1 DEF SeenIn
      <4>2. CASE table[new][i] # Absent
        <5>1. table[new][i] \in Frames
          BY <3>2, <4>2, Levels
        <5>2. table'[table[new][i]][j] = table[table[new][i]][j]
          <6>1. CASE i = pd
            BY <2>1, <3>2, <3>3, <3>4, <3>6, <6>1 DEF Entries
          <6>2. CASE i # pd
            <7>1. table[new][i] # t
              BY <2>1, <3>2, <6>2, TablesOnce, Zenon
            <7> QED BY <3>1, <3>2, <5>1, <7>1, Zenon
          <6> QED BY <6>1, <6>2
        <5>3. table[table[new][i]][j] # Absent => table[table[new][i]][j] # FirstFree
          <6>1. table[table[new][i]][j] # Absent => table[table[new][i]][j] \in Owned(new)
            BY <3>2, <4>2, OwnedAre DEF Owned
          <6> QED BY <3>2, <6>1, ForestAccounts DEF FramesAccounted
        <5>4. table[table[new][i]][j] # Absent => table[table[new][i]][j] \in Frames
          BY <3>2, <4>2, OwnedAre DEF Owned
        <5>5. table[table[new][i]][j] # Absent
                => data'[table[table[new][i]][j]] = data[table[table[new][i]][j]]
          BY <3>1, <3>2, <5>3, <5>4, Zenon
        <5>6. table'[new][i] = table[new][i]
          BY <3>4
        <5> QED BY <5>2, <5>5, <5>6, Zenon DEF SeenIn
      <4> QED BY <4>1, <4>2
    <3>7. \A i \in 0 .. 1, j \in Index : i < pd \/ (i = pd /\ j < pt + 1)
            => Then(new, i, j) = Now(root[who], i, j)
      <4> TAKE i \in 0 .. 1, j \in Index
      <4>1. CASE i = pd /\ j = pt
        BY <3>5, <4>1
      <4>2. CASE i < pd \/ (i = pd /\ j < pt)
        <5>1. Now(new, i, j) = Now(root[who], i, j)
          BY <2>1, <4>2, Zenon DEF Copied
        <5>2. Then(new, i, j) = Now(new, i, j)
          BY <2>1, <3>6, <4>2, Zenon
        <5> HIDE DEF Now, Then
        <5> QED BY <5>1, <5>2
      <4>3. pt \in Int
        BY <2>1 DEF Index
      <4>4. j \in Int
        BY DEF Index
      <4> QED BY <4>1, <4>2, <4>3, <4>4
    <3>8. \A i \in 0 .. 1, j \in Index : i < pd \/ (i = pd /\ j < pt + 1)
            => Then(new, i, j) = Then(root[who], i, j)
      BY <2>1, <3>7, ParentSame
    <3>9. pc' = "clone_table" /\ pd' = pd /\ pt' = pt + 1
      BY <2>1, <3>1, Zenon
    <3> HIDE DEF Now, Then
    <3>10. \A i \in 0 .. 1, j \in Index : i < pd' \/ (i = pd' /\ j < pt')
            => Then(new, i, j) = Then(root[who], i, j)
      BY <3>8, <3>9
    <3> USE DEF Now, Then
    <3> QED BY <2>1, <3>9, <3>10, Zenon DEF Copied
  <2> QED BY <2>2, <2>3, <2>4
<1>3. CASE CloneTableEnds
  <2>1. /\ pc = "clone_table" /\ pt = 3 /\ pc' = "clone_dir" /\ pd' = pd + 1 /\ pd \in 0 .. 1
        /\ UNCHANGED <<table, data, root, who, new>>
    BY <1>3, Zenon DEF CloneTableEnds, frameVars, SpacesInv, Progress, CloningTable
  <2>2. \A i \in 0 .. 1, j \in Index : i < pd + 1 => Now(new, i, j) = Now(root[who], i, j)
    BY <2>1 DEF Copied
  <2> QED BY <2>1, <2>2 DEF Copied
<1>4. CASE HeapGrows
  BY <1>4 DEF HeapGrows, callVars, Copied
<1>5. CASE CreateDirectory("fork", "clone_dir")
  <2>1. pc' # "clone_table" /\ (pc' = "clone_dir" => pd' = 0)
    BY <1>5 DEF CreateDirectory, Return
  <2> QED BY <2>1 DEF Copied
<1>6. \/ CloneDirectoryEntry \/ CloneTableEntry \/ CloneTableEnds \/ HeapGrows
      \/ CreateDirectory("fork", "clone_dir")
      \/ pc' \notin {"clone_dir", "clone_table"}
  BY Zenon DEF Next, KernelStep, BootModule, BootEnds, SysFork, SysExec, SysExit, UserWrite,
         ForkSucceeds, ForkFailsLate, CreateDirectory, LoadPage, SetupStack, BuildFails,
         ExecCommits, DestroyTable, DestroyEnds, Return, Destroys
<1> QED BY <1>1, <1>2, <1>3, <1>4, <1>5, <1>6, Zenon DEF Copied

LEMMA CopiesHolds == SpacesInv /\ Copied /\ Next => CopiesStep
<1> SUFFICES ASSUME SpacesInv, Copied, Next, NEW p \in Procs, pc = "clone_dir",
                    root[p] = NoFrame, root'[p] # NoFrame,
                    NEW i \in 0 .. 1, NEW j \in Index
             PROVE  Seen(root'[p], i, j) = Seen(root[who], i, j)
  BY DEF CopiesStep
<1>1. ForkSucceeds
  BY Zenon DEF Next, KernelStep, BootModule, BootEnds, SysFork, SysExec, SysExit, UserWrite,
         HeapGrows, CreateDirectory, CloneDirectoryEntry, CloneTableEntry, CloneTableEnds,
         ForkFailsLate, LoadPage, SetupStack, BuildFails, ExecCommits, DestroyTable,
         DestroyEnds
<1>2. pd = 2 /\ root'[p] = new
  BY <1>1 DEF ForkSucceeds, Cloned, KERNEL_PD_INDEX, SpacesInv, TypeOK
<1>3. SeenIn(table, data, new, i, j) = SeenIn(table, data, root[who], i, j)
  BY <1>2 DEF Copied
<1>4. \A d : Seen(d, i, j) = SeenIn(table, data, d, i, j)
  BY Zenon DEF Seen, SeenIn
<1> QED BY <1>2, <1>3, <1>4

\* ForkCopies: clone_user_space gives the child what its parent sees, page by
\* page, for every number of frames and processes.
THEOREM ForkAlwaysCopies == Spec => ForkCopies
<1>1. Init => Copied
  BY DEF Init, Copied
<1>2. SpacesInv /\ SpacesInv' /\ Copied /\ [Next]_vars => Copied'
  <2>1. ASSUME Copied, UNCHANGED vars PROVE Copied'
    BY <2>1 DEF vars, frameVars, callVars, Copied
  <2> QED BY <2>1, CopiedStep
<1>3. SpacesInv /\ Copied /\ [Next]_vars => [CopiesStep]_vars
  BY CopiesHolds
<1> QED BY <1>1, <1>2, <1>3, SpacesInvariant, PTL DEF Spec, ForkCopies
=============================================================================
