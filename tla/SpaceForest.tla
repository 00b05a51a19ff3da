---------------------------- MODULE SpaceForest -----------------------------
(***************************************************************************)
(* The frames under all directories are a forest of three levels:          *)
(* directories, tables, pages.  The first part shows that the few ways in  *)
(* which the calls and the heap change it keep it one, for any forest and  *)
(* any number of frames; the second states the invariant of the address    *)
(* spaces; the third shows that the steps of fork, of exit and of the      *)
(* clean-up after failures keep it.  AddressSpacesProofs has the others.   *)
(***************************************************************************)
EXTENDS AddressSpaces, WellFoundedInduction, TLAPS

\* Leaves that name no prover go to the SMT solver, with time to spare.
USE SMTT(30)

-----------------------------------------------------------------------------
(* Forests: tb is the contents of the frames, D the directories *)

IsTable(tb, D, f) == f # Absent /\ \E d \in D, i \in 0 .. 1 : tb[d][i] = f

IsPage(tb, D, f) ==
  f # Absent /\ \E t \in Frames, j \in Index : IsTable(tb, D, t) /\ tb[t][j] = f

\* The entries lead to frames, and only directories have the kernel's entry.
Formed(tb, D) ==
  /\ tb \in [Frames -> Entries]
  /\ D \subseteq Frames
  /\ \A d \in D : tb[d][2] = KernelTable
  /\ \A d \in D, i \in 0 .. 1 : tb[d][i] # KernelTable
  /\ \A t \in Frames, j \in Index : IsTable(tb, D, t) => tb[t][j] # KernelTable

\* No frame hangs at two places.
Single(tb, D) ==
  /\ \A d, e \in D, i, k \in 0 .. 1 :
       tb[d][i] # Absent /\ tb[d][i] = tb[e][k] => d = e /\ i = k
  /\ \A t, u \in Frames, j, k \in Index :
       IsTable(tb, D, t) /\ IsTable(tb, D, u) /\ tb[t][j] # Absent /\ tb[t][j] = tb[u][k]
         => t = u /\ j = k

\* A frame has one use, and is allocated if it has one.
OneUse(tb, D, H, U) ==
  /\ H \subseteq Frames /\ U \subseteq Frames
  /\ \A f \in Frames :
       /\ f \in U <=> f \in H \/ f \in D \/ IsTable(tb, D, f) \/ IsPage(tb, D, f)
       /\ f \in H => f \notin D /\ ~ IsTable(tb, D, f) /\ ~ IsPage(tb, D, f)
       /\ f \in D => ~ IsTable(tb, D, f) /\ ~ IsPage(tb, D, f)
       /\ IsTable(tb, D, f) => ~ IsPage(tb, D, f)

Forest(tb, D, H, U) == Formed(tb, D) /\ Single(tb, D) /\ OneUse(tb, D, H, U)

\* The values in entries that are not frames.
LEMMA Special == /\ Absent \notin Frames /\ KernelTable \notin Frames
                 /\ NoFrame \notin Frames /\ Absent # KernelTable
                 /\ Absent # NoFrame
                 /\ Index = {0, 1, 2} /\ 0 .. 1 = {0, 1}
BY AddressSpacesAssumption DEF Absent, KernelTable, NoFrame, Frames, Index

EmptyDirectory == [NoEntries EXCEPT ![2] = KernelTable]

LEMMA EmptyTypes == /\ NoEntries \in Entries /\ EmptyDirectory \in Entries
                    /\ \A i \in Index : NoEntries[i] = Absent
                    /\ \A i \in 0 .. 1 : EmptyDirectory[i] = Absent
                    /\ EmptyDirectory[2] = KernelTable
BY Special DEF NoEntries, EmptyDirectory, Entries

\* A new directory.
LEMMA AddDirectory ==
  ASSUME NEW tb, NEW D, NEW H, NEW U, Forest(tb, D, H, U), NEW f \in Frames \ U
  PROVE  Forest([tb EXCEPT ![f] = EmptyDirectory], D \cup {f}, H, U \cup {f})
<1> DEFINE new1 == [tb EXCEPT ![f] = EmptyDirectory]
           E == D \cup {f}
<1> USE Special
<1>1. f \notin D /\ ~ IsTable(tb, D, f) /\ ~ IsPage(tb, D, f) /\ f \notin H
  BY DEF Forest, OneUse
<1>2. tb \in [Frames -> Entries] /\ new1 \in [Frames -> Entries]
  BY EmptyTypes DEF Forest, Formed
<1>3. /\ new1[f] = EmptyDirectory
      /\ \A g \in Frames \ {f} : new1[g] = tb[g]
  BY <1>2
<1>4. \A g \in Frames : IsTable(new1, E, g) <=> IsTable(tb, D, g)
  <2> HIDE DEF new1
  <2> QED BY <1>1, <1>3, EmptyTypes DEF IsTable, Forest, Formed
<1>5. \A g \in Frames : IsPage(new1, E, g) <=> IsPage(tb, D, g)
  <2> HIDE DEF new1
  <2> QED BY <1>1, <1>3, <1>4 DEF IsPage
<1>6. Formed(new1, E)
  <2> HIDE DEF new1
  <2> QED BY <1>1, <1>2, <1>3, <1>4, EmptyTypes DEF Forest, Formed
<1>7. Single(new1, E)
  <2> HIDE DEF new1
  <2>1. \A d, e \in E, i, k \in 0 .. 1 :
          new1[d][i] # Absent /\ new1[d][i] = new1[e][k] => d = e /\ i = k
    BY <1>1, <1>3, EmptyTypes DEF Forest, Single, Formed
  <2>2. \A t, u \in Frames, j, k \in Index :
          IsTable(new1, E, t) /\ IsTable(new1, E, u)
            /\ new1[t][j] # Absent /\ new1[t][j] = new1[u][k] => t = u /\ j = k
    BY <1>1, <1>3, <1>4 DEF Forest, Single
  <2> QED BY <2>1, <2>2, Zenon DEF Single
<1>8. OneUse(new1, E, H, U \cup {f})
  <2> HIDE DEF new1
  <2> QED BY <1>1, <1>4, <1>5 DEF Forest, OneUse
<1> QED BY <1>6, <1>7, <1>8 DEF Forest

\* A new, empty table f at entry i of directory n.
WithTable(tb, n, i, f) == [tb EXCEPT ![f] = NoEntries, ![n][i] = f]

LEMMA AddTable ==
  ASSUME NEW tb, NEW D, NEW H, NEW U, Forest(tb, D, H, U), NEW f \in Frames \ U,
         NEW n \in D, NEW i \in 0 .. 1, tb[n][i] = Absent
  PROVE  /\ Forest(WithTable(tb, n, i, f), D, H, U \cup {f})
         /\ IsTable(WithTable(tb, n, i, f), D, f)
<1> DEFINE new1 == [tb EXCEPT ![f] = NoEntries, ![n][i] = f]
<1> USE Special
<1>1. /\ f \notin D /\ ~ IsTable(tb, D, f) /\ ~ IsPage(tb, D, f) /\ f \notin H
      /\ n \in Frames /\ n # f /\ ~ IsTable(tb, D, n)
  BY DEF Forest, OneUse, Formed
<1>2. tb \in [Frames -> Entries] /\ new1 \in [Frames -> Entries]
  BY <1>1, EmptyTypes DEF Forest, Formed, Entries
<1>3. /\ new1[f] = NoEntries
      /\ new1[n][i] = f
      /\ \A k \in Index \ {i} : new1[n][k] = tb[n][k]
      /\ \A g \in Frames \ {f, n} : new1[g] = tb[g]
  BY <1>1, <1>2 DEF Entries
<1> HIDE DEF new1
<1>4. \A g \in Frames : IsTable(new1, D, g) <=> IsTable(tb, D, g) \/ g = f
  <2>1. ASSUME NEW g \in Frames, IsTable(new1, D, g) PROVE IsTable(tb, D, g) \/ g = f
    BY <1>1, <1>3, <2>1 DEF IsTable, Forest, Formed
  <2>2. ASSUME NEW g \in Frames, IsTable(tb, D, g) PROVE IsTable(new1, D, g)
    <3>1. PICK d \in D, k \in 0 .. 1 : tb[d][k] = g
      BY <2>2 DEF IsTable
    <3>2. new1[d][k] = g
      BY <1>1, <1>3, <3>1 DEF Forest, Formed
    <3> QED BY <3>2 DEF IsTable
  <2>3. IsTable(new1, D, f)
    BY <1>3 DEF IsTable
  <2> QED BY <2>1, <2>2, <2>3
<1>5. \A g \in Frames : IsPage(new1, D, g) <=> IsPage(tb, D, g)
  BY <1>1, <1>3, <1>4, EmptyTypes DEF IsPage
<1>6. Formed(new1, D)
  <2>1. \A d \in D : new1[d][2] = KernelTable
    BY <1>1, <1>3 DEF Forest, Formed
  <2>2. \A d \in D, k \in 0 .. 1 : new1[d][k] # KernelTable
    BY <1>1, <1>3 DEF Forest, Formed
  <2>3. \A t \in Frames, j \in Index : IsTable(new1, D, t) => new1[t][j] # KernelTable
    BY <1>1, <1>3, <1>4, EmptyTypes DEF Forest, Formed
  <2> QED BY <1>2, <2>1, <2>2, <2>3 DEF Forest, Formed
<1>7. Single(new1, D)
  <2>1. \A d, e \in D, k, l \in 0 .. 1 :
          new1[d][k] # Absent /\ new1[d][k] = new1[e][l] => d = e /\ k = l
    <3>1. \A d \in D, k \in 0 .. 1 :
            /\ tb[d][k] # f
            /\ new1[d][k] = IF d = n /\ k = i THEN f ELSE tb[d][k]
      BY <1>1, <1>3 DEF IsTable, Forest, Formed
    <3> QED BY <3>1 DEF Forest, Single
  <2>2. \A t, u \in Frames, j, k \in Index :
          IsTable(new1, D, t) /\ IsTable(new1, D, u)
            /\ new1[t][j] # Absent /\ new1[t][j] = new1[u][k] => t = u /\ j = k
    BY <1>1, <1>3, <1>4, EmptyTypes DEF Forest, Single
  <2> QED BY <2>1, <2>2 DEF Single
<1>8. OneUse(new1, D, H, U \cup {f})
  BY <1>1, <1>4, <1>5 DEF Forest, OneUse
<1>9. Forest(new1, D, H, U \cup {f}) /\ IsTable(new1, D, f)
  BY <1>4, <1>6, <1>7, <1>8 DEF Forest
<1> QED BY <1>9 DEF new1, WithTable

\* A new page f at entry i of table n.
WithPage(tb, n, i, f) == [tb EXCEPT ![n][i] = f]

LEMMA AddPage ==
  ASSUME NEW tb, NEW D, NEW H, NEW U, Forest(tb, D, H, U), NEW f \in Frames \ U,
         NEW n \in Frames, IsTable(tb, D, n), NEW i \in Index, tb[n][i] = Absent
  PROVE  Forest(WithPage(tb, n, i, f), D, H, U \cup {f})
<1> DEFINE new1 == [tb EXCEPT ![n][i] = f]
<1> USE Special
<1>1. /\ f \notin D /\ ~ IsTable(tb, D, f) /\ ~ IsPage(tb, D, f) /\ f \notin H
      /\ n # f /\ n \notin D
  BY DEF Forest, OneUse, Formed
<1>2. tb \in [Frames -> Entries] /\ new1 \in [Frames -> Entries]
  BY <1>1 DEF Forest, Formed, Entries
<1>3. /\ new1[n][i] = f
      /\ \A k \in Index \ {i} : new1[n][k] = tb[n][k]
      /\ \A g \in Frames \ {n} : new1[g] = tb[g]
      /\ D \subseteq Frames
  BY <1>2 DEF Entries, Forest, Formed
<1> HIDE DEF new1
<1>4. \A g : IsTable(new1, D, g) <=> IsTable(tb, D, g)
  BY <1>1, <1>3 DEF IsTable
<1>5. \A g \in Frames : IsPage(new1, D, g) <=> IsPage(tb, D, g) \/ g = f
  <2>1. ASSUME NEW g \in Frames, IsPage(new1, D, g) PROVE IsPage(tb, D, g) \/ g = f
    BY <1>3, <1>4, <2>1 DEF IsPage
  <2>2. ASSUME NEW g \in Frames, IsPage(tb, D, g) PROVE IsPage(new1, D, g)
    <3>1. PICK t \in Frames, k \in Index : IsTable(tb, D, t) /\ tb[t][k] = g
      BY <2>2 DEF IsPage
    <3>2. new1[t][k] = g
      BY <1>3, <3>1
    <3> QED BY <1>4, <3>1, <3>2 DEF IsPage
  <2>3. IsPage(new1, D, f)
    BY <1>3, <1>4 DEF IsPage
  <2> QED BY <2>1, <2>2, <2>3
<1>6. Formed(new1, D)
  BY <1>1, <1>2, <1>3, <1>4 DEF Forest, Formed
<1>7. Single(new1, D)
  <2>1. \A d, e \in D, k, l \in 0 .. 1 :
          new1[d][k] # Absent /\ new1[d][k] = new1[e][l] => d = e /\ k = l
    BY <1>1, <1>3 DEF Forest, Single
  <2>2. \A t, u \in Frames, j, k \in Index :
          IsTable(new1, D, t) /\ IsTable(new1, D, u)
            /\ new1[t][j] # Absent /\ new1[t][j] = new1[u][k] => t = u /\ j = k
    <3>1. \A t \in Frames, k \in Index : IsTable(tb, D, t) =>
            /\ tb[t][k] # f
            /\ new1[t][k] = IF t = n /\ k = i THEN f ELSE tb[t][k]
      BY <1>1, <1>3 DEF IsPage
    <3> QED BY <1>4, <3>1 DEF Forest, Single
  <2> QED BY <2>1, <2>2 DEF Single
<1>8. OneUse(new1, D, H, U \cup {f})
  BY <1>1, <1>4, <1>5 DEF Forest, OneUse
<1>9. Forest(new1, D, H, U \cup {f})
  BY <1>6, <1>7, <1>8 DEF Forest
<1> QED BY <1>9 DEF new1, WithPage

LEMMA GarbageEntries == ASSUME NEW f \in Frames PROVE Garbage \in Entries
BY AddressSpacesAssumption, Special DEF Garbage, Entries, Frames

\* The table at entry i of directory n, with the pages under it, and what is
\* left when they are gone.
Branch(tb, n, i) == {tb[n][i]} \cup ({tb[tb[n][i]][j] : j \in Index} \ {Absent})

Pruned(tb, n, i) ==
  [f \in Frames |-> IF f \in Branch(tb, n, i) THEN Garbage
                   ELSE [tb EXCEPT ![n][i] = Absent][f]]

LEMMA DropTable ==
  ASSUME NEW tb, NEW D, NEW H, NEW U, Forest(tb, D, H, U),
         NEW n \in D, NEW i \in 0 .. 1, tb[n][i] # Absent
  PROVE  /\ Branch(tb, n, i) \subseteq Frames /\ n \notin Branch(tb, n, i)
         /\ Forest(Pruned(tb, n, i), D, H, U \ Branch(tb, n, i))
<1> DEFINE S == Branch(tb, n, i)
           less == [tb EXCEPT ![n][i] = Absent]
           new1 == [f \in Frames |-> IF f \in S THEN Garbage ELSE less[f]]
           t == tb[n][i]
<1> USE Special
<1>1. n \in Frames /\ t \in Frames /\ IsTable(tb, D, t)
  BY DEF Forest, Formed, Entries, IsTable
<1>2. \A f : f \in S <=> f = t \/ (f # Absent /\ \E j \in Index : tb[t][j] = f)
  BY DEF Branch
<1> HIDE DEF S
<1>3. \A f \in S : f # t => IsPage(tb, D, f) /\ f \in Frames
  <2> SUFFICES ASSUME NEW f \in S, f # t PROVE IsPage(tb, D, f) /\ f \in Frames
    OBVIOUS
  <2>1. PICK j \in Index : tb[t][j] = f /\ f # Absent
    BY <1>2
  <2>2. f \in Frames
    BY <1>1, <2>1 DEF Forest, Formed, Entries
  <2> QED BY <1>1, <2>1, <2>2 DEF IsPage
<1>4. S \subseteq Frames
  BY <1>1, <1>3
<1>5. \A d \in D : d \notin S
  BY <1>1, <1>3 DEF Forest, Formed, OneUse
<1>6. \A u \in Frames : IsTable(tb, D, u) /\ u # t => u \notin S
  BY <1>3 DEF Forest, OneUse
<1>7. tb \in [Frames -> Entries] /\ less \in [Frames -> Entries]
  BY <1>1 DEF Forest, Formed, Entries
<1>8. new1 \in [Frames -> Entries]
  BY <1>7, GarbageEntries
<1>9. /\ new1[n][i] = Absent
      /\ \A k \in Index \ {i} : new1[n][k] = tb[n][k]
      /\ \A g \in Frames \ {n} : g \notin S => new1[g] = tb[g]
  BY <1>1, <1>5, <1>7 DEF Entries
<1> HIDE DEF new1, less
<1>10. \A d \in D, k \in 0 .. 1 :
         new1[d][k] = IF d = n /\ k = i THEN Absent ELSE tb[d][k]
  BY <1>5, <1>9 DEF Forest, Formed
<1>11. \A g : IsTable(new1, D, g) <=> IsTable(tb, D, g) /\ g # t
  BY <1>10 DEF IsTable, Forest, Single
<1>12. \A u \in Frames : IsTable(new1, D, u) => new1[u] = tb[u]
  <2>1. \A u \in Frames : IsTable(tb, D, u) => u # n
    BY DEF Forest, OneUse
  <2> QED BY <1>6, <1>9, <1>11, <2>1
<1>13. \A g \in Frames : IsPage(new1, D, g) <=> IsPage(tb, D, g) /\ g \notin S
  <2>1. ASSUME NEW g \in Frames, IsPage(new1, D, g) PROVE IsPage(tb, D, g) /\ g \notin S
    <3>1. PICK u \in Frames, k \in Index : IsTable(new1, D, u) /\ new1[u][k] = g
      BY <2>1 DEF IsPage
    <3>2. IsTable(tb, D, u) /\ u # t /\ tb[u][k] = g
      BY <1>11, <1>12, <3>1
    <3>3. IsPage(tb, D, g)
      BY <2>1, <3>2 DEF IsPage
    <3>4. g # t
      BY <1>1, <3>3 DEF Forest, OneUse
    <3>5. \A j \in Index : tb[t][j] # g
      BY <1>1, <2>1, <3>2 DEF Forest, Single, IsPage
    <3> QED BY <1>2, <3>3, <3>4, <3>5
  <2>2. ASSUME NEW g \in Frames, IsPage(tb, D, g), g \notin S PROVE IsPage(new1, D, g)
    <3>1. PICK u \in Frames, k \in Index : IsTable(tb, D, u) /\ tb[u][k] = g
      BY <2>2 DEF IsPage
    <3>2. u # t
      BY <1>2, <2>2, <3>1 DEF IsPage
    <3> QED BY <1>11, <1>12, <2>2, <3>1, <3>2 DEF IsPage
  <2> QED BY <2>1, <2>2
<1>14. Formed(new1, D)
  <2>1. \A d \in D : new1[d][2] = KernelTable
    BY <1>5, <1>9 DEF Forest, Formed
  <2>2. \A d \in D, k \in 0 .. 1 : new1[d][k] # KernelTable
    BY <1>10 DEF Forest, Formed
  <2>3. \A u \in Frames, j \in Index : IsTable(new1, D, u) => new1[u][j] # KernelTable
    BY <1>11, <1>12 DEF Forest, Formed
  <2> QED BY <1>8, <2>1, <2>2, <2>3 DEF Forest, Formed
<1>15. Single(new1, D)
  BY <1>10, <1>11, <1>12 DEF Forest, Single
<1>16. OneUse(new1, D, H, U \ S)
  <2>1. \A f \in S : f \notin H /\ f \notin D
    BY <1>1, <1>3, <1>4, <1>5 DEF Forest, OneUse
  <2>2. \A f \in Frames : f \in S => f = t \/ IsPage(tb, D, f)
    BY <1>3
  <2>3. t \in S
    BY <1>2
  <2>4. \A f \in Frames : f \in U \ S
          <=> f \in H \/ f \in D \/ IsTable(new1, D, f) \/ IsPage(new1, D, f)
    BY <1>6, <1>11, <1>13, <2>1, <2>2, <2>3 DEF Forest, OneUse
  <2> QED BY <1>11, <1>13, <2>4 DEF Forest, OneUse
<1>17. Forest(new1, D, H, U \ S)
  BY <1>14, <1>15, <1>16 DEF Forest
<1> QED BY <1>4, <1>5, <1>17 DEF new1, less, S, Pruned

\* A directory without tables goes.
LEMMA DropDirectory ==
  ASSUME NEW tb, NEW D, NEW H, NEW U, Forest(tb, D, H, U),
         NEW n \in D, \A i \in 0 .. 1 : tb[n][i] = Absent
  PROVE  Forest([f \in Frames |-> IF f \in {n} THEN Garbage ELSE tb[f]],
                D \ {n}, H, U \ {n})
<1> DEFINE new1 == [f \in Frames |-> IF f \in {n} THEN Garbage ELSE tb[f]]
           E == D \ {n}
<1> USE Special
<1>1. n \in Frames /\ ~ IsTable(tb, D, n) /\ ~ IsPage(tb, D, n) /\ n \notin H
  BY DEF Forest, Formed, OneUse
<1>2. new1 \in [Frames -> Entries] /\ \A g \in Frames \ {n} : new1[g] = tb[g]
  BY GarbageEntries DEF Forest, Formed
<1> HIDE DEF new1
<1>3. \A g : IsTable(new1, E, g) <=> IsTable(tb, D, g)
  BY <1>2 DEF IsTable, Forest, Formed
<1>4. \A g \in Frames : IsPage(new1, E, g) <=> IsPage(tb, D, g)
  BY <1>1, <1>2, <1>3, Zenon DEF IsPage
<1>5. Formed(new1, E)
  BY <1>1, <1>2, <1>3 DEF Forest, Formed
<1>6. Single(new1, E)
  <2>1. \A d, e \in E, k, l \in 0 .. 1 :
          new1[d][k] # Absent /\ new1[d][k] = new1[e][l] => d = e /\ k = l
    BY <1>2 DEF Forest, Single, Formed
  <2>2. \A t, u \in Frames, j, k \in Index :
          IsTable(new1, E, t) /\ IsTable(new1, E, u)
            /\ new1[t][j] # Absent /\ new1[t][j] = new1[u][k] => t = u /\ j = k
    BY <1>1, <1>2, <1>3 DEF Forest, Single
  <2> QED BY <2>1, <2>2, Zenon DEF Single
<1>7. OneUse(new1, E, H, U \ {n})
  BY <1>1, <1>3, <1>4 DEF Forest, OneUse
<1>8. Forest(new1, E, H, U \ {n})
  BY <1>5, <1>6, <1>7 DEF Forest
<1> QED BY <1>8 DEF new1

\* The heap takes a frame.
LEMMA AddHeap ==
  ASSUME NEW tb, NEW D, NEW H, NEW U, Forest(tb, D, H, U), NEW f \in Frames \ U
  PROVE  Forest(tb, D, H \cup {f}, U \cup {f})
BY DEF Forest, OneUse

\* The image of a boot module: a directory with a table of two pages and a
\* table of one.
Planted(tb, dir, tab, page1, page2, stab, spage) ==
  [tb EXCEPT ![dir] = [NoEntries EXCEPT ![0] = tab, ![StackDir] = stab,
                                        ![KERNEL_PD_INDEX] = KernelTable],
             ![tab] = [NoEntries EXCEPT ![0] = page1, ![1] = page2],
             ![stab] = [NoEntries EXCEPT ![StackPage] = spage]]

LEMMA AddImage ==
  ASSUME NEW tb, NEW D, NEW H, NEW U, Forest(tb, D, H, U),
         NEW dir \in Frames \ U, NEW tab \in Frames \ U, NEW page1 \in Frames \ U,
         NEW page2 \in Frames \ U, NEW stab \in Frames \ U, NEW spage \in Frames \ U,
         tab # dir, page1 \notin {dir, tab}, page2 \notin {dir, tab, page1},
         stab \notin {dir, tab, page1, page2},
         spage \notin {dir, tab, page1, page2, stab}
  PROVE  Forest(Planted(tb, dir, tab, page1, page2, stab, spage), D \cup {dir}, H,
                U \cup {dir, tab, page1, page2, stab, spage})
<1> USE Special
<1>0. \A x, X, V : Forest(x, X, H, V) => x \in [Frames -> Entries]
  BY DEF Forest, Formed
<1> DEFINE others == Frames \ {dir, tab, stab}
           E == D \cup {dir}
           tb1 == [tb EXCEPT ![dir] = EmptyDirectory]
           tb2 == WithTable(tb1, dir, 0, tab)
           tb3 == WithPage(tb2, tab, 0, page1)
           tb4 == WithPage(tb3, tab, 1, page2)
           tb5 == WithTable(tb4, dir, 1, stab)
           tb6 == WithPage(tb5, stab, 2, spage)
           U1 == U \cup {dir}
           U2 == U1 \cup {tab}
           U3 == U2 \cup {page1}
           U4 == U3 \cup {page2}
           U5 == U4 \cup {stab}
           U6 == U5 \cup {spage}
<1>1. Forest(tb1, E, H, U1)
  BY AddDirectory
<1>2. tb1[dir] = EmptyDirectory /\ \A f \in others : tb1[f] = tb[f]
  BY DEF Forest, Formed
<1> HIDE DEF tb1
<1>3. Forest(tb2, E, H, U2) /\ IsTable(tb2, E, tab)
  <2>1. tab \in Frames \ U1 /\ dir \in E /\ tb1[dir][0] = Absent /\ 0 \in 0 .. 1
    BY <1>2, EmptyTypes
  <2> HIDE DEF E, U1
  <2> QED BY <1>1, <2>1, AddTable, Zenon
<1>4. /\ tb2[dir] = [EmptyDirectory EXCEPT ![0] = tab] /\ tb2[tab] = NoEntries
      /\ \A f \in others : tb2[f] = tb[f]
  <2>1. tb1 \in [Frames -> Entries]
    BY <1>0, <1>1
  <2> QED BY <1>2, <2>1 DEF WithTable
<1> HIDE DEF tb2
<1>5. Forest(tb3, E, H, U3)
  <2>1. page1 \in Frames \ U2 /\ tb2[tab][0] = Absent /\ 0 \in Index
    BY <1>4, EmptyTypes
  <2> HIDE DEF E, U2
  <2> QED BY <1>3, <2>1, AddPage, Zenon
<1>6. /\ tb3[dir] = [EmptyDirectory EXCEPT ![0] = tab]
      /\ tb3[tab] = [NoEntries EXCEPT ![0] = page1]
      /\ \A f \in others : tb3[f] = tb[f]
  <2>1. tb2 \in [Frames -> Entries]
    BY <1>0, <1>3
  <2> QED BY <1>4, <2>1, Zenon DEF WithPage
<1> HIDE DEF tb3
<1>7. tb3[dir][0] = tab /\ tb3[tab][1] = Absent
  BY <1>6, EmptyTypes DEF Entries
<1>8. Forest(tb4, E, H, U4)
  <2>1. page2 \in Frames \ U3 /\ dir \in E /\ 1 \in Index
    OBVIOUS
  <2>2. IsTable(tb3, E, tab)
    BY <1>7 DEF IsTable
  <2> HIDE DEF E, U3
  <2> QED BY <1>5, <1>7, <2>1, <2>2, AddPage, Zenon
<1>9. /\ tb4[dir] = [EmptyDirectory EXCEPT ![0] = tab]
      /\ tb4[tab] = [NoEntries EXCEPT ![0] = page1, ![1] = page2]
      /\ \A f \in others : tb4[f] = tb[f]
  <2>1. tb3 \in [Frames -> Entries]
    BY <1>0, <1>5
  <2> QED BY <1>6, <2>1, Zenon DEF WithPage
<1> HIDE DEF tb4
<1>10. Forest(tb5, E, H, U5) /\ IsTable(tb5, E, stab)
  <2>1. stab \in Frames \ U4 /\ dir \in E /\ tb4[dir][1] = Absent /\ 1 \in 0 .. 1
    BY <1>9, EmptyTypes DEF Entries
  <2> HIDE DEF E, U4
  <2> QED BY <1>8, <2>1, AddTable, Zenon
<1>11. /\ tb5[dir] = [EmptyDirectory EXCEPT ![0] = tab, ![1] = stab]
       /\ tb5[tab] = [NoEntries EXCEPT ![0] = page1, ![1] = page2]
       /\ tb5[stab] = NoEntries
       /\ \A f \in others : tb5[f] = tb[f]
  <2>1. tb4 \in [Frames -> Entries]
    BY <1>0, <1>8
  <2> QED BY <1>9, <2>1, Zenon DEF WithTable
<1> HIDE DEF tb5
<1>12. Forest(tb6, E, H, U6)
  <2>1. spage \in Frames \ U5 /\ tb5[stab][2] = Absent /\ 2 \in Index
    BY <1>11, EmptyTypes
  <2> HIDE DEF E, U5
  <2> QED BY <1>10, <2>1, AddPage, Zenon
<1>13. /\ tb6[dir] = [EmptyDirectory EXCEPT ![0] = tab, ![1] = stab]
       /\ tb6[tab] = [NoEntries EXCEPT ![0] = page1, ![1] = page2]
       /\ tb6[stab] = [NoEntries EXCEPT ![2] = spage]
       /\ \A f \in others : tb6[f] = tb[f]
  <2>1. tb5 \in [Frames -> Entries]
    BY <1>0, <1>10
  <2> QED BY <1>11, <2>1, Zenon DEF WithPage
<1>14. tb6 = Planted(tb, dir, tab, page1, page2, stab, spage)
  <2> DEFINE pl == Planted(tb, dir, tab, page1, page2, stab, spage)
  <2>1. tb6 \in [Frames -> Entries] /\ tb \in [Frames -> Entries]
    BY <1>0, <1>12
  <2>2. /\ pl[dir] = [NoEntries EXCEPT ![0] = tab, ![1] = stab, ![2] = KernelTable]
        /\ pl[tab] = [NoEntries EXCEPT ![0] = page1, ![1] = page2]
        /\ pl[stab] = [NoEntries EXCEPT ![2] = spage]
        /\ \A f \in others : pl[f] = tb[f]
        /\ DOMAIN pl = Frames /\ pl = [f \in Frames |-> pl[f]]
    BY <2>1, Zenon DEF Planted, StackDir, StackPage, KERNEL_PD_INDEX
  <2>3. [NoEntries EXCEPT ![0] = tab, ![1] = stab, ![2] = KernelTable]
          = [EmptyDirectory EXCEPT ![0] = tab, ![1] = stab]
    <3> DEFINE l == [NoEntries EXCEPT ![0] = tab, ![1] = stab, ![2] = KernelTable]
               r == [EmptyDirectory EXCEPT ![0] = tab, ![1] = stab]
    <3>1. l \in Entries /\ r \in Entries
      BY EmptyTypes DEF Entries
    <3>2. \A i \in Index : l[i] = r[i]
      BY EmptyTypes DEF Entries
    <3> HIDE DEF l, r
    <3>3. l = r
      BY <3>1, <3>2 DEF Entries
    <3> QED BY <3>3 DEF l, r
  <2> HIDE DEF pl, tb6
  <2>4. \A f \in Frames : pl[f] = tb6[f]
    BY <1>13, <2>2, <2>3, Zenon
  <2>5. pl = tb6
    BY <2>1, <2>2, <2>4
  <2> QED BY <2>5 DEF pl
<1>15. U6 = U \cup {dir, tab, page1, page2, stab, spage}
  OBVIOUS
<1> QED BY <1>12, <1>14, <1>15

-----------------------------------------------------------------------------
(* The inductive invariant *)

Roots == {root[p] : p \in Live}

Building == {"clone_dir", "clone_table", "load", "stack", "commit"}

\* Whom the running call serves, and which directory it builds or destroys.
Call ==
  /\ \A p, q \in Live : p # q => root[p] # root[q]
  /\ pc \in Building => new \in Frames \ Roots
  /\ pc = "destroy" => old \in Frames \ Roots
  /\ pc \in {"fork", "clone_dir", "clone_table"} => who \in Live /\ child \in Procs \ Live
  /\ pc \in {"exec", "load", "stack", "commit"} => who \in Live

\* How far it has got: what its loops have still to fill is empty, and what
\* they have destroyed is gone.
CloningDir ==
  pd \in 0 .. 2 /\ \A i \in 0 .. 1 : i >= pd => table[new][i] = Absent

CloningTable ==
  /\ pd \in 0 .. 1
  /\ table[new][pd] # Absent /\ table[root[who]][pd] # Absent
  /\ \A i \in 0 .. 1 : i > pd => table[new][i] = Absent
  /\ \A j \in Index : j >= pt => table[table[new][pd]][j] = Absent

Loading ==
  /\ pt < pages
  /\ table[new][1] = Absent
  /\ table[new][0] # Absent =>
       \A j \in Index : j >= pt => table[table[new][0]][j] = Absent

Destroying == \A i \in 0 .. 1 : i < pd => table[old][i] = Absent

Progress ==
  /\ pc = "clone_dir" => CloningDir
  /\ pc = "clone_table" => CloningTable
  /\ pc = "load" => Loading
  /\ pc = "stack" => table[new][1] = Absent
  /\ pc = "destroy" => Destroying

SpacesInv ==
  TypeOK /\ Forest(table, Directories, heap, used) /\ Call /\ Progress

-----------------------------------------------------------------------------
(* Every action preserves it *)

\* pfa_alloc returns a frame that is free and was not taken before.
LEMMA AllocatorGives ==
  ASSUME NEW taken, FreeFrames \ taken # {}
  PROVE  FreeBut(taken) \in (Frames \ used) \ taken
<1> DEFINE S == FreeFrames \ taken
<1>1. S # {} /\ S \subseteq Nat /\ FreeBut(taken) = Min(S)
  BY AddressSpacesAssumption DEF FreeBut, FreeFrames, Frames
<1>2. PICK x \in S : \A y \in S : ~ (<<y, x>> \in OpToRel(<, Nat))
  <2> HIDE DEF S
  <2> QED BY <1>1, NatLessThanWellFounded, WFMin, Zenon
<1>3. \A y \in S : x =< y
  <2> SUFFICES ASSUME NEW y \in S PROVE x =< y
    OBVIOUS
  <2>1. x \in Nat /\ y \in Nat
    BY <1>1
  <2>2. ~ (y < x)
    BY <1>2, <2>1, Zenon DEF OpToRel
  <2> QED BY <2>1, <2>2
<1>4. Min(S) \in S
  BY <1>3 DEF Min
<1> QED BY <1>1, <1>4 DEF FreeFrames

LEMMA FirstIsFree == FirstFree # NoFrame => FirstFree \in Frames \ used
BY AllocatorGives, Zenon DEF FirstFree, FreeBut

LEMMA SecondIsFree ==
  SecondFree # NoFrame => SecondFree \in Frames \ used /\ SecondFree # FirstFree
BY AllocatorGives, Zenon DEF SecondFree, FreeBut

\* Directories, from the roots and the call.
LEMMA DirectoriesAre == Directories = Roots \cup Pending
BY DEF Directories, Roots

LEMMA InitInv == Init => SpacesInv
<1> SUFFICES ASSUME Init PROVE SpacesInv
  OBVIOUS
<1> USE Special, AddressSpacesAssumption DEF Init
<1>1. table \in [Frames -> Entries]
  BY GarbageEntries
<1>2. TypeOK
  BY <1>1 DEF TypeOK
<1>3. Directories = {}
  BY DEF Directories, Live, Pending
<1>4. Forest(table, {}, heap, used)
  BY <1>1 DEF Forest, Formed, Single, OneUse, IsTable, IsPage
<1>5. Call /\ Progress
  BY DEF Call, Progress, Building, Live
<1> QED BY <1>2, <1>3, <1>4, <1>5 DEF SpacesInv

\* Where nothing but data changes.
LEMMA StutterInv == SpacesInv /\ UNCHANGED vars => SpacesInv'
<1> SUFFICES ASSUME SpacesInv, UNCHANGED vars PROVE SpacesInv'
  OBVIOUS
<1> USE DEF vars, frameVars, callVars
<1>1. TypeOK'
  BY DEF SpacesInv, TypeOK
<1>2. Directories' = Directories
  BY DEF Directories, Live, Pending
<1>3. Forest(table, Directories, heap, used)'
  BY <1>2 DEF SpacesInv
<1>4. Call'
  BY DEF SpacesInv, Call, Building, Live, Roots
<1>5. Progress'
  BY DEF SpacesInv, Progress, CloningDir, CloningTable, Loading, Destroying
<1> QED BY <1>1, <1>3, <1>4, <1>5 DEF SpacesInv

\* What a forest says about the types of its parts.
LEMMA ForestTypes ==
  ASSUME NEW tb, NEW D, NEW H, NEW U, Forest(tb, D, H, U)
  PROVE  /\ tb \in [Frames -> Entries] /\ D \subseteq Frames
         /\ H \subseteq Frames /\ U \subseteq Frames
         /\ Single(tb, D) /\ OneUse(tb, D, H, U)
BY DEF Forest, Formed, OneUse

\* Steps that leave the frames alone and pass the directories around.
LEMMA SameForest ==
  ASSUME SpacesInv, UNCHANGED <<used, table, heap>>, Directories' = Directories
  PROVE  Forest(table, Directories, heap, used)'
BY DEF SpacesInv, Forest, Formed, Single, OneUse, IsTable, IsPage

LEMMA BootEndsInv == SpacesInv /\ BootEnds => SpacesInv'
<1> SUFFICES ASSUME SpacesInv, BootEnds PROVE SpacesInv'
  OBVIOUS
<1> USE DEF BootEnds, frameVars, callVars
<1>1. Directories' = Directories
  BY DEF Directories, Live, Pending
<1>2. TypeOK'
  BY DEF SpacesInv, TypeOK
<1>3. Call' /\ Progress'
  BY DEF SpacesInv, Call, Progress, Building, Live, Roots
<1> QED BY <1>1, <1>2, <1>3, SameForest DEF SpacesInv

LEMMA SysForkInv ==
  ASSUME SpacesInv, NEW p \in Procs, NEW c \in Procs, SysFork(p, c)
  PROVE  SpacesInv'
<1> USE DEF SysFork, frameVars
<1>1. Directories' = Directories
  BY DEF Directories, Live, Pending
<1>2. TypeOK'
  BY DEF SpacesInv, TypeOK
<1>3. Call' /\ Progress'
  BY DEF SpacesInv, Call, Progress, Building, Live, Roots
<1> QED BY <1>1, <1>2, <1>3, SameForest DEF SpacesInv

LEMMA SysExecInv ==
  ASSUME SpacesInv, NEW p \in Procs, NEW n \in 1 .. MaxPages, SysExec(p, n)
  PROVE  SpacesInv'
<1> USE DEF SysExec, frameVars
<1>1. Directories' = Directories
  BY DEF Directories, Live, Pending
<1>2. TypeOK'
  BY DEF SpacesInv, TypeOK
<1>3. Call' /\ Progress'
  BY DEF SpacesInv, Call, Progress, Building, Live, Roots
<1> QED BY <1>1, <1>2, <1>3, SameForest DEF SpacesInv

LEMMA SysExitInv ==
  ASSUME SpacesInv, NEW p \in Procs, SysExit(p)
  PROVE  SpacesInv'
<1> USE DEF SysExit, Destroys, frameVars
<1>1. p \in Live /\ root \in [Procs -> Frames \cup {NoFrame}]
  BY DEF SpacesInv, TypeOK, Live
<1>2. root[p] \in Frames
  BY <1>1 DEF Live
<1>3. Live' = Live \ {p} /\ \A q \in Live' : root'[q] = root[q]
  BY <1>1 DEF Live
<1>4. Roots' = Roots \ {root[p]}
  BY <1>1, <1>3 DEF Roots, SpacesInv, Call
<1>5. Directories' = Directories
  BY <1>1, <1>4, DirectoriesAre DEF Directories, Roots, Pending
<1>6. TypeOK'
  BY <1>2 DEF SpacesInv, TypeOK
<1>7. Call'
  BY <1>2, <1>3, <1>4 DEF SpacesInv, Call, Building
<1>8. Progress'
  BY DEF Progress, Destroying
<1> QED BY <1>5, <1>6, <1>7, <1>8, SameForest DEF SpacesInv

LEMMA CloneTableEndsInv == SpacesInv /\ CloneTableEnds => SpacesInv'
<1> SUFFICES ASSUME SpacesInv, CloneTableEnds PROVE SpacesInv'
  OBVIOUS
<1> USE DEF CloneTableEnds, frameVars
<1>1. Directories' = Directories
  BY DEF Directories, Live, Pending
<1>2. TypeOK'
  BY DEF SpacesInv, TypeOK, Progress, CloningTable
<1>3. Call'
  BY DEF SpacesInv, Call, Building, Live, Roots
<1>4. Progress'
  BY DEF SpacesInv, Progress, CloningDir, CloningTable
<1> QED BY <1>1, <1>2, <1>3, <1>4, SameForest DEF SpacesInv

LEMMA ForkSucceedsInv == SpacesInv /\ ForkSucceeds => SpacesInv'
<1> SUFFICES ASSUME SpacesInv, ForkSucceeds PROVE SpacesInv'
  OBVIOUS
<1> USE Special DEF ForkSucceeds, Cloned, Return, frameVars
<1>1. child \in Procs \ Live /\ new \in Frames \ Roots
  BY DEF SpacesInv, Call, Building
<1>2. root \in [Procs -> Frames \cup {NoFrame}]
  BY DEF SpacesInv, TypeOK
<1>3. /\ Live' = Live \cup {child} /\ root'[child] = new
      /\ \A q \in Live : root'[q] = root[q]
  BY <1>1, <1>2 DEF Live
<1>4. Roots' = Roots \cup {new}
  BY <1>3 DEF Roots
<1>5. Directories' = Directories
  BY <1>4 DEF Directories, Roots, Pending
<1>6. TypeOK'
  BY <1>1, AddressSpacesAssumption DEF SpacesInv, TypeOK
<1>7. Call' /\ Progress'
  BY <1>1, <1>3 DEF SpacesInv, Call, Progress, Building, Roots
<1> QED BY <1>5, <1>6, <1>7, SameForest DEF SpacesInv

LEMMA ForkFailsLateInv == SpacesInv /\ ForkFailsLate => SpacesInv'
<1> SUFFICES ASSUME SpacesInv, ForkFailsLate PROVE SpacesInv'
  OBVIOUS
<1> USE DEF ForkFailsLate, Cloned, Destroys, frameVars
<1>1. Directories' = Directories
  BY DEF Directories, Live, Pending
<1>2. TypeOK'
  BY DEF SpacesInv, TypeOK
<1>3. Call' /\ Progress'
  BY DEF SpacesInv, Call, Progress, Destroying, Building, Live, Roots
<1> QED BY <1>1, <1>2, <1>3, SameForest DEF SpacesInv

LEMMA BuildFailsInv == SpacesInv /\ BuildFails => SpacesInv'
<1> SUFFICES ASSUME SpacesInv, BuildFails PROVE SpacesInv'
  OBVIOUS
<1> USE DEF BuildFails, Destroys, frameVars
<1>1. Directories' = Directories
  BY DEF Directories, Live, Pending
<1>2. TypeOK'
  BY DEF SpacesInv, TypeOK
<1>3. Call' /\ Progress'
  BY DEF SpacesInv, Call, Progress, Destroying, Building, Live, Roots
<1> QED BY <1>1, <1>2, <1>3, SameForest DEF SpacesInv

LEMMA ExecCommitsInv == SpacesInv /\ ExecCommits => SpacesInv'
<1> SUFFICES ASSUME SpacesInv, ExecCommits PROVE SpacesInv'
  OBVIOUS
<1> USE Special DEF ExecCommits, Destroys, frameVars
<1>1. who \in Live /\ who \in Procs /\ new \in Frames \ Roots
  BY DEF SpacesInv, Call, Building, Live
<1>2. root \in [Procs -> Frames \cup {NoFrame}] /\ root[who] \in Frames
  BY <1>1 DEF SpacesInv, TypeOK, Live
<1>3. /\ Live' = Live /\ root'[who] = new
      /\ \A q \in Live \ {who} : root'[q] = root[q]
  BY <1>1, <1>2 DEF Live
<1>4. Roots' = (Roots \ {root[who]}) \cup {new}
  BY <1>1, <1>3 DEF Roots, SpacesInv, Call
<1>5. root[who] \in Roots
  BY <1>1 DEF Roots
<1>6. Directories' = Directories
  BY <1>4, <1>5 DEF Directories, Roots, Pending
<1>7. TypeOK'
  BY <1>1, <1>2 DEF SpacesInv, TypeOK
<1>8. Call' /\ Progress'
  BY <1>1, <1>2, <1>3, <1>4 DEF SpacesInv, Call, Progress, Destroying, Building, Roots
<1> QED BY <1>6, <1>7, <1>8, SameForest DEF SpacesInv

LEMMA UserWriteInv ==
  ASSUME SpacesInv, NEW p \in Procs, NEW v \in Contents, UserWrite(p, v)
  PROVE  SpacesInv'
<1> USE DEF UserWrite, callVars
<1>1. Directories' = Directories
  BY DEF Directories, Live, Pending
<1>2. TypeOK'
  BY ZenonT(30) DEF SpacesInv, TypeOK
<1>3. Call' /\ Progress'
  BY Zenon DEF SpacesInv, Call, Progress, Building, Live, Roots
<1> QED BY <1>1, <1>2, <1>3, SameForest DEF SpacesInv

LEMMA HeapGrowsInv == SpacesInv /\ HeapGrows => SpacesInv'
<1> SUFFICES ASSUME SpacesInv, HeapGrows PROVE SpacesInv'
  OBVIOUS
<1> USE DEF HeapGrows, callVars
<1>1. Directories' = Directories
  BY DEF Directories, Live, Pending
<1>2. FirstFree \in Frames \ used
  BY FirstIsFree
<1>3. Forest(table, Directories, heap, used)'
  BY <1>1, <1>2, AddHeap DEF SpacesInv
<1>4. TypeOK'
  BY <1>2 DEF SpacesInv, TypeOK
<1>5. Call'
  BY Zenon DEF SpacesInv, Call, Building, Live, Roots
<1>6. Progress'
  BY Zenon DEF SpacesInv, Progress, CloningDir, CloningTable, Loading, Destroying
<1> QED BY <1>3, <1>4, <1>5, <1>6 DEF SpacesInv

\* A directory that nothing hangs under yet, for fork or for exec.
LEMMA CreateDirectoryInv ==
  ASSUME SpacesInv, NEW from, NEW to, CreateDirectory(from, to),
         <<from, to>> \in {<<"fork", "clone_dir">>, <<"exec", "load">>}
  PROVE  SpacesInv'
<1> USE Special DEF CreateDirectory
<1>1. CASE FirstFree = NoFrame
  <2> USE <1>1 DEF Return
  <2>1. Directories' = Directories
    BY DEF Directories, Live, Pending
  <2>2. TypeOK'
    BY AddressSpacesAssumption DEF SpacesInv, TypeOK
  <2>3. Call' /\ Progress'
    BY Zenon DEF SpacesInv, Call, Progress, Building, Live, Roots
  <2> QED BY <2>1, <2>2, <2>3, SameForest DEF SpacesInv
<1>2. CASE FirstFree # NoFrame
  <2> USE <1>2
  <2>1. FirstFree \in Frames \ used
    BY FirstIsFree
  <2>2. Directories' = Directories \cup {FirstFree} /\ Roots \subseteq Directories
    BY DEF Directories, Live, Pending, Roots
  <2>3. table' = [table EXCEPT ![FirstFree] = EmptyDirectory]
    BY DEF EmptyDirectory, KERNEL_PD_INDEX
  <2>4. Forest(table, Directories, heap, used)'
    <3>1. Forest(table, Directories, heap, used)
      BY DEF SpacesInv
    <3>2. Forest([table EXCEPT ![FirstFree] = EmptyDirectory],
                 Directories \cup {FirstFree}, heap, used \cup {FirstFree})
      BY <2>1, <3>1, AddDirectory, Zenon
    <3>3. used' = used \cup {FirstFree} /\ heap' = heap
      OBVIOUS
    <3> QED BY <2>2, <2>3, <3>2, <3>3, Zenon
  <2>5. TypeOK'
    BY <2>1, <2>3, EmptyTypes DEF SpacesInv, TypeOK
  <2>6. FirstFree \notin Roots
    BY <2>1, <2>2 DEF SpacesInv, Forest, OneUse
  <2>7. Call'
    BY <2>1, <2>6, Zenon DEF SpacesInv, Call, Building, Live, Roots
  <2>8. \A i \in 0 .. 1 : table'[new'][i] = Absent
    BY <2>1, <2>3, EmptyTypes DEF SpacesInv, TypeOK
  <2>9. Progress'
    BY <2>8 DEF SpacesInv, TypeOK, Progress, CloningDir, Loading
  <2> QED BY <2>4, <2>5, <2>7, <2>9 DEF SpacesInv
<1> QED BY <1>1, <1>2

LEMMA DestroyTableInv == SpacesInv /\ DestroyTable => SpacesInv'
<1> SUFFICES ASSUME SpacesInv, DestroyTable PROVE SpacesInv'
  OBVIOUS
<1> USE Special DEF DestroyTable, KERNEL_PD_INDEX
<1>1. Directories' = Directories /\ old \in Directories
  BY DEF Directories, Live, Pending
<1>2. Call'
  BY DEF SpacesInv, Call, Building, Live, Roots
<1>3. pd \in 0 .. 2 /\ pd' \in 0 .. 3
  BY DEF SpacesInv, TypeOK
<1>4. CASE pd = 2 \/ table[old][pd] = Absent
  <2> USE <1>4 DEF frameVars
  <2>1. TypeOK'
    BY <1>3, Zenon DEF SpacesInv, TypeOK
  <2>2. Progress'
    BY <1>3 DEF SpacesInv, Progress, Destroying
  <2> QED BY <1>1, <1>2, <2>1, <2>2, SameForest DEF SpacesInv
<1>5. CASE ~ (pd = 2 \/ table[old][pd] = Absent)
  <2> DEFINE S == Branch(table, old, pd)
  <2>1. pd \in 0 .. 1 /\ table[old][pd] # Absent
    BY <1>3, <1>5
  <2>2. /\ used' = used \ S
        /\ data' = [f \in Frames |-> IF f \in S THEN Stale ELSE data[f]]
        /\ table' = Pruned(table, old, pd)
    BY <1>5, Zenon DEF Free, PagesOf, Branch, Pruned
  <2>3. /\ S \subseteq Frames /\ old \notin S
        /\ Forest(Pruned(table, old, pd), Directories, heap, used \ S)
    <3>1. Forest(table, Directories, heap, used)
      BY DEF SpacesInv
    <3> HIDE Special DEF DestroyTable, KERNEL_PD_INDEX
    <3> QED BY <1>1, <2>1, <3>1, DropTable, Zenon
  <2> HIDE DEF S
  <2>4. Forest(table, Directories, heap, used)'
    BY <1>1, <2>2, <2>3
  <2>5. TypeOK'
    BY <1>3, <2>2, <2>4, AddressSpacesAssumption, Zenon DEF SpacesInv, TypeOK, Forest, Formed
  <2>6. old \in Frames /\ table[old] \in Entries
    BY <1>1, Zenon DEF SpacesInv, TypeOK, Call
  <2>7. table'[old] = [table[old] EXCEPT ![pd] = Absent]
    BY <2>2, <2>3, <2>6, Zenon DEF SpacesInv, TypeOK, Pruned, S
  <2>8. \A i \in 0 .. 1 : i < pd + 1 => table'[old][i] = Absent
    BY <2>1, <2>6, <2>7 DEF SpacesInv, Progress, Destroying, Entries
  <2>9. Progress'
    BY <2>8 DEF Progress, Destroying
  <2> QED BY <1>2, <2>4, <2>5, <2>9 DEF SpacesInv
<1> QED BY <1>4, <1>5

LEMMA DestroyEndsInv == SpacesInv /\ DestroyEnds => SpacesInv'
<1> SUFFICES ASSUME SpacesInv, DestroyEnds PROVE SpacesInv'
  OBVIOUS
<1> USE DEF DestroyEnds, Free, Return
<1>1. old \in Directories /\ Directories' = Directories \ {old}
  BY Zenon DEF SpacesInv, Call, Directories, Live, Pending, Roots
<1>2. \A i \in 0 .. 1 : table[old][i] = Absent
  <2>1. pc = "destroy" /\ pd = 3
    BY Zenon
  <2> HIDE DEF DestroyEnds, Free, Return
  <2>2. Destroying
    BY <2>1 DEF SpacesInv, Progress
  <2> QED BY <2>1, <2>2 DEF Destroying
<1>3. Forest(table, Directories, heap, used)'
  BY <1>1, <1>2, DropDirectory DEF SpacesInv
<1>4. TypeOK'
  <2>1. used' \subseteq Frames /\ table' \in [Frames -> Entries] /\ heap' \subseteq Frames
    BY <1>3, ForestTypes, Zenon
  <2>2. data' \in [Frames -> Contents \cup {Stale}]
    BY AddressSpacesAssumption DEF SpacesInv, TypeOK
  <2> QED BY <2>1, <2>2, AddressSpacesAssumption DEF SpacesInv, TypeOK
<1>5. Call' /\ Progress'
  BY Zenon DEF SpacesInv, Call, Progress, Building, Live, Roots
<1> QED BY <1>3, <1>4, <1>5 DEF SpacesInv

\* A page or a table is no directory.
LEMMA Levels ==
  ASSUME SpacesInv, NEW d \in Directories, NEW i \in 0 .. 1, table[d][i] # Absent
  PROVE  /\ d \in Frames /\ table[d][i] \in Frames \ Directories
         /\ IsTable(table, Directories, table[d][i])
BY Special DEF SpacesInv, Forest, Formed, OneUse, IsTable, Entries

\* No two entries of directories name the same table.
LEMMA TablesOnce ==
  ASSUME SpacesInv, NEW d \in Directories, NEW e \in Directories, NEW i \in 0 .. 1,
         NEW k \in 0 .. 1, table[d][i] # Absent, table[d][i] = table[e][k]
  PROVE  d = e /\ i = k
<1>1. \A a, b \in Directories, m, n \in 0 .. 1 :
        table[a][m] # Absent /\ table[a][m] = table[b][n] => a = b /\ m = n
  BY Zenon DEF SpacesInv, Forest, Single
<1> QED BY <1>1

\* No two entries of tables name the same page.
LEMMA PagesOnce ==
  ASSUME SpacesInv, NEW t \in Frames, NEW u \in Frames, NEW j \in Index, NEW k \in Index,
         IsTable(table, Directories, t), IsTable(table, Directories, u),
         table[t][j] # Absent, table[t][j] = table[u][k]
  PROVE  t = u /\ j = k
BY Zenon DEF SpacesInv, Forest, Single

LEMMA CloneDirectoryEntryInv == SpacesInv /\ CloneDirectoryEntry => SpacesInv'
<1> SUFFICES ASSUME SpacesInv, CloneDirectoryEntry PROVE SpacesInv'
  OBVIOUS
<1> USE Special DEF CloneDirectoryEntry, KERNEL_PD_INDEX, Destroys
<1>1. Directories' = Directories /\ new \in Directories /\ root[who] \in Directories
  BY DEF Directories, Live, Pending, SpacesInv, Call
<1>2. /\ pd \in 0 .. 1 /\ new # root[who]
      /\ \A i \in 0 .. 1 : i >= pd => table[new][i] = Absent
  <2>1. pc = "clone_dir" /\ pd < 2
    OBVIOUS
  <2> HIDE DEF CloneDirectoryEntry, Destroys
  <2>2. CloningDir
    BY <2>1 DEF SpacesInv, Progress
  <2>3. new # root[who]
    BY <2>1 DEF SpacesInv, Call, Building, Roots
  <2> QED BY <2>1, <2>2, <2>3 DEF CloningDir
<1>3. Call'
  BY DEF SpacesInv, Call, Building, Live, Roots
<1>4. CASE /\ UNCHANGED <<used, table, pt>>
           /\ \/ pd' = pd + 1 /\ UNCHANGED pc
              \/ Destroys(new)
  <2>1. TypeOK'
    BY <1>2, <1>4 DEF SpacesInv, TypeOK
  <2>2. Progress'
    <3>1. CASE pd' = pd + 1 /\ UNCHANGED pc
      <4>1. CloningDir'
        BY <1>2, <1>4, <3>1 DEF CloningDir
      <4> QED BY <3>1, <4>1 DEF Progress
    <3>2. CASE Destroys(new)
      <4>1. Destroying'
        BY <3>2 DEF Destroying
      <4> QED BY <3>2, <4>1 DEF Progress
    <3> QED BY <1>4, <3>1, <3>2
  <2> QED BY <1>1, <1>3, <1>4, <2>1, <2>2, SameForest DEF SpacesInv
<1>5. CASE /\ table[root[who]][pd] # Absent
           /\ FirstFree # NoFrame
           /\ used' = used \cup {FirstFree}
           /\ table' = [table EXCEPT ![FirstFree] = NoEntries,
                                     ![new][pd] = FirstFree]
           /\ pc' = "clone_table"
           /\ pt' = 0
           /\ UNCHANGED <<old, pd>>
  <2>1. FirstFree \in Frames \ used
    BY <1>5, FirstIsFree
  <2>2. table' = WithTable(table, new, pd, FirstFree)
    BY <1>5 DEF WithTable
  <2>3. Forest(table', Directories, heap, used')
    <3>1. table[new][pd] = Absent /\ pd \in 0 .. 1
      BY <1>2
    <3>2. Forest(table, Directories, heap, used)
      BY DEF SpacesInv
    <3>3. Forest(WithTable(table, new, pd, FirstFree), Directories, heap,
                 used \cup {FirstFree})
      BY <1>1, <2>1, <3>1, <3>2, AddTable, Zenon
    <3> QED BY <1>5, <2>2, <3>3, Zenon
  <2>4. FirstFree \notin Directories /\ new \in Frames /\ root[who] \in Frames
    BY <1>1, <2>1, ZenonT(30) DEF SpacesInv, Forest, OneUse, Formed
  <2>5. TypeOK'
    <3>1. used' \subseteq Frames /\ table' \in [Frames -> Entries]
      BY <2>3, ForestTypes
    <3> QED BY <1>2, <1>5, <3>1 DEF SpacesInv, TypeOK
  <2>6. table \in [Frames -> Entries]
    BY DEF SpacesInv, TypeOK
  <2>7. /\ table'[FirstFree] = NoEntries
        /\ table'[new] = [table[new] EXCEPT ![pd] = FirstFree]
        /\ table'[root[who]] = table[root[who]]
    BY <1>1, <1>2, <1>5, <2>1, <2>4, <2>6
  <2>8. /\ table'[new][pd] = FirstFree
        /\ \A i \in 0 .. 1 : i > pd => table'[new][i] = Absent
    BY <1>2, <2>4, <2>6, <2>7 DEF Entries
  <2>9. Progress'
    <3>1. pc' = "clone_table" /\ pd' = pd /\ pt' = 0 /\ UNCHANGED <<new, root, who>>
      BY <1>5
    <3>2. table[root[who]][pd] # Absent /\ FirstFree # Absent
      BY <1>5, <2>1
    <3> HIDE DEF CloneDirectoryEntry, Destroys
    <3>3. \A j \in Index : table'[FirstFree][j] = Absent
      BY <2>7, EmptyTypes
    <3>4. CloningTable'
      BY <1>2, <2>7, <2>8, <3>1, <3>2, <3>3, ZenonT(30) DEF CloningTable
    <3> QED BY <3>1, <3>4 DEF Progress
  <2> QED BY <1>1, <1>3, <2>3, <2>5, <2>9 DEF SpacesInv
<1> QED BY <1>4, <1>5

LEMMA CloneTableEntryInv == SpacesInv /\ CloneTableEntry => SpacesInv'
<1> SUFFICES ASSUME SpacesInv, CloneTableEntry PROVE SpacesInv'
  OBVIOUS
<1> DEFINE t == table[new][pd]
<1> USE Special DEF CloneTableEntry
<1>1. Directories' = Directories /\ new \in Directories /\ root[who] \in Directories
  BY Zenon DEF Directories, Live, Pending, SpacesInv, Call, Destroys
<1>2. /\ pd \in 0 .. 1 /\ pt \in Index /\ pt + 1 \in 0 .. 3
      /\ t # Absent
      /\ \A j \in Index : j >= pt => table[t][j] = Absent
  <2>1. pc = "clone_table" /\ pt <= 2
    BY Zenon
  <2> HIDE DEF CloneTableEntry
  <2>2. CloningTable /\ pt \in 0 .. 3
    BY <2>1 DEF SpacesInv, Progress, TypeOK
  <2> QED BY <2>1, <2>2 DEF CloningTable
<1>3. Call'
  BY Zenon DEF SpacesInv, Call, Building, Live, Roots, Destroys
<1>4. CASE /\ UNCHANGED frameVars
           /\ \/ pt' = pt + 1 /\ UNCHANGED <<pc, old, pd>>
              \/ Destroys(new) /\ UNCHANGED pt
  <2>1. UNCHANGED <<root, heap, used, table, data, who, child, new, pages>> /\ pc = "clone_table"
    BY <1>4, Zenon DEF frameVars
  <2> HIDE DEF CloneTableEntry
  <2>2. CASE pt' = pt + 1 /\ UNCHANGED <<pc, old, pd>>
    <3>1. TypeOK'
      BY <1>2, <2>1, <2>2, Zenon DEF SpacesInv, TypeOK
    <3>2. CloningTable'
      <4>1. CloningTable
        BY <2>1 DEF SpacesInv, Progress
      <4> QED BY <1>2, <2>1, <2>2, <4>1 DEF CloningTable
    <3>3. Progress'
      BY <2>1, <2>2, <3>2 DEF Progress
    <3> QED BY <1>1, <1>3, <2>1, <3>1, <3>3, SameForest DEF SpacesInv
  <2>3. CASE Destroys(new) /\ UNCHANGED pt
    <3>1. TypeOK'
      BY <2>1, <2>3 DEF SpacesInv, TypeOK, Destroys
    <3>2. Progress'
      BY <2>3 DEF Destroys, Destroying, Progress
    <3> QED BY <1>1, <1>3, <2>1, <3>1, <3>2, SameForest DEF SpacesInv
  <2> QED BY <1>4, <2>2, <2>3
<1>5. ASSUME NEW source, source = table[table[root[who]][pd]][pt],
             source # Absent, FirstFree # NoFrame, ClonePage(source),
             pt' = pt + 1, UNCHANGED <<pc, old, pd>>
      PROVE  SpacesInv'
  <2> USE <1>5 DEF ClonePage
  <2>1. FirstFree \in Frames \ used
    BY FirstIsFree, Zenon
  <2>2. /\ t \in Frames \ Directories /\ IsTable(table, Directories, t)
        /\ new \in Frames /\ root[who] \in Frames
    BY <1>1, <1>2, Levels, Zenon DEF SpacesInv, Forest, Formed
  <2>3. table' = WithPage(table, t, pt, FirstFree)
    BY Zenon DEF WithPage
  <2>4. Forest(table', Directories, heap, used')
    <3> HIDE DEF CloneTableEntry, ClonePage
    <3>1. table[t][pt] = Absent /\ pt \in Index
      <4> HIDE DEF t
      <4> QED BY <1>2
    <3>2. Forest(table, Directories, heap, used)
      BY Zenon DEF SpacesInv
    <3>3. Forest(WithPage(table, t, pt, FirstFree), Directories, heap,
                 used \cup {FirstFree})
      <4> HIDE Special, <1>5 DEF t
      <4>1. t \in Frames /\ FirstFree \in Frames \ used
        BY <2>1, <2>2
      <4> QED BY <2>2, <3>1, <3>2, <4>1, AddPage, Zenon
    <3> QED BY <2>3, <3>3, Zenon DEF CloneTableEntry, ClonePage
  <2>5. table \in [Frames -> Entries]
    BY Zenon DEF SpacesInv, TypeOK
  <2>6. /\ table'[new] = table[new] /\ table'[root[who]] = table[root[who]]
        /\ \A j \in Index : j >= pt + 1 => table'[t][j] = Absent
    <3>1. table' = [table EXCEPT ![t][pt] = FirstFree]
      BY Zenon
    <3>2. table'[t] = [table[t] EXCEPT ![pt] = FirstFree]
      BY <2>2, <2>5, <3>1, Zenon
    <3> HIDE DEF CloneTableEntry, ClonePage, t
    <3>3. table'[new] = table[new] /\ table'[root[who]] = table[root[who]]
      BY <1>1, <2>2, <2>5, <3>1, Zenon
    <3>4. \A j \in Index : j >= pt + 1 => table'[t][j] = Absent
      <4>1. table[t] \in [Index -> Frames \cup {Absent, KernelTable}]
        BY <2>2, <2>5, Zenon DEF Entries
      <4> QED BY <1>2, <3>2, <4>1
    <3> QED BY <3>3, <3>4, Zenon
  <2>7. Progress'
    <3>1. UNCHANGED <<pc, pd, new, root, who>> /\ pc = "clone_table" /\ pt' = pt + 1
      BY Zenon
    <3> HIDE DEF CloneTableEntry, ClonePage
    <3>2. CloningTable
      BY <3>1, Zenon DEF SpacesInv, Progress
    <3>3. CloningTable'
      BY <2>6, <3>1, <3>2, Zenon DEF CloningTable
    <3> QED BY <3>1, <3>3, Zenon DEF Progress
  <2>8. data' \in [Frames -> Contents \cup {Stale}]
    <3>1. table[root[who]][pd] \in Frames /\ IsTable(table, Directories, table[root[who]][pd])
      BY <1>1, <1>2, Levels, Zenon DEF SpacesInv, Progress, CloningTable
    <3>2. source \in Frames
      <4> HIDE DEF CloneTableEntry, ClonePage
      <4>1. table[table[root[who]][pd]][pt] \in Frames \cup {Absent, KernelTable}
        BY <1>2, <2>5, <3>1, Zenon DEF Entries
      <4>2. table[table[root[who]][pd]][pt] # KernelTable
        BY <1>2, <3>1, Zenon DEF SpacesInv, Forest, Formed
      <4> QED BY <4>1, <4>2, Zenon
    <3> QED BY <2>1, <3>2, Zenon DEF SpacesInv, TypeOK
  <2>9. TypeOK'
    <3>1. used' \subseteq Frames /\ table' \in [Frames -> Entries]
      <4> HIDE DEF CloneTableEntry, ClonePage, t
      <4> QED BY <2>4, ForestTypes, Zenon
    <3> QED BY <1>2, <2>8, <3>1, Zenon DEF SpacesInv, TypeOK
  <2> QED BY <1>1, <1>3, <2>4, <2>7, <2>9, Zenon DEF SpacesInv
<1> QED BY <1>4, <1>5, Zenon

\* map_user_page adds a page and, where it is missing, the table for it.
PageAdded(d, i) ==
  \E t \in Frames :
    /\ table'[new] = [table[new] EXCEPT ![d] = t]
    /\ \A j \in Index : j # i /\ table'[t][j] # Absent
         => table[new][d] = t /\ table[t][j] # Absent
=============================================================================
