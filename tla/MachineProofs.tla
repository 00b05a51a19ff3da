---------------------------- MODULE MachineProofs ----------------------------
(***************************************************************************)
(* The kernel and the machine it is started on.                            *)
(*                                                                         *)
(* BootMemory, for every page size, memory size and list of modules: the   *)
(* memory of the kernel and of the modules is never handed out.  The pages *)
(* that kmain reserves are found by counting from the start of a module in *)
(* steps of a page; the lemmas show that this meets every page on which    *)
(* the module has a byte, because GRUB starts modules on pages.            *)
(*                                                                         *)
(* Devices, for all messages and any number of them: no character that the *)
(* kernel logs is lost or doubled, the controller has in service exactly   *)
(* the interrupt whose handler has not acknowledged it yet, and the cursor *)
(* shows where the next key will appear.                                   *)
(***************************************************************************)
EXTENDS BootMemory, Devices, SequenceTheorems, WellFoundedInduction, TLAPS

\* Leaves that name no prover go to the SMT solver, with time to spare.
USE SMTT(30)

-----------------------------------------------------------------------------
(* BootMemory: counting in pages *)

LEMMA MinIs ==
  ASSUME NEW S, S # {}, S \subseteq Nat
  PROVE  Min(S) \in S /\ \A y \in S : Min(S) <= y
<1>1. PICK x \in S : \A y \in S : ~ (<<y, x>> \in OpToRel(<, Nat))
  BY NatLessThanWellFounded, WFMin, Zenon
<1>2. ASSUME NEW y \in S PROVE x =< y
  <2>1. x \in Nat /\ y \in Nat /\ ~ (y < x)
    BY <1>1, Zenon DEF OpToRel
  <2> QED
    BY <2>1
<1> QED
  BY <1>2, Zenon DEF Min

\* A multiple of the page size divides without remainder.
LEMMA Multiples ==
  ASSUME NEW k \in Nat
  PROVE  /\ k * PAGE_SIZE \in Nat
         /\ (k * PAGE_SIZE) % PAGE_SIZE = 0
         /\ (k * PAGE_SIZE) \div PAGE_SIZE = k
BY BootMemoryAssumption

\* Quotient and remainder by the page size.
LEMMA Division ==
  ASSUME NEW a \in Nat
  PROVE  /\ a \div PAGE_SIZE \in Nat
         /\ a % PAGE_SIZE \in 0 .. PAGE_SIZE - 1
         /\ a = ((a \div PAGE_SIZE) * PAGE_SIZE) + (a % PAGE_SIZE)
BY BootMemoryAssumption

\* PageUp rounds up, to a page.
LEMMA PageUpIs ==
  ASSUME NEW a \in Nat
  PROVE  /\ PageUp(a) \in Nat
         /\ PageUp(a) >= a
         /\ (PageUp(a) \div PAGE_SIZE) * PAGE_SIZE = PageUp(a)
<1> DEFINE b == a + PAGE_SIZE - 1
           q == b \div PAGE_SIZE
<1>1. b \in Nat
  BY BootMemoryAssumption
<1>2. q \in Nat /\ b % PAGE_SIZE \in 0 .. PAGE_SIZE - 1
        /\ b = (q * PAGE_SIZE) + (b % PAGE_SIZE)
  BY <1>1, Division
<1>3. PageUp(a) = q * PAGE_SIZE
  BY DEF PageUp
<1>4. q * PAGE_SIZE \in Nat /\ (q * PAGE_SIZE) \div PAGE_SIZE = q
  BY <1>2, Multiples
<1>5. q * PAGE_SIZE >= a
  <2> DEFINE x == q * PAGE_SIZE
             r == b % PAGE_SIZE
  <2>1. x \in Nat /\ r \in 0 .. PAGE_SIZE - 1 /\ b = x + r
    BY <1>2, <1>4
  <2>2. b = a + PAGE_SIZE - 1
    OBVIOUS
  <2> HIDE DEF x, r, b
  <2>3. x >= a
    BY <2>1, <2>2, BootMemoryAssumption
  <2> QED
    BY <2>3 DEF x
<1> QED
  BY <1>3, <1>4, <1>5

\* Multiplication keeps the order.
LEMMA TimesGrows ==
  ASSUME NEW x \in Nat, NEW y \in Nat, x <= y, NEW c \in Nat
  PROVE  x * c <= y * c
<1>1. PICK d \in Nat : y = x + d
  <2>1. y - x \in Nat /\ y = x + (y - x)
    OBVIOUS
  <2> QED BY <2>1
<1>2. (x + d) * c = (x * c) + (d * c)
  OBVIOUS
<1>3. x * c \in Nat /\ d * c \in Nat
  OBVIOUS
<1> QED
  BY <1>1, <1>2, <1>3

\* A page on which a module has a byte is among those reserved for it.
LEMMA ReservedCovers ==
  ASSUME NEW m, m.start \in Nat, m.end \in Nat, m.start % PAGE_SIZE = 0,
         NEW f \in Nat, NEW b \in BytesOf(f), b \in m.start .. m.end - 1
  PROVE  f \in Reserved(m)
<1> DEFINE k == m.start \div PAGE_SIZE
           a == f * PAGE_SIZE
<1>1. k \in Nat /\ m.start = k * PAGE_SIZE
  <2> DEFINE s == m.start
  <2>1. s \in Nat /\ s % PAGE_SIZE = 0
    OBVIOUS
  <2> HIDE DEF s
  <2>2. s \div PAGE_SIZE \in Nat /\ s = (s \div PAGE_SIZE) * PAGE_SIZE
    BY <2>1, BootMemoryAssumption
  <2> QED
    BY <2>2 DEF s
<1>2. a \in Nat /\ a \div PAGE_SIZE = f
  BY Multiples
<1>3. b \in Nat /\ a <= b /\ b < a + PAGE_SIZE
  BY <1>2, BootMemoryAssumption DEF BytesOf
<1>4. k <= f
  <2> SUFFICES ASSUME f + 1 <= k PROVE FALSE
    BY <1>1
  <2>1. (f + 1) * PAGE_SIZE <= k * PAGE_SIZE
    <3>1. f + 1 \in Nat /\ k \in Nat /\ f + 1 <= k /\ PAGE_SIZE \in Nat
      BY <1>1, BootMemoryAssumption
    <3> HIDE DEF k
    <3> QED
      BY <3>1, TimesGrows, Zenon
  <2>2. (f + 1) * PAGE_SIZE = a + PAGE_SIZE
    BY BootMemoryAssumption
  <2> QED
    BY <1>1, <1>2, <1>3, <2>1, <2>2, BootMemoryAssumption
<1>5. a - m.start = (f - k) * PAGE_SIZE
  BY <1>1, BootMemoryAssumption
<1>6. (a - m.start) % PAGE_SIZE = 0
  BY <1>1, <1>4, <1>5, Multiples
<1>7. m.start <= a
  BY <1>1, <1>4, BootMemoryAssumption
<1>8. a \in m.start .. m.end - 1
  BY <1>2, <1>3, <1>7
<1> QED
  BY <1>2, <1>6, <1>8 DEF Reserved

-----------------------------------------------------------------------------
\* What GRUB passes.
LEMMA ListsAre ==
  ASSUME NEW list \in ModuleLists
  PROVE  /\ Len(list) \in Nat /\ DOMAIN list = 1 .. Len(list)
         /\ \A i \in DOMAIN list :
              /\ list[i].start \in Nat /\ list[i].end \in Nat
              /\ list[i].start % PAGE_SIZE = 0
              /\ list[i].cmdline \in Seq(Char)
<1> DEFINE M == [start : Nat, end : Nat, cmdline : Seq(Char)]
<1>1. list \in Seq(M) /\ \A i \in DOMAIN list : list[i].start % PAGE_SIZE = 0
  BY BootMemoryAssumption, Zenon
<1>2. \A m \in M : m.start \in Nat /\ m.end \in Nat /\ m.cmdline \in Seq(Char)
  OBVIOUS
<1> HIDE DEF M
<1>3. Len(list) \in Nat /\ DOMAIN list = 1 .. Len(list) /\ \A i \in DOMAIN list : list[i] \in M
  BY <1>1
<1> QED
  BY <1>1, <1>2, <1>3

Taken(i) == Reserved(mods[i])

\* From the end of kmain's set-up on every page of every module has its bit
\* set, and no page that was handed out and could come back is one of them.
BootInv ==
  /\ mods \in ModuleLists
  /\ start_frame \in Nat /\ total_frames \in Nat
  /\ pc \in {"modules", "pfa_init", "reserve", "run"}
  /\ pc # "run" => out = {}
  /\ pc \in {"reserve", "run"} => KernelEnd <= start_frame * PAGE_SIZE
  /\ pc = "reserve" => \A i \in DOMAIN mods : i = 1 => Taken(i) \subseteq bitmap
  /\ pc = "run" => \A i \in DOMAIN mods : Taken(i) \subseteq bitmap
  /\ out \subseteq start_frame .. total_frames - 1
  /\ \A i \in DOMAIN mods : Taken(i) \cap out = {}

LEMMA InitBoot == BootInit => BootInv
BY DEF BootInit, BootInv

\* The lowest clear bit is clear and in range.
LEMMA LowestClear ==
  ASSUME BootInv, Clear # {}
  PROVE  Min(Clear) \in Clear
<1>1. Clear \subseteq Nat
  BY DEF BootInv, Clear
<1> QED
  BY <1>1, MinIs, Zenon

LEMMA SetModulesBoot ==
  ASSUME BootInv, SetModules
  PROVE  BootInv'
BY DEF BootInv, SetModules, Taken, Reserved

LEMMA PfaInitBoot ==
  ASSUME BootInv, PfaInit
  PROVE  BootInv'
<1> DEFINE e == PageUp(KernelEnd) + BitmapBytes
<1>1. PageUp(KernelEnd) \in Nat /\ PageUp(KernelEnd) >= KernelEnd
  BY PageUpIs, BootMemoryAssumption, Zenon
<1>2. e \in Nat /\ e >= KernelEnd
  BY <1>1, BootMemoryAssumption
<1> HIDE DEF e
<1>3. PageUp(e) \in Nat /\ PageUp(e) >= e
        /\ (PageUp(e) \div PAGE_SIZE) * PAGE_SIZE = PageUp(e)
  BY <1>2, PageUpIs
<1>4. start_frame' = PageUp(e) \div PAGE_SIZE
  BY DEF PfaInit, e
<1>5. start_frame' \in Nat
  BY <1>3, <1>4, Division
<1>6. KernelEnd <= start_frame' * PAGE_SIZE
  BY <1>2, <1>3, <1>4, BootMemoryAssumption
<1>7. total_frames' \in Nat
  <2>1. MemEnd \in Nat
    BY BootMemoryAssumption
  <2> QED
    BY <2>1, Division DEF PfaInit
<1>8. pc' = "reserve" /\ mods' = mods /\ out' = {} /\ mods \in ModuleLists
  BY DEF PfaInit, BootInv
<1>9. \A i \in DOMAIN mods : i = 1 => Reserved(mods[i]) \subseteq bitmap'
  BY BootMemoryAssumption DEF PfaInit, BootInv
<1> QED
  BY <1>5, <1>6, <1>7, <1>8, <1>9 DEF BootInv, Taken, Reserved

LEMMA ReserveOthersBoot ==
  ASSUME BootInv, ReserveOthers
  PROVE  BootInv'
<1>1. \A i \in DOMAIN mods : Taken(i) \subseteq bitmap'
  <2> SUFFICES ASSUME NEW i \in DOMAIN mods PROVE Reserved(mods[i]) \subseteq bitmap'
    BY DEF Taken
  <2>1. bitmap' = bitmap \cup UNION {Reserved(mods[j]) : j \in 2 .. Len(mods)}
    BY DEF ReserveOthers
  <2>2. CASE i = 1
    BY <2>1, <2>2 DEF BootInv, ReserveOthers, Taken
  <2>3. CASE i \in 2 .. Len(mods)
    BY <2>1, <2>3
  <2>4. i \in 1 .. Len(mods)
    BY ListsAre DEF BootInv
  <2> QED
    BY <2>2, <2>3, <2>4
<1>2. \A i \in DOMAIN mods : Taken(i)' = Taken(i)
  BY DEF ReserveOthers, Taken, Reserved
<1> QED
  BY <1>1, <1>2 DEF BootInv, ReserveOthers

LEMMA AllocBoot ==
  ASSUME BootInv, pfa_alloc
  PROVE  BootInv'
<1>1. Min(Clear) \in Clear
  BY LowestClear DEF pfa_alloc
<1>2. Taken(1)' = Taken(1) /\ \A i \in DOMAIN mods : Taken(i)' = Taken(i)
  BY DEF pfa_alloc, Taken, Reserved
<1> QED
  BY <1>1, <1>2, Zenon DEF BootInv, pfa_alloc, Clear

LEMMA FreeBoot ==
  ASSUME BootInv, NEW f \in out, pfa_free(f)
  PROVE  BootInv'
<1>1. \A i \in DOMAIN mods : Taken(i)' = Taken(i)
  BY DEF pfa_free, Taken, Reserved
<1>2. \A i \in DOMAIN mods : f \notin Taken(i)
  BY DEF BootInv
<1> QED
  BY <1>1, <1>2 DEF BootInv, pfa_free

LEMMA InvSurvive == BootInv => ModulesSurvive
<1> SUFFICES ASSUME BootInv, NEW f \in out, NEW b \in BytesOf(f)
             PROVE  /\ b >= KernelEnd
                    /\ \A i \in DOMAIN mods : b \notin mods[i].start .. mods[i].end - 1
  BY DEF ModulesSurvive
<1>1. f \in Nat /\ start_frame <= f /\ start_frame \in Nat
  BY DEF BootInv
<1>2. b >= KernelEnd
  <2>1. start_frame * PAGE_SIZE <= f * PAGE_SIZE
    BY <1>1, BootMemoryAssumption
  <2>2. f * PAGE_SIZE \in Nat /\ start_frame * PAGE_SIZE \in Nat
    BY <1>1, Multiples
  <2>3. KernelEnd <= start_frame * PAGE_SIZE
    BY DEF BootInv
  <2>4. b \in Int /\ f * PAGE_SIZE <= b
    BY <1>1, <2>2, BootMemoryAssumption DEF BytesOf
  <2> QED
    BY <2>1, <2>2, <2>3, <2>4, BootMemoryAssumption
<1>3. ASSUME NEW i \in DOMAIN mods, b \in mods[i].start .. mods[i].end - 1
      PROVE  FALSE
  <2>1. /\ mods[i].start \in Nat /\ mods[i].end \in Nat
        /\ mods[i].start % PAGE_SIZE = 0
    BY ListsAre DEF BootInv
  <2>2. f \in Reserved(mods[i])
    BY <1>1, <1>3, <2>1, ReservedCovers
  <2> QED
    BY <2>2 DEF BootInv, Taken
<1> QED
  BY <1>2, <1>3

\* No frame that pfa_alloc hands out holds a byte of the kernel or of a module
\* that GRUB loaded, registered by module_loader_set_modules or not: the
\* frames that pfa_init and kmain reserve are all that modules touch.
THEOREM ModulesAlwaysSurvive == BootSpec => []ModulesSurvive
<1>1. ASSUME BootInv, [BootNext]_bootVars PROVE BootInv'
  <2>1. CASE UNCHANGED bootVars
    BY <1>1, <2>1 DEF BootInv, bootVars, Taken, Reserved
  <2>2. CASE BootNext
    BY <1>1, <2>2, SetModulesBoot, PfaInitBoot, ReserveOthersBoot, AllocBoot, FreeBoot
       DEF BootNext
  <2> QED
    BY <1>1, <2>1, <2>2
<1> QED
  BY <1>1, InitBoot, InvSurvive, PTL DEF BootSpec

-----------------------------------------------------------------------------
(* Names *)

LEMMA MinOfTwo ==
  ASSUME NEW a \in Nat, NEW b \in Nat
  PROVE  /\ Min({a, b}) \in Nat
         /\ a <= b => Min({a, b}) = a
         /\ b <= a => Min({a, b}) = b
<1>1. Min({a, b}) \in {a, b} /\ \A y \in {a, b} : Min({a, b}) <= y
  BY MinIs
<1> QED
  BY <1>1

LEMMA CutIs ==
  ASSUME NEW s \in Seq(Char), NEW n \in Nat
  PROVE  /\ Cut(s, n) \in Seq(Char)
         /\ Len(s) <= n => Cut(s, n) = s
         /\ n <= Len(s) => Len(Cut(s, n)) = n
         /\ Len(Cut(s, n)) <= Len(s)
         /\ \A i \in 1 .. Len(Cut(s, n)) : Cut(s, n)[i] = s[i]
<1> DEFINE m == Min({Len(s), n})
<1>1. m \in Nat /\ m <= Len(s) /\ m <= n /\ (n <= Len(s) => m = n)
        /\ (Len(s) <= n => m = Len(s))
  BY MinOfTwo
<1> HIDE DEF m
<1>2. Cut(s, n) = SubSeq(s, 1, m)
  BY DEF Cut, m
<1>3. SubSeq(s, 1, m) \in Seq(Char) /\ Len(SubSeq(s, 1, m)) = m
        /\ \A i \in 1 .. m : SubSeq(s, 1, m)[i] = s[i]
  BY <1>1
<1>4. ASSUME Len(s) <= n PROVE SubSeq(s, 1, m) = s
  BY <1>1, <1>4
<1> QED
  BY <1>1, <1>2, <1>3, <1>4

\* p is c up to its first space.
IsName(p, c) ==
  /\ Len(p) <= Len(c)
  /\ \A i \in 1 .. Len(p) : p[i] = c[i] /\ c[i] # SPACE
  /\ At(c, Len(p) + 1) \in {NUL, SPACE}

LEMMA NameIsUnique ==
  ASSUME NEW p \in Seq(Char), NEW q \in Seq(Char), NEW c \in Seq(Char),
         IsName(p, c), IsName(q, c)
  PROVE  p = q
<1>1. ASSUME NEW x \in Seq(Char), NEW y \in Seq(Char), IsName(x, c), IsName(y, c)
      PROVE  ~ (Len(x) < Len(y))
  <2> SUFFICES ASSUME Len(x) < Len(y) PROVE FALSE
    OBVIOUS
  <2> DEFINE k == Len(x) + 1
  <2>1. k \in 1 .. Len(y) /\ k \in 1 .. Len(c)
    BY <1>1 DEF IsName
  <2>2. c[k] # SPACE
    BY <1>1, <2>1 DEF IsName
  <2>3. c[k] # NUL
    BY <2>1 DEF Char
  <2>4. At(c, k) = c[k]
    BY <2>1 DEF At
  <2> QED
    BY <1>1, <2>2, <2>3, <2>4 DEF IsName
<1>2. Len(p) = Len(q)
  BY <1>1
<1>3. \A i \in 1 .. Len(p) : p[i] = q[i]
  BY <1>2 DEF IsName
<1> QED
  BY <1>2, <1>3

LEMMA NameOfIs ==
  ASSUME NEW c \in Seq(Char)
  PROVE  NameOf(c) \in Seq(Char) /\ IsName(NameOf(c), c)
<1> DEFINE spaces == {i \in DOMAIN c : c[i] = SPACE}
<1>1. CASE spaces = {}
  <2>1. NameOf(c) = c
    BY <1>1 DEF NameOf
  <2>2. \A i \in 1 .. Len(c) : c[i] # SPACE
    BY <1>1
  <2> QED
    BY <2>1, <2>2 DEF IsName, At
<1>2. CASE spaces # {}
  <2> DEFINE k == Min(spaces)
  <2>1. NameOf(c) = Cut(c, k - 1)
    BY <1>2 DEF NameOf
  <2>2. k \in spaces /\ \A y \in spaces : k <= y
    <3>1. spaces \subseteq Nat
      OBVIOUS
    <3> HIDE DEF spaces
    <3> QED
      BY <1>2, <3>1, MinIs, Zenon
  <2> HIDE DEF k
  <2>3. k \in 1 .. Len(c) /\ c[k] = SPACE /\ \A i \in 1 .. k - 1 : c[i] # SPACE
    BY <2>2
  <2>4. Len(Cut(c, k - 1)) = k - 1 /\ Cut(c, k - 1) \in Seq(Char)
          /\ \A i \in 1 .. k - 1 : Cut(c, k - 1)[i] = c[i]
    <3>1. k - 1 \in Nat /\ k - 1 <= Len(c)
      BY <2>3
    <3> DEFINE n == k - 1
    <3> HIDE DEF n
    <3>2. n \in Nat /\ n <= Len(c)
      BY <3>1 DEF n
    <3>3. Len(Cut(c, n)) = n /\ Cut(c, n) \in Seq(Char)
            /\ \A i \in 1 .. n : Cut(c, n)[i] = c[i]
      BY <3>2, CutIs
    <3> QED
      BY <3>3 DEF n
  <2> QED
    BY <2>1, <2>3, <2>4 DEF IsName, At
<1> QED
  BY <1>1, <1>2

\* The loop of path_matches_cmdline stops at the end of the path if and only
\* if the path is the name.
LEMMA MatchIs ==
  ASSUME NEW p \in Seq(Char), NEW c \in Seq(Char)
  PROVE  path_matches_cmdline(p, c) <=> IsName(p, c)
<1> DEFINE D == {i \in 1 .. Len(p) + 1 :
                   \/ At(p, i) = NUL
                   \/ At(c, i) \in {NUL, SPACE}
                   \/ At(p, i) # At(c, i)}
           stop == Min(D)
<1>1. Len(p) + 1 \in D
  BY DEF At
<1>2. stop \in D /\ \A y \in D : stop <= y
  <2>1. D # {} /\ D \subseteq Nat
    BY <1>1
  <2> HIDE DEF D
  <2> QED
    BY <2>1, MinIs, Zenon
<1> HIDE DEF stop
<1>3. path_matches_cmdline(p, c) <=> At(p, stop) = NUL /\ At(c, stop) \in {NUL, SPACE}
  BY DEF path_matches_cmdline, stop
<1>4. \A i \in 1 .. Len(p) : At(p, i) = p[i] /\ p[i] # NUL
  BY DEF At, Char
<1>5. \A i \in 1 .. Len(c) : At(c, i) = c[i] /\ c[i] # NUL
  BY DEF At, Char
<1>6. ASSUME At(p, stop) = NUL, At(c, stop) \in {NUL, SPACE} PROVE IsName(p, c)
  <2>1. stop = Len(p) + 1
    BY <1>2, <1>4, <1>6
  <2>2. ASSUME NEW i \in 1 .. Len(p) PROVE i \in 1 .. Len(c) /\ p[i] = c[i] /\ c[i] # SPACE
    <3>1. i \notin D
      BY <1>2, <2>1
    <3>2. At(c, i) \notin {NUL, SPACE} /\ At(p, i) = At(c, i)
      BY <3>1
    <3>3. i <= Len(c)
      BY <3>2 DEF At
    <3> QED
      BY <1>4, <1>5, <3>2, <3>3
  <2>3. Len(p) <= Len(c)
    <3>1. Len(p) = 0 \/ Len(p) \in 1 .. Len(p)
      OBVIOUS
    <3> QED
      BY <2>2, <3>1
  <2> QED
    BY <1>6, <2>1, <2>2, <2>3 DEF IsName
<1>7. ASSUME IsName(p, c) PROVE At(p, stop) = NUL /\ At(c, stop) \in {NUL, SPACE}
  <2>1. \A i \in 1 .. Len(p) : i \notin D
    BY <1>4, <1>5, <1>7 DEF IsName
  <2>2. stop = Len(p) + 1
    BY <1>2, <2>1
  <2> QED
    BY <1>7, <2>2 DEF IsName, At
<1> QED
  BY <1>3, <1>6, <1>7

\* The name of a command line that was cut off is its name, cut off.
LEMMA CutName ==
  ASSUME NEW p \in Seq(Char), NEW c \in Seq(Char), NEW n \in Nat, IsName(p, c)
  PROVE  IsName(Cut(p, n), Cut(c, n))
<1> DEFINE q == Cut(p, n)
           d == Cut(c, n)
<1>1. /\ q \in Seq(Char) /\ d \in Seq(Char)
      /\ Len(p) <= n => q = p
      /\ n <= Len(p) => Len(q) = n
      /\ Len(c) <= n => d = c
      /\ n <= Len(c) => Len(d) = n
      /\ Len(q) <= Len(p) /\ Len(d) <= Len(c)
      /\ \A i \in 1 .. Len(q) : q[i] = p[i]
      /\ \A i \in 1 .. Len(d) : d[i] = c[i]
  BY CutIs, Zenon
<1> HIDE DEF q, d
<1>2. Len(p) <= Len(c) /\ Len(p) \in Nat /\ Len(c) \in Nat
  BY DEF IsName
<1>3. Len(q) <= Len(d)
  BY <1>1, <1>2
<1>4. \A i \in 1 .. Len(q) : q[i] = d[i] /\ d[i] # SPACE
  BY <1>1, <1>2, <1>3 DEF IsName
<1>5. At(d, Len(q) + 1) \in {NUL, SPACE}
  <2>1. CASE n <= Len(p)
    BY <1>1, <1>2, <2>1 DEF At
  <2>2. CASE Len(p) < n /\ Len(p) + 1 <= Len(c)
    <3>1. Len(q) = Len(p) /\ Len(p) + 1 \in 1 .. Len(d)
      BY <1>1, <1>2, <2>2
    <3>2. At(d, Len(p) + 1) = c[Len(p) + 1] /\ At(c, Len(p) + 1) = c[Len(p) + 1]
      BY <1>1, <2>2, <3>1 DEF At
    <3> QED
      BY <3>1, <3>2 DEF IsName
  <2>3. CASE Len(p) < n /\ Len(c) < Len(p) + 1
    BY <1>1, <1>2, <2>3 DEF At
  <2> QED
    BY <1>2, <2>1, <2>2, <2>3
<1> QED
  BY <1>3, <1>4, <1>5 DEF IsName, q, d

LEMMA MatchesName ==
  ASSUME NEW path \in Seq(Char), NEW c \in Seq(Char)
  PROVE  path_matches_cmdline(copy_user_string(path), copy_cmdline(c))
           <=> Cut(NameOf(c), CMDLINE_MAX_LEN) = Cut(path, CMDLINE_MAX_LEN)
<1> DEFINE n == CMDLINE_MAX_LEN
           d == Cut(c, n)
<1>1. n \in Nat
  BY ModuleLoaderAssumption
<1>2. copy_user_string(path) = Cut(path, n)
  BY CutIs, ModuleLoaderAssumption DEF copy_user_string
<1>3. NameOf(c) \in Seq(Char) /\ IsName(NameOf(c), c)
  BY NameOfIs
<1>4. IsName(Cut(NameOf(c), n), d)
  BY <1>1, <1>3, CutName
<1>5. Cut(path, n) \in Seq(Char) /\ Cut(NameOf(c), n) \in Seq(Char) /\ d \in Seq(Char)
  BY <1>1, <1>3, CutIs, Zenon
<1>6. path_matches_cmdline(Cut(path, n), d) <=> IsName(Cut(path, n), d)
  BY <1>5, MatchIs
<1>7. IsName(Cut(path, n), d) => Cut(path, n) = Cut(NameOf(c), n)
  BY <1>4, <1>5, NameIsUnique
<1> QED
  BY <1>2, <1>4, <1>6, <1>7 DEF copy_cmdline

\* A path that is shorter than what is kept is found under its whole name only.
LEMMA MatchesMeant ==
  ASSUME NEW path \in Seq(Char), NEW i, mods[i].cmdline \in Seq(Char)
  PROVE  path_matches_cmdline(copy_user_string(path), copy_cmdline(mods[i].cmdline))
           <=> Meant(path, i)
<1> DEFINE n == CMDLINE_MAX_LEN
           name == NameOf(mods[i].cmdline)
<1>1. n \in Nat /\ name \in Seq(Char) /\ Len(name) \in Nat /\ Len(path) \in Nat
  BY NameOfIs, ModuleLoaderAssumption
<1>2. path_matches_cmdline(copy_user_string(path), copy_cmdline(mods[i].cmdline))
        <=> Cut(name, n) = Cut(path, n)
  BY MatchesName, Zenon
<1> HIDE DEF n, name
<1>3. ASSUME Len(path) < n PROVE Cut(name, n) = Cut(path, n) <=> name = path
  <2>1. Cut(path, n) = path
    BY <1>1, <1>3, CutIs
  <2>2. CASE Len(name) <= n
    <3>1. Cut(name, n) = name
      BY <1>1, <2>2, CutIs, Zenon
    <3> QED BY <2>1, <3>1, Zenon
  <2>3. CASE n <= Len(name)
    <3>1. Len(Cut(name, n)) = n
      BY <1>1, <2>3, CutIs
    <3>2. Cut(name, n) # path /\ name # path
      BY <1>1, <1>3, <2>3, <3>1
    <3> QED BY <2>1, <3>2, Zenon
  <2> QED BY <1>1, <2>2, <2>3
<1> QED BY <1>2, <1>3, Zenon DEF Meant, n, name

\* Modules are registered once.
NamesInv == mods \in ModuleLists /\ (pc # "modules" => loaded = Registered(mods))

LEMMA InvNames == NamesInv => FindsByName
<1> SUFFICES ASSUME NamesInv, pc # "modules", NEW path \in Paths
             PROVE  LET k == find_module_by_path(copy_user_string(path), loaded)
                    IN /\ k = Named(path)
                       /\ k # 0 => /\ loaded[k].start = mods[k].start
                                   /\ loaded[k].end = mods[k].end
  BY DEF FindsByName
<1> DEFINE N == Min({Len(mods), MAX_MODULES})
           u == copy_user_string(path)
           hits == {i \in DOMAIN loaded : path_matches_cmdline(u, loaded[i].cmdline)}
           named == {i \in 1 .. N : Meant(path, i)}
<1>1. N \in Nat /\ N <= Len(mods) /\ DOMAIN mods = 1 .. Len(mods)
  BY ListsAre, MinOfTwo, ModuleLoaderAssumption DEF NamesInv
<1>2. \A i \in 1 .. N : mods[i].cmdline \in Seq(Char)
  BY <1>1, ListsAre DEF NamesInv
<1> HIDE DEF N
<1>3. DOMAIN loaded = 1 .. N
        /\ \A i \in 1 .. N : /\ loaded[i].start = mods[i].start
                             /\ loaded[i].end = mods[i].end
                             /\ loaded[i].cmdline = copy_cmdline(mods[i].cmdline)
  <2>1. loaded = [i \in 1 .. N |-> [start |-> mods[i].start, end |-> mods[i].end,
                                   cmdline |-> copy_cmdline(mods[i].cmdline)]]
    BY Zenon DEF NamesInv, Registered, N
  <2> QED
    BY <2>1
<1>4. path \in Seq(Char)
  BY BootMemoryAssumption
<1>5. \A i \in 1 .. N : path_matches_cmdline(u, loaded[i].cmdline)
                          <=> i \in named
  BY <1>2, <1>3, <1>4, MatchesMeant, Zenon
<1>6. hits = named
  BY <1>3, <1>5
<1>7. find_module_by_path(u, loaded) = IF hits = {} THEN 0 ELSE Min(hits)
  BY DEF find_module_by_path
<1>8. Named(path) = IF named = {} THEN 0 ELSE Min(named)
  BY Zenon DEF Named, N
<1>9. hits # {} => Min(hits) \in 1 .. N
  <2>1. hits \subseteq 1 .. N /\ hits \subseteq Nat
    BY <1>3
  <2> HIDE DEF hits
  <2> QED
    BY <2>1, MinIs, Zenon
<1> HIDE DEF hits, named
<1> QED
  BY <1>3, <1>6, <1>7, <1>8, <1>9

\* For all module lists and paths: exec of a path shorter than MODULE_CMDLINE_MAX_LEN
\* finds the first registered module whose whole name, before copy_cmdline cuts
\* it, is the path, and no other; of a longer one, the first that agrees with it
\* in the characters that copy_cmdline and copy_user_string keep.
THEOREM NamesAlwaysFound == BootSpec => []FindsByName
<1>1. BootInit => NamesInv
  BY DEF BootInit, NamesInv
<1>2. NamesInv /\ [BootNext]_bootVars => NamesInv'
  BY Zenon DEF NamesInv, BootNext, bootVars, SetModules, PfaInit, ReserveOthers, pfa_alloc, pfa_free,
         Registered, copy_cmdline
<1> QED
  BY <1>1, <1>2, InvNames, PTL DEF BootSpec

-----------------------------------------------------------------------------
(* The serial port *)

\* Characters: the line feed is one.
Text == (STRING \cup {NL}) \ {None}

\* Where serial_write is tells what the UART has been set up for, and how
\* little of the queue of 16 is in use: PutChar waits, PutNewline adds one.
PortState ==
  /\ owed \in Seq(Text) /\ fifo \in Seq(Text) /\ log \in Seq(Text)
  /\ shift \in Text \cup {None}
  /\ spc \in {"idle", "wait", "line", "buffer", "chars"}
  /\ dlab \in BOOLEAN
  /\ dlab <=> spc = "line"
  /\ spc \in {"line", "buffer"} => fifo = <<>>
  /\ Len(fifo) <= (IF spc = "chars" THEN 1 ELSE 2)
  /\ spc \in {"line", "buffer", "chars"} => divisor = Divisor
  /\ fifo # <<>> => divisor = Divisor

NothingLost == owed = OnWire \o fifo \o Unwritten

PortInv == PortState /\ NothingLost

\* A sequence is its head before its tail.
LEMMA HeadFirst ==
  ASSUME NEW S, NEW s \in Seq(S), s # <<>>
  PROVE  /\ Head(s) \in S /\ Tail(s) \in Seq(S)
         /\ s = <<Head(s)>> \o Tail(s)
         /\ Len(Tail(s)) = Len(s) - 1
  OBVIOUS

\* The head of a sequence that begins with c.
LEMMA TailOfFirst ==
  ASSUME NEW S, NEW c \in S, NEW s \in Seq(S)
  PROVE  Tail(<<c>> \o s) = s
  OBVIOUS

\* What is on the wire and what is still to be written are texts.
LEMMA PartsAreTexts ==
  ASSUME PortInv
  PROVE  OnWire \in Seq(Text) /\ Unwritten \in Seq(Text) /\ <<NL>> \in Seq(Text)
<1>1. NL \in Text
  BY DEF NL, None, Text
<1>2. <<NL>> \in Seq(Text) /\ <<>> \in Seq(Text)
  BY <1>1
<1>3. log \o <<NL>> \in Seq(Text)
  BY <1>2, ConcatProperties DEF PortInv, PortState, NothingLost
<1>4. OnWire \in Seq(Text)
  BY <1>2 DEF PortInv, PortState, NothingLost, OnWire
<1> QED BY <1>2, <1>3, <1>4 DEF Unwritten

\* Concatenation of texts is associative.
LEMMA TextsAssociate ==
  ASSUME NEW a \in Seq(Text), NEW b \in Seq(Text), NEW c \in Seq(Text)
  PROVE  (a \o b) \o c = a \o (b \o c)
BY ConcatAssociative

\* serial_write begins: the message is owed.
LEMMA PortSerialWrite ==
  ASSUME PortInv, NEW m \in Messages, SerialWrite(m)
  PROVE  PortInv'
<1> DEFINE W == OnWire
<1>1. m \in Seq(Text)
  BY SerialPortAssumption, SeqMonotonic DEF Text
<1>2. W \in Seq(Text) /\ <<NL>> \in Seq(Text) /\ fifo \in Seq(Text) /\ owed \in Seq(Text)
  BY PartsAreTexts DEF PortInv, PortState, NothingLost
<1>3. owed = W \o fifo
  <2>1. W \o fifo \in Seq(Text)
    BY <1>2, ConcatProperties
  <2>2. owed = (W \o fifo) \o <<>>
    BY DEF PortInv, PortState, NothingLost, SerialWrite, Unwritten
  <2> HIDE DEF W
  <2> QED BY <2>1, <2>2, ConcatEmptySeq
<1>4. OnWire' = W /\ Unwritten' = m \o <<NL>> /\ owed' = owed \o m \o <<NL>> /\ fifo' = fifo
  BY DEF SerialWrite, OnWire, Unwritten, uartVars
<1>5. owed' = W \o fifo \o (m \o <<NL>>) /\ owed' \in Seq(Text)
  <2> DEFINE F == W \o fifo
  <2>1. F \in Seq(Text)
    BY <1>2, ConcatProperties
  <2>2. owed' = (F \o m) \o <<NL>>
    BY <1>3, <1>4
  <2> HIDE DEF F
  <2>3. (F \o m) \o <<NL>> = F \o (m \o <<NL>>)
    <3> DEFINE nl == <<NL>>
    <3>1. nl \in Seq(Text)
      BY <1>2
    <3> HIDE DEF nl
    <3>2. (F \o m) \o nl = F \o (m \o nl)
      BY <2>1, <1>1, <3>1, TextsAssociate
    <3> QED BY <3>2 DEF nl
  <2>4. F \o m \in Seq(Text) /\ (F \o m) \o <<NL>> \in Seq(Text)
    BY <2>1, <1>1, <1>2, ConcatProperties
  <2> QED BY <2>2, <2>3, <2>4 DEF F
<1> HIDE DEF W
<1>6. owed' = OnWire' \o fifo' \o Unwritten'
  BY <1>4, <1>5, Zenon
<1>7. PortState'
  BY <1>1, <1>5 DEF PortInv, PortState, SerialWrite, uartVars
<1> QED BY <1>6, <1>7 DEF PortInv, NothingLost

\* The steps that set the port up leave the queue, which is empty, as it is.
LEMMA PortConfigure ==
  ASSUME PortInv, ConfigureBaudRate \/ ConfigureLine \/ ConfigureBuffer
  PROVE  PortInv'
<1>1. fifo = <<>> /\ fifo' = fifo /\ UNCHANGED <<shift, owed, log>>
  BY DEF PortInv, PortState, NothingLost, ConfigureBaudRate, ConfigureLine, ConfigureBuffer, serial_is_transmit_fifo_empty
<1>2. OnWire' = OnWire /\ Unwritten' = Unwritten
  BY <1>1 DEF ConfigureBaudRate, ConfigureLine, ConfigureBuffer, OnWire, Unwritten
<1>3. owed' = OnWire' \o fifo' \o Unwritten'
  BY <1>1, <1>2 DEF PortInv, PortState, NothingLost
<1>4. PortState'
  <2>1. CASE ConfigureBaudRate
    BY <1>1, <2>1 DEF PortInv, PortState, ConfigureBaudRate
  <2>2. CASE ConfigureLine
    BY <1>1, <2>2, Zenon DEF PortInv, PortState, ConfigureLine
  <2>3. CASE ConfigureBuffer
    BY <1>1, <2>3 DEF PortInv, PortState, ConfigureBuffer
  <2> QED BY <2>1, <2>2, <2>3
<1> QED BY <1>3, <1>4 DEF PortInv, NothingLost

\* A character goes from the message into the empty queue.
LEMMA PortPutChar ==
  ASSUME PortInv, PutChar
  PROVE  PortInv'
<1> DEFINE c == Head(log)
           N == <<NL>>
           W == OnWire
<1>1. c \in Text /\ Tail(log) \in Seq(Text) /\ log = <<c>> \o Tail(log)
  BY HeadFirst DEF PortInv, PortState, NothingLost, PutChar
<1>2. W \in Seq(Text) /\ N \in Seq(Text) /\ <<c>> \in Seq(Text)
  BY <1>1, PartsAreTexts
<1>3. fifo = <<>> /\ ~ dlab
  BY DEF PortInv, PortState, NothingLost, PutChar, serial_is_transmit_fifo_empty
<1>4. fifo' = <<c>> /\ divisor' = divisor
  BY <1>3 DEF PutChar, DataPort, FifoSize
<1>5. OnWire' = W /\ Unwritten = log \o N /\ Unwritten' = Tail(log) \o N
      /\ UNCHANGED <<dlab, shift, owed, spc>> /\ log' = Tail(log) /\ spc = "chars"
  BY DEF PutChar, OnWire, Unwritten
<1>6. owed = W \o <<>> \o (log \o N)
  BY <1>3, <1>5 DEF PortInv, PortState, NothingLost
<1>7. owed = (W \o <<c>>) \o (Tail(log) \o N)
  <2> DEFINE T == Tail(log)
  <2> HIDE DEF c, N, W, T
  <2>1. T \in Seq(Text) /\ log = <<c>> \o T
    BY <1>1 DEF T
  <2>2. log \o N = <<c>> \o (T \o N) /\ T \o N \in Seq(Text)
    BY <2>1, <1>2, ConcatAssociative, ConcatProperties
  <2>3. W \o <<>> = W
    BY <1>2, ConcatEmptySeq
  <2>4. W \o (<<c>> \o (T \o N)) = (W \o <<c>>) \o (T \o N)
    <3> DEFINE R == T \o N
    <3> HIDE DEF R
    <3>1. R \in Seq(Text)
      BY <2>2 DEF R
    <3>2. W \o (<<c>> \o R) = (W \o <<c>>) \o R
      BY <3>1, <1>2, ConcatAssociative
    <3> QED BY <3>2 DEF R
  <2> QED BY <1>6, <2>2, <2>3, <2>4 DEF T
<1>8. owed' = OnWire' \o fifo' \o Unwritten'
  BY <1>4, <1>5, <1>7
<1>9. fifo' \in Seq(Text) /\ Len(fifo') = 1
  BY <1>2, <1>4
<1> HIDE DEF c, N, W
<1>10. PortState'
  BY <1>1, <1>3, <1>4, <1>5, <1>9 DEF PortInv, PortState
<1> QED BY <1>8, <1>10 DEF PortInv, NothingLost

\* The line feed finds room in the queue, next to at most one character.
LEMMA PortPutNewline ==
  ASSUME PortInv, PutNewline
  PROVE  PortInv'
<1> DEFINE N == <<NL>>
           W == OnWire
<1>1. W \in Seq(Text) /\ N \in Seq(Text) /\ NL \in Text /\ fifo \in Seq(Text)
  BY PartsAreTexts DEF PortInv, PortState, NothingLost, Text, NL, None
<1>2. ~ dlab /\ Len(fifo) <= 1 /\ spc = "chars" /\ log = <<>>
  BY DEF PortInv, PortState, NothingLost, PutNewline
<1>3. fifo' = Append(fifo, NL) /\ divisor' = divisor
  BY <1>2 DEF PutNewline, DataPort, FifoSize
<1>4. fifo' = fifo \o N /\ fifo' \in Seq(Text) /\ Len(fifo') <= 2
  BY <1>1, <1>2, <1>3
<1>5. OnWire' = W /\ Unwritten = <<>> \o N /\ Unwritten' = <<>>
      /\ UNCHANGED <<dlab, shift, owed, log>> /\ spc' = "idle"
  BY <1>2 DEF PutNewline, OnWire, Unwritten
<1>6. owed = (W \o fifo) \o (<<>> \o N)
  BY <1>5 DEF PortInv, PortState, NothingLost
<1>7. owed = (W \o (fifo \o N)) \o <<>>
  <2> HIDE DEF N, W
  <2>1. <<>> \o N = N
    BY <1>1, ConcatEmptySeq
  <2>2. (W \o fifo) \o N = W \o (fifo \o N)
    BY <1>1, ConcatAssociative
  <2>3. W \o (fifo \o N) \in Seq(Text)
    BY <1>1, ConcatProperties
  <2> DEFINE R == W \o (fifo \o N)
  <2>4. R \o <<>> = R
    <3> HIDE DEF R
    <3>1. R \in Seq(Text)
      BY <2>3 DEF R
    <3> QED BY <3>1, ConcatEmptySeq
  <2> QED BY <1>6, <2>1, <2>2, <2>4
<1>8. owed' = OnWire' \o fifo' \o Unwritten'
  BY <1>4, <1>5, <1>7
<1> HIDE DEF N, W
<1>9. PortState'
  BY <1>2, <1>3, <1>4, <1>5 DEF PortInv, PortState
<1> QED BY <1>8, <1>9 DEF PortInv, NothingLost

\* The UART takes the next character from the queue onto the wire.
LEMMA PortLoads ==
  ASSUME PortInv, UartLoads
  PROVE  PortInv'
<1> DEFINE c == Head(fifo)
           T == Tail(fifo)
           U == Unwritten
<1>1. c \in Text /\ T \in Seq(Text) /\ fifo = <<c>> \o T /\ Len(T) = Len(fifo) - 1
  BY HeadFirst DEF PortInv, PortState, UartLoads
<1>2. OnWire = <<>> /\ OnWire' = <<c>> /\ fifo' = T /\ Unwritten' = U /\ shift' = c
      /\ UNCHANGED <<dlab, divisor, owed, spc, log>> /\ fifo # <<>>
  BY <1>1 DEF UartLoads, OnWire, Unwritten, Text
<1>3. owed = (<<>> \o fifo) \o U
  BY <1>2 DEF PortInv, NothingLost
<1>4. <<>> \o fifo = fifo
  BY ConcatEmptySeq DEF PortInv, PortState
<1>5. owed' = OnWire' \o fifo' \o Unwritten'
  BY <1>1, <1>2, <1>3, <1>4
<1>6. PortState'
  BY <1>1, <1>2 DEF PortInv, PortState
<1> QED BY <1>5, <1>6 DEF PortInv, NothingLost

\* The UART has sent the character on the wire.
LEMMA PortSends ==
  ASSUME PortInv, UartSends
  PROVE  PortInv'
<1> DEFINE c == shift
           U == Unwritten
           R == fifo \o U
<1>1. c \in Text /\ <<c>> \in Seq(Text) /\ fifo \in Seq(Text) /\ U \in Seq(Text)
  BY PartsAreTexts DEF PortInv, PortState, UartSends
<1>2. OnWire = <<c>> /\ OnWire' = <<>> /\ fifo' = fifo /\ Unwritten' = U
      /\ UNCHANGED <<dlab, divisor, spc, log>> /\ owed' = Tail(owed) /\ shift' = None
  BY DEF UartSends, OnWire, Unwritten
<1>3. owed = (<<c>> \o fifo) \o U
  BY <1>2 DEF PortInv, NothingLost
<1>4. (<<c>> \o fifo) \o U = <<c>> \o R /\ R \in Seq(Text)
  <2> HIDE DEF c, U
  <2> QED BY <1>1, ConcatAssociative, ConcatProperties
<1>5. owed' = R /\ owed' \in Seq(Text)
  <2> HIDE DEF R
  <2> QED BY <1>1, <1>2, <1>3, <1>4, TailOfFirst
<1>6. <<>> \o fifo = fifo
  BY <1>1, ConcatEmptySeq
<1>7. owed' = OnWire' \o fifo' \o Unwritten'
  BY <1>2, <1>5, <1>6, Zenon
<1>8. PortState'
  <2> HIDE DEF R, U
  <2> QED BY <1>2, <1>5 DEF PortInv, PortState
<1> QED BY <1>7, <1>8 DEF PortInv, NothingLost

\* A step that leaves the serial port alone.
LEMMA PortUnchanged ==
  ASSUME PortInv, UNCHANGED serialVars
  PROVE  PortInv'
<1>1. UNCHANGED <<dlab, divisor, fifo, shift, owed, spc, log>>
  BY DEF serialVars, uartVars
<1> QED BY <1>1 DEF PortInv, PortState, NothingLost, OnWire, Unwritten

\* Before the first message nothing is owed.
LEMMA PortInit == SerialInit => PortInv
<1> SUFFICES ASSUME SerialInit PROVE PortInv
  OBVIOUS
<1>1. PortState
  <2>1. <<>> \in Seq(Text) /\ Len(<<>>) = 0
    BY EmptySeq
  <2>2. dlab = FALSE /\ spc = "idle" /\ owed = <<>> /\ fifo = <<>> /\ log = <<>> /\ shift = None
    BY DEF SerialInit
  <2>3. dlab \in BOOLEAN /\ (dlab <=> spc = "line")
    BY <2>2, Zenon
  <2> QED BY <2>1, <2>2, <2>3 DEF PortState
<1>2. OnWire = <<>> /\ Unwritten = <<>> /\ owed = <<>> /\ fifo = <<>>
  BY DEF SerialInit, OnWire, Unwritten
<1>3. NothingLost
  BY <1>2 DEF NothingLost
<1> QED BY <1>1, <1>3 DEF PortInv

\* Every step of the system is one of these for the port.
LEMMA PortStep == PortInv /\ [Next]_vars => PortInv'
<1> SUFFICES ASSUME PortInv, [Next]_vars PROVE PortInv'
  OBVIOUS
<1>1. CASE DoLog
  BY <1>1, PortSerialWrite DEF DoLog
<1>2. CASE DoSerial
  BY <1>2, PortConfigure, PortPutChar, PortPutNewline DEF DoSerial, SerialStep
<1>3. CASE Uart
  BY <1>3, PortLoads, PortSends DEF Uart
<1>4. CASE UNCHANGED serialVars
  BY <1>4, PortUnchanged
<1>5. DoLog \/ DoSerial \/ Uart \/ UNCHANGED serialVars
  BY Zenon DEF Next, vars, KernelStep, PitRises, PitFalls, ScanCode, Interrupt, Spurious,
         Syscall, SyscallHalts, DoAck, keyboard_handler
<1> QED BY <1>1, <1>2, <1>3, <1>4, <1>5

\* The invariant says what TelemetryIntact asks for.
LEMMA PortGives == PortInv => TelemetryIntact
BY DEF PortInv, PortState, NothingLost, TelemetryIntact

\* serial_write loses and doubles no character and sends each at the rate that
\* was asked for, for all messages, however the UART and the handlers
\* interleave.
THEOREM TelemetryAlwaysIntact == Spec => []TelemetryIntact
<1>1. Init => PortInv
  BY PortInit DEF Init
<1> QED BY <1>1, PortStep, PortGives, PTL DEF Spec

-----------------------------------------------------------------------------
(* The interrupt controller *)

Acks == {Ack(32), Ack(33), Ack(39)}
Plain == {Log, Keyboard, Hlt}

Handed(s) == {s[k].v - 32 : k \in {j \in DOMAIN s : s[j].op = "ack"}} \cap {0, 1}

\* A handler acknowledges once, at its end, and never faults.
Handler(s) ==
  /\ s \in Seq(Plain \cup Acks)
  /\ \A k \in 1 .. Len(s) : s[k] \in Acks => k = Len(s)

ServiceInv == Handler(todo) /\ isr = Handed(todo)

\* What distinguishes the steps of handlers.
LEMMA Operations ==
  /\ \A o \in Plain : o.op \in {"log", "keyboard", "hlt"}
  /\ \A o \in Acks : o.op = "ack" /\ o.v \in {32, 33, 39}
  /\ \A v : Ack(v).op = "ack" /\ Ack(v).v = v
BY DEF Plain, Acks, Log, Keyboard, Hlt, Ack

\* The only acknowledgement is the last step.
LEMMA AckIsLast ==
  ASSUME NEW s, Handler(s), NEW k \in DOMAIN s
  PROVE  /\ s[k].op = "ack" <=> s[k] \in Acks
         /\ s[k].op = "ack" => k = Len(s)
         /\ s[k].op # "fault"
<1>1. k \in 1 .. Len(s) /\ s[k] \in Plain \cup Acks
  BY DEF Handler
<1> QED BY <1>1, Operations, Zenon DEF Handler

\* A handler without an acknowledgement, and what it leaves in service.
LEMMA PlainHandler ==
  ASSUME NEW s \in Seq(Plain)
  PROVE  Handler(s) /\ Handed(s) = {}
<1>1. \A k \in 1 .. Len(s) : s[k] \in Plain /\ s[k].op # "ack" /\ s[k] \notin Acks
  BY Operations
<1>2. s \in Seq(Plain \cup Acks)
  BY SeqMonotonic
<1> QED BY <1>1, <1>2 DEF Handler, Handed

\* A handler that ends with the acknowledgement of v.
LEMMA AckHandler ==
  ASSUME NEW s \in Seq(Plain), NEW v \in {32, 33, 39}
  PROVE  Handler(s \o <<Ack(v)>>) /\ Handed(s \o <<Ack(v)>>) = {v - 32} \cap {0, 1}
<1> DEFINE t == s \o <<Ack(v)>>
           S == Plain \cup Acks
<1>1. s \in Seq(S) /\ <<Ack(v)>> \in Seq(S)
  <2>1. Ack(v) \in S
    BY DEF Acks
  <2> QED BY <2>1, SeqMonotonic
<1>2. t \in Seq(S) /\ Len(t) = Len(s) + 1 /\ t[Len(t)] = Ack(v)
      /\ \A k \in 1 .. Len(s) : t[k] = s[k]
  <2> HIDE DEF S
  <2>1. Len(<<Ack(v)>>) = 1 /\ <<Ack(v)>>[1] = Ack(v)
    OBVIOUS
  <2> QED BY <1>1, <2>1, ConcatProperties
<1>3. DOMAIN t = 1 .. Len(s) + 1
  BY <1>2
<1>4. \A k \in 1 .. Len(s) : t[k] \in Plain /\ t[k].op # "ack" /\ t[k] \notin Acks
  BY <1>2, Operations
<1>5. t[Len(s) + 1].op = "ack" /\ t[Len(s) + 1].v = v
  BY <1>2, Operations
<1> HIDE DEF t
<1>6. Handler(t)
  BY <1>2, <1>4 DEF Handler
<1>7. {j \in DOMAIN t : t[j].op = "ack"} = {Len(s) + 1}
  BY <1>3, <1>4, <1>5
<1>8. Handed(t) = {v - 32} \cap {0, 1}
  <2>1. {t[k].v - 32 : k \in {Len(s) + 1}} = {v - 32}
    BY <1>5, Zenon
  <2> QED BY <1>7, <2>1, Zenon DEF Handed
<1> QED BY <1>6, <1>8 DEF t

\* A step that is no acknowledgement leaves the rest of the handler.
LEMMA PlainStep ==
  ASSUME NEW s, Handler(s), s # <<>>, Head(s).op # "ack"
  PROVE  Handler(Tail(s)) /\ Handed(Tail(s)) = Handed(s)
<1> DEFINE S == Plain \cup Acks
           t == Tail(s)
<1>1. s \in Seq(S) /\ Head(s) = s[1]
  BY DEF Handler
<1>2. t \in Seq(S) /\ Len(t) = Len(s) - 1 /\ \A k \in 1 .. Len(t) : t[k] = s[k + 1]
  <2> HIDE DEF S
  <2> QED BY <1>1
<1>3. Len(s) \in Nat \ {0} /\ DOMAIN s = 1 .. Len(s) /\ DOMAIN t = 1 .. Len(s) - 1
  <2> HIDE DEF S
  <2> QED BY <1>1, <1>2
<1> HIDE DEF t
<1>4. Handler(t)
  BY <1>2, <1>3 DEF Handler
<1>5. ASSUME NEW x PROVE x \in {t[k].v - 32 : k \in {j \in DOMAIN t : t[j].op = "ack"}}
                     <=> x \in {s[k].v - 32 : k \in {j \in DOMAIN s : s[j].op = "ack"}}
  <2>1. ASSUME NEW k \in DOMAIN t, t[k].op = "ack", x = t[k].v - 32
        PROVE  \E j \in DOMAIN s : s[j].op = "ack" /\ x = s[j].v - 32
    <3>1. k + 1 \in DOMAIN s /\ s[k + 1] = t[k]
      BY <1>2, <1>3
    <3> QED BY <2>1, <3>1
  <2>2. ASSUME NEW k \in DOMAIN s, s[k].op = "ack", x = s[k].v - 32
        PROVE  \E j \in DOMAIN t : t[j].op = "ack" /\ x = t[j].v - 32
    <3>1. k # 1
      BY <1>1, <2>2
    <3>2. k - 1 \in DOMAIN t /\ t[k - 1] = s[k]
      BY <1>2, <1>3, <3>1
    <3> QED BY <2>2, <3>2
  <2> QED BY <2>1, <2>2
<1>6. Handed(t) = Handed(s)
  BY <1>5, Zenon DEF Handed
<1> QED BY <1>4, <1>6 DEF t

\* The log lines of a handler.
LEMMA LogsArePlain ==
  ASSUME NEW n \in Nat
  PROVE  Logs(n) \in Seq(Plain)
<1>1. Log \in Plain
  BY DEF Plain
<1>2. Logs(n) \in [1 .. n -> Plain]
  BY <1>1 DEF Logs
<1> QED BY <1>2

\* What the processor enters on the timer, the keyboard and spuriously.
LEMMA EnteredHandler ==
  ASSUME NEW v \in {32, 33, 39}, NEW n \in Nat
  PROVE  Handler(Entered(v, n)) /\ Handed(Entered(v, n)) = {v - 32} \cap {0, 1}
<1>1. v \in Gates
  BY DEF Gates
<1>2. CASE v = 32
  <2>1. Entered(v, n) = Logs(n) \o <<Ack(v)>>
    BY <1>1, <1>2 DEF Entered, timer_interrupt_handler
  <2> DEFINE s == Logs(n)
  <2>2. s \in Seq(Plain)
    BY LogsArePlain
  <2> HIDE DEF s
  <2>3. Handler(s \o <<Ack(v)>>) /\ Handed(s \o <<Ack(v)>>) = {v - 32} \cap {0, 1}
    BY <2>2, AckHandler
  <2> QED BY <2>1, <2>3 DEF s
<1>3. CASE v # 32
  <2> DEFINE K == IF v = 33 THEN <<Keyboard>> ELSE <<>>
             s == Logs(2) \o K
  <2>1. Entered(v, n) = s \o <<Ack(v)>>
    BY <1>1, <1>3 DEF Entered, interrupt_handler
  <2>2. K \in Seq(Plain)
    <3>1. Keyboard \in Plain
      BY DEF Plain
    <3>2. <<Keyboard>> \in Seq(Plain) /\ <<>> \in Seq(Plain)
      BY <3>1, EmptySeq
    <3> QED BY <3>2
  <2>3. s \in Seq(Plain)
    <3> HIDE DEF K
    <3> QED BY <2>2, LogsArePlain, ConcatProperties
  <2> HIDE DEF s
  <2> QED BY <2>1, <2>3, AckHandler
<1> QED BY <1>2, <1>3

\* In ring 3 nothing is in service.
LEMMA NothingInHand == Handed(<<>>) = {} /\ Handler(<<>>)
BY PlainHandler, EmptySeq, Zenon

\* A call that only logs, or logs and halts.
LEMMA CallHandlers ==
  ASSUME NEW n \in Nat
  PROVE  /\ Handler(Logs(n)) /\ Handed(Logs(n)) = {}
         /\ Handler(Logs(n) \o <<Hlt>>) /\ Handed(Logs(n) \o <<Hlt>>) = {}
<1>1. Logs(n) \in Seq(Plain) /\ <<Hlt>> \in Seq(Plain)
  BY LogsArePlain DEF Plain
<1>2. Logs(n) \o <<Hlt>> \in Seq(Plain)
  BY <1>1, ConcatProperties
<1> QED BY <1>1, <1>2, PlainHandler, Zenon

\* The acknowledgement ends the service of the interrupt in hand, and of no
\* other if that one was spurious.
LEMMA ServiceAck ==
  ASSUME ServiceInv, DoAck
  PROVE  ServiceInv'
<1> DEFINE o == Head(todo)
           S == Plain \cup Acks
<1>1. todo \in Seq(S) /\ todo # <<>> /\ o.op = "ack" /\ todo' = Tail(todo) /\ o = todo[1]
  BY DEF ServiceInv, Handler, DoAck, Do
<1>2. 1 \in DOMAIN todo /\ DOMAIN todo = 1 .. Len(todo)
  <2> HIDE DEF S
  <2> QED BY <1>1
<1>3. o \in Acks /\ Len(todo) = 1
  BY <1>1, <1>2, AckIsLast DEF ServiceInv
<1>4. todo' = <<>>
  <2> HIDE DEF S
  <2> QED BY <1>1, <1>3
<1>5. o.v \in {32, 33, 39}
  BY <1>3, Operations
<1>6. isr = {o.v - 32} \cap {0, 1}
  <2>1. {j \in DOMAIN todo : todo[j].op = "ack"} = {1}
    BY <1>1, <1>2, <1>3
  <2>2. {todo[k].v - 32 : k \in {1}} = {o.v - 32}
    BY <1>1, Zenon
  <2> QED BY <2>1, <2>2, Zenon DEF ServiceInv, Handed
<1>7. isr' = {}
  <2>1. isr' = IF o.v \in 32 .. 39 /\ isr # {} THEN isr \ {Min(isr)} ELSE isr
    BY DEF DoAck, pic_acknowledge
  <2> HIDE DEF o
  <2>2. isr = {} \/ \E i \in {0, 1} : isr = {i}
    BY <1>5, <1>6
  <2>3. ASSUME NEW i \in {0, 1}, isr = {i} PROVE isr \ {Min(isr)} = {}
    <3>1. Min({i}) = i
      BY DEF Min
    <3> QED BY <2>3, <3>1
  <2> QED BY <1>5, <2>1, <2>2, <2>3
<1> QED BY <1>4, <1>7, NothingInHand DEF ServiceInv

\* Every step keeps the controller and the handler in agreement.
LEMMA ServiceStep == ServiceInv /\ [Next]_vars => ServiceInv'
<1> SUFFICES ASSUME ServiceInv, [Next]_vars PROVE ServiceInv'
  OBVIOUS
<1>1. ASSUME NEW i \in {0, 1}, NEW n \in 0 .. MaxLogs, Interrupt(i, n) PROVE ServiceInv'
  <2>1. isr = {} /\ isr' = {i} /\ todo' = Entered(32 + i, n)
    BY <1>1, NothingInHand DEF Interrupt, UserMode, ServiceInv
  <2>2. n \in Nat
    BY DevicesAssumption
  <2>3. 32 + i \in {32, 33, 39} /\ (32 + i) - 32 = i
    OBVIOUS
  <2>4. {(32 + i) - 32} \cap {0, 1} = {i}
    BY <2>3, Zenon
  <2> QED BY <2>1, <2>2, <2>3, <2>4, EnteredHandler DEF ServiceInv
<1>2. ASSUME NEW i \in {0, 1}, Spurious(i) PROVE ServiceInv'
  <2>1. isr = {} /\ isr' = {} /\ todo' = Entered(39, 0)
    BY <1>2, NothingInHand DEF Spurious, UserMode, ServiceInv
  <2>2. {39 - 32} \cap {0, 1} = {}
    OBVIOUS
  <2> QED BY <2>1, <2>2, EnteredHandler DEF ServiceInv
<1>3. ASSUME NEW n \in 1 .. MaxLogs, Syscall(n) PROVE ServiceInv'
  <2>1. isr = {} /\ isr' = {} /\ todo' = Logs(n) /\ n \in Nat
    BY <1>3, NothingInHand, DevicesAssumption DEF Syscall, UserStep, UserMode, ServiceInv, picVars
  <2> QED BY <2>1, CallHandlers DEF ServiceInv
<1>4. CASE SyscallHalts
  <2>1. isr = {} /\ isr' = {} /\ todo' = Logs(1) \o <<Hlt>>
    BY <1>4, NothingInHand DEF SyscallHalts, UserStep, UserMode, ServiceInv, picVars
  <2> QED BY <2>1, CallHandlers DEF ServiceInv
<1>5. CASE DoLog \/ keyboard_handler
  <2>1. todo # <<>> /\ Head(todo).op # "ack" /\ todo' = Tail(todo) /\ isr' = isr
    BY <1>5 DEF DoLog, keyboard_handler, Do, picVars
  <2> QED BY <2>1, PlainStep DEF ServiceInv
<1>6. CASE DoAck
  BY <1>6, ServiceAck
<1>7. CASE UNCHANGED <<isr, todo>>
  BY <1>7 DEF ServiceInv
<1>8. CASE PitRises \/ PitFalls \/ (\E k \in Keys : ScanCode(k)) \/ DoSerial \/ Uart
  BY <1>7, <1>8 DEF PitRises, PitFalls, ScanCode, DoSerial, Uart, picVars
<1>9. CASE UNCHANGED vars
  BY <1>7, <1>9 DEF vars, picVars
<1> QED BY <1>1, <1>2, <1>3, <1>4, <1>5, <1>6, <1>8, <1>9 DEF Next, KernelStep

\* The invariant says what InServiceSound asks for.
LEMMA ServiceGives == ServiceInv => InServiceSound
<1> SUFFICES ASSUME ServiceInv PROVE InServiceSound
  OBVIOUS
<1>1. isr = InHand
  BY DEF ServiceInv, Handed, InHand
<1>2. ~ Stopped("fault")
  <2> SUFFICES ASSUME todo # <<>> PROVE Head(todo).op # "fault"
    BY DEF Stopped
  <2>1. 1 \in DOMAIN todo /\ Head(todo) = todo[1]
    <3> DEFINE S == Plain \cup Acks
    <3>1. todo \in Seq(S)
      BY DEF ServiceInv, Handler
    <3> HIDE DEF S
    <3> QED BY <3>1
  <2> QED BY <2>1, AckIsLast DEF ServiceInv
<1> QED BY <1>1, <1>2 DEF InServiceSound

\* The controller has in service exactly the interrupt whose handler runs and
\* has not reached pic_acknowledge, spurious interrupts included, and no
\* interrupt arrives without a gate of init_idt.
THEOREM InServiceAlwaysSound == Spec => []InServiceSound
<1>1. Init => ServiceInv
  BY CallHandlers, Zenon DEF Init, ServiceInv
<1> QED BY <1>1, ServiceStep, ServiceGives, PTL DEF Spec

-----------------------------------------------------------------------------
(* The screen *)

\* What k turns of fb_write leave of a text without line feeds.
Written(buf, k) ==
  [i |-> k, pos_char |-> 2 * k, pos_cursor |-> k % CursorMod,
   cells |-> [c \in Cells |-> IF c < k THEN buf[c + 1] ELSE fb_clear[c]],
   crtc |-> fb_move_cursor(k % CursorMod)]

\* One more character of such a text.
LEMMA WrittenNext ==
  ASSUME NEW buf \in Seq(STRING \ {LineFeed}), Len(buf) <= CursorMod,
         NEW k \in 1 .. Len(buf)
  PROVE  FbTurn(Written(buf, k - 1), buf[k]) = Written(buf, k)
<1> DEFINE s == Written(buf, k - 1)
           r == [c \in Cells |-> IF c < k - 1 THEN buf[c + 1] ELSE fb_clear[c]]
           ch == buf[k]
<1>1. ch # LineFeed /\ k \in Nat /\ k - 1 \in Nat /\ Len(buf) \in Nat /\ CursorMod \in Nat \ {0}
  BY DevicesAssumption
<1>2. /\ s.i = k - 1 /\ s.pos_char = 2 * (k - 1) /\ s.pos_cursor = (k - 1) % CursorMod
      /\ s.cells = r
  BY Zenon DEF Written
<1> HIDE DEF s
<1>3. s.i + 1 = k /\ s.pos_char + 2 = 2 * k /\ s.pos_char \div 2 = k - 1
  BY <1>1, <1>2
<1>4. (s.pos_cursor + 1) % CursorMod = k % CursorMod
  <2>1. CASE k < CursorMod
    <3>1. (k - 1) % CursorMod = k - 1
      BY <1>1, <2>1
    <3> QED BY <1>1, <1>2, <3>1
  <2>2. CASE k = CursorMod
    <3>1. (k - 1) % CursorMod = k - 1
      BY <1>1, <2>2
    <3> QED BY <1>1, <1>2, <3>1
  <2> QED BY <1>1, <2>1, <2>2
<1>5. [r EXCEPT ![k - 1] = ch] = [c \in Cells |-> IF c < k THEN buf[c + 1] ELSE fb_clear[c]]
  <2>1. k - 1 \in Cells
    BY <1>1 DEF Cells
  <2>2. ASSUME NEW c \in Cells
        PROVE  [r EXCEPT ![k - 1] = ch][c] = IF c < k THEN buf[c + 1] ELSE fb_clear[c]
    BY <1>1, <2>1 DEF Cells
  <2>3. [r EXCEPT ![k - 1] = ch] = [c \in Cells |-> [r EXCEPT ![k - 1] = ch][c]]
    BY Zenon
  <2> QED BY <2>2, <2>3, Zenon
<1>6. FbTurn(s, ch) = [i |-> s.i + 1, pos_char |-> s.pos_char + 2,
                       pos_cursor |-> (s.pos_cursor + 1) % CursorMod,
                       cells |-> [s.cells EXCEPT ![s.pos_char \div 2] = ch],
                       crtc |-> fb_move_cursor((s.pos_cursor + 1) % CursorMod)]
  BY <1>1, Zenon DEF FbTurn
<1> HIDE DEF r, ch
<1>7. FbTurn(s, ch) = [i |-> k, pos_char |-> 2 * k, pos_cursor |-> k % CursorMod,
                       cells |-> [r EXCEPT ![k - 1] = ch],
                       crtc |-> fb_move_cursor(k % CursorMod)]
  BY <1>2, <1>3, <1>4, <1>6, Zenon
<1> QED BY <1>5, <1>7, Zenon DEF Written, s, ch

\* fb_write puts a text without line feeds in the first cells of a clear screen.
LEMMA FbWriteIs ==
  ASSUME NEW buf \in Seq(STRING \ {LineFeed}), Len(buf) <= CursorMod
  PROVE  fb_write(buf, fb_clear) = Written(buf, Len(buf))
<1> DEFINE n == Len(buf)
           a == [i |-> 0, pos_char |-> 0, pos_cursor |-> 0, cells |-> fb_clear,
                 crtc |-> fb_move_cursor(0)]
           Loop(f) == f = [k \in 0 .. n |-> IF k = 0 THEN a ELSE FbTurn(f[k - 1], buf[k])]
           g == [k \in 0 .. n |-> Written(buf, k)]
           t == CHOOSE f : Loop(f)
<1>1. n \in Nat
  OBVIOUS
<1>2. fb_write(buf, fb_clear) = t[n]
  BY Zenon DEF fb_write
<1>3. Written(buf, 0) = a
  <2>1. 2 * 0 = 0 /\ 0 % CursorMod = 0
    BY DevicesAssumption
  <2>2. [c \in Cells |-> IF c < 0 THEN buf[c + 1] ELSE fb_clear[c]] = fb_clear
    <3>1. \A c \in Cells : ~ (c < 0)
      BY DevicesAssumption DEF Cells
    <3>2. fb_clear = [c \in Cells |-> fb_clear[c]]
      BY Zenon DEF fb_clear
    <3> QED BY <3>1, <3>2, Zenon
  <2> QED BY <2>1, <2>2, Zenon DEF Written
<1>4. Loop(g)
  <2>1. ASSUME NEW k \in 0 .. n
        PROVE  Written(buf, k) = IF k = 0 THEN a ELSE FbTurn(g[k - 1], buf[k])
    <3>1. CASE k = 0
      BY <1>3, <3>1, Zenon
    <3>2. CASE k # 0
      <4>1. k \in 1 .. n /\ k - 1 \in 0 .. n
        BY <1>1, <3>2
      <4>2. g[k - 1] = Written(buf, k - 1)
        BY <4>1, Zenon
      <4>3. FbTurn(Written(buf, k - 1), buf[k]) = Written(buf, k)
        BY <4>1, WrittenNext, Zenon
      <4> QED BY <3>2, <4>2, <4>3, Zenon
    <3> QED BY <3>1, <3>2, Zenon
  <2> QED BY <2>1, Zenon
<1>5. Loop(t)
  BY <1>4, Zenon
<1> HIDE DEF t
<1>6. \A k \in 0 .. n : t[k] = IF k = 0 THEN a ELSE FbTurn(t[k - 1], buf[k])
  BY <1>5, Zenon
<1> HIDE DEF a, Loop, g
<1> DEFINE Bad == {k \in 0 .. n : t[k] # Written(buf, k)}
<1>7. Bad = {}
  <2> SUFFICES ASSUME Bad # {} PROVE FALSE
    BY Zenon
  <2>1. \A y \in Bad : y \in Nat
    BY <1>1
  <2>2. Bad \in SUBSET Nat
    BY <2>1, Zenon
  <2>3. PICK m \in Bad : \A y \in Bad : ~ (<<y, m>> \in OpToRel(<, Nat))
    BY <2>2, NatLessThanWellFounded, WFMin, Zenon
  <2>4. m \in 0 .. n /\ t[m] # Written(buf, m)
    BY <2>3, Zenon
  <2>5. m # 0
    <3>1. 0 \in 0 .. n
      BY <1>1
    <3> QED BY <1>3, <1>6, <2>4, <3>1, Zenon
  <2>6. m \in 1 .. n /\ m - 1 \in 0 .. n /\ m - 1 \in Nat /\ m \in Nat /\ m - 1 < m
    BY <1>1, <2>4, <2>5
  <2>7. t[m - 1] = Written(buf, m - 1)
    <3>1. m - 1 \notin Bad
      BY <2>3, <2>6, Zenon DEF OpToRel
    <3> QED BY <2>6, <3>1, Zenon
  <2>8. t[m] = FbTurn(t[m - 1], buf[m])
    BY <1>6, <2>4, <2>5, Zenon
  <2> QED BY <2>4, <2>6, <2>7, <2>8, WrittenNext, Zenon
<1>8. n \in 0 .. n
  BY <1>1
<1> QED BY <1>2, <1>7, <1>8, Zenon


\* What may stand in a cell.
Glyphs == STRING \cup Keys \cup {None, Blank, Leftover}

ScreenInv ==
  /\ cursor_pos \in Cells
  /\ cell \in [Cells -> Glyphs]
  /\ obuf \in Glyphs
  /\ EchoSound

\* The two registers together hold any position.
LEMMA CursorShown ==
  ASSUME NEW pos \in Nat
  PROVE  (fb_move_cursor(pos).hi * ByteMod) + fb_move_cursor(pos).lo = pos
<1>1. fb_move_cursor(pos).hi = pos \div ByteMod /\ fb_move_cursor(pos).lo = pos % ByteMod
  BY Zenon DEF fb_move_cursor
<1>2. ((pos \div ByteMod) * ByteMod) + (pos % ByteMod) = pos
  BY DevicesAssumption
<1> QED BY <1>1, <1>2, Zenon

\* The screen is the beginning of video memory.
LEMMA ScreenCellsAre == Screen \subseteq Cells
BY DevicesAssumption DEF Screen, Cells

\* The banner ends before the cursor.
LEMMA ScreenInit == Init => ScreenInv
<1> SUFFICES ASSUME Init PROVE ScreenInv
  OBVIOUS
<1> DEFINE n == Len(Banner)
           cs == [c \in Cells |-> IF c < n THEN Banner[c + 1] ELSE fb_clear[c]]
<1>1. /\ cursor_pos = FirstPos /\ cell = fb_write(Banner, fb_clear).cells /\ shown = "banner"
      /\ obuf = None
  BY Zenon DEF Init
<1>2. /\ Banner \in Seq(STRING \ {LineFeed}) /\ n <= FirstPos /\ FirstPos \in Cells
      /\ CursorMod \in Nat /\ n \in Nat /\ n <= CursorMod
  BY DevicesAssumption DEF Cells
<1>3. fb_write(Banner, fb_clear) = Written(Banner, n)
  BY <1>2, FbWriteIs, Zenon
<1>4. cell = cs
  <2>1. Written(Banner, n).cells = cs
    BY DEF Written
  <2> QED BY <1>1, <1>3, <2>1, Zenon
<1>5. \A c \in Cells : cs[c] \in Glyphs /\ (c \in Screen /\ c >= FirstPos => cs[c] = Blank)
  <2> TAKE c \in Cells
  <2>1. CASE c < n
    <3>1. c + 1 \in 1 .. n /\ ~ (c >= FirstPos)
      BY <1>2, <2>1 DEF Cells
    <3>2. Banner[c + 1] \in STRING
      BY <1>2, <3>1
    <3> QED BY <2>1, <3>1, <3>2, Zenon DEF Glyphs
  <2>2. CASE ~ (c < n)
    BY <2>2, Zenon DEF Glyphs, fb_clear
  <2> QED BY <2>1, <2>2, Zenon
<1>6. cell \in [Cells -> Glyphs]
  BY <1>4, <1>5, Zenon
<1> HIDE DEF cs
<1>7. EchoSound
  BY <1>1, <1>4, <1>5, ScreenCellsAre, Zenon DEF EchoSound
<1> QED BY <1>1, <1>2, <1>6, <1>7, Zenon DEF ScreenInv, Glyphs

\* A key moves the cursor and leaves nothing at or behind it.
LEMMA PressedIs ==
  ASSUME ScreenInv, NEW k \in Glyphs
  PROVE  /\ Pressed(k).pos \in Nat
         /\ Pressed(k).cells \in [Cells -> Glyphs]
         /\ shown # "wrapped" =>
              \A c \in Screen : c >= Pressed(k).pos => Pressed(k).cells[c] = Blank
<1>0. /\ cursor_pos \in Nat /\ cursor_pos \in Cells /\ cell \in [Cells -> Glyphs]
      /\ Blank \in Glyphs /\ Width \in Nat \ {0} /\ \A c \in Screen : c \in Cells
      /\ shown # "wrapped" => \A c \in Screen : c >= cursor_pos => cell[c] = Blank
  <2>1. \A c \in Cells : c \in Nat
    BY DevicesAssumption DEF Cells
  <2> QED BY <2>1, DevicesAssumption, ScreenCellsAre, Zenon DEF ScreenInv, EchoSound, Glyphs
<1>1. CASE k = LineFeed
  <2> DEFINE w == cursor_pos + (Width - (cursor_pos % Width))
  <2>1. Pressed(k) = [pos |-> w, cells |-> cell]
    BY <1>1, Zenon DEF Pressed, LineFeed, Backspace
  <2>2. w \in Nat /\ w > cursor_pos
    BY <1>0
  <2> HIDE DEF w
  <2>3. Pressed(k).pos = w /\ Pressed(k).cells = cell
    BY <2>1
  <2>4. \A c \in Cells : c >= w => c >= cursor_pos
    BY <1>0, <2>2, DevicesAssumption DEF Cells
  <2> QED BY <1>0, <2>2, <2>3, <2>4, Zenon
<1>2. CASE k = Backspace /\ cursor_pos > 0
  <2> DEFINE w == cursor_pos - 1
             cs == [cell EXCEPT ![w] = Blank]
  <2>1. Pressed(k) = [pos |-> w, cells |-> cs]
    BY <1>2 DEF Pressed, LineFeed, Backspace
  <2>2. Pressed(k).pos = w /\ Pressed(k).cells = cs
    BY <2>1
  <2>3. w \in Nat /\ cs \in [Cells -> Glyphs]
    <3>1. w \in Nat /\ w \in Cells
      BY <1>0, <1>2, DevicesAssumption DEF Cells
    <3> HIDE DEF w
    <3> QED BY <1>0, <3>1
  <2>4. \A c \in Cells : c >= w => c = w \/ c >= cursor_pos
    BY <1>0, DevicesAssumption DEF Cells
  <2>5. \A c \in Cells : cs[c] = IF c = w THEN Blank ELSE cell[c]
    BY <1>0
  <2> HIDE DEF w, cs
  <2> QED BY <1>0, <2>2, <2>3, <2>4, <2>5, Zenon
<1>3. CASE k = Backspace /\ ~ (cursor_pos > 0)
  <2>1. cursor_pos = 0
    BY <1>0, <1>3
  <2>2. Pressed(k) = [pos |-> 0, cells |-> cell]
    BY <1>3, <2>1 DEF Pressed, LineFeed, Backspace
  <2>3. Pressed(k).pos = cursor_pos /\ Pressed(k).cells = cell
    BY <2>1, <2>2
  <2> QED BY <1>0, <2>3, Zenon
<1>4. CASE k # LineFeed /\ k # Backspace
  <2> DEFINE w == cursor_pos + 1
             cs == [cell EXCEPT ![cursor_pos] = k]
  <2>1. Pressed(k) = [pos |-> w, cells |-> cs]
    BY <1>4 DEF Pressed
  <2>2. Pressed(k).pos = w /\ Pressed(k).cells = cs
    BY <2>1
  <2>3. w \in Nat /\ cs \in [Cells -> Glyphs]
    BY <1>0
  <2>4. \A c \in Cells : c >= w => c # cursor_pos /\ c >= cursor_pos
    BY <1>0, DevicesAssumption DEF Cells
  <2>5. \A c \in Cells : c # cursor_pos => cs[c] = cell[c]
    BY <1>0
  <2> HIDE DEF w, cs
  <2> QED BY <1>0, <2>2, <2>3, <2>4, <2>5, Zenon
<1> QED BY <1>1, <1>2, <1>3, <1>4, Zenon

\* Only the keyboard's handler touches the screen.
LEMMA ScreenStep == ScreenInv /\ [Next]_vars => ScreenInv'
<1> SUFFICES ASSUME ScreenInv, [Next]_vars PROVE ScreenInv'
  OBVIOUS
<1>0. None \in Glyphs /\ \A k \in Keys : k \in Glyphs
  BY Zenon DEF Glyphs
<1>1. ASSUME obuf' \in Glyphs, UNCHANGED screenVars PROVE ScreenInv'
  BY <1>1, Zenon DEF ScreenInv, EchoSound, screenVars
<1>2. CASE keyboard_handler
  <2>1. /\ obuf' = None
        /\ \/ UNCHANGED screenVars
           \/ /\ cursor_pos' = Pressed(obuf).pos % CursorMod
              /\ cell' = Pressed(obuf).cells
              /\ crtc' = fb_move_cursor(cursor_pos')
              /\ shown' = IF shown = "wrapped" \/ Pressed(obuf).pos >= CursorMod
                          THEN "wrapped" ELSE "keys"
    BY <1>2, Zenon DEF keyboard_handler, read_scan_code
  <2>2. CASE UNCHANGED screenVars
    BY <1>0, <1>1, <2>1, <2>2, Zenon
  <2>3. CASE /\ cursor_pos' = Pressed(obuf).pos % CursorMod
             /\ cell' = Pressed(obuf).cells
             /\ crtc' = fb_move_cursor(cursor_pos')
             /\ shown' = IF shown = "wrapped" \/ Pressed(obuf).pos >= CursorMod
                         THEN "wrapped" ELSE "keys"
    <3> DEFINE w == Pressed(obuf).pos
               cs == Pressed(obuf).cells
    <3>1. /\ w \in Nat /\ cs \in [Cells -> Glyphs]
          /\ shown # "wrapped" => \A c \in Screen : c >= w => cs[c] = Blank
      BY PressedIs, Zenon DEF ScreenInv
    <3> HIDE DEF w, cs
    <3>2. CursorMod \in Nat \ {0}
      BY DevicesAssumption
    <3>3. w % CursorMod \in Cells /\ w % CursorMod \in Nat /\ (w < CursorMod => w % CursorMod = w)
      BY <3>1, <3>2 DEF Cells
    <3>4. cursor_pos' = w % CursorMod /\ cell' = cs
      BY <2>3, Zenon DEF w, cs
    <3>5. (crtc'.hi * ByteMod) + crtc'.lo = cursor_pos'
      BY <2>3, <3>3, <3>4, CursorShown, Zenon
    <3>6. shown' # "wrapped" => shown # "wrapped" /\ w < CursorMod
      BY <2>3, <3>1, <3>2 DEF w
    <3>7. shown' # "wrapped" => \A c \in Screen : c >= cursor_pos' => cell'[c] = Blank
      BY <3>1, <3>3, <3>4, <3>6, Zenon
    <3>8. EchoSound'
      BY <3>5, <3>7, Zenon DEF EchoSound
    <3> QED BY <1>0, <2>1, <3>1, <3>3, <3>4, <3>8, Zenon DEF ScreenInv
  <2> QED BY <2>1, <2>2, <2>3, Zenon
<1>3. CASE \E k \in Keys : ScanCode(k)
  BY <1>0, <1>1, <1>3, Zenon DEF ScanCode
<1>4. CASE \/ PitRises \/ PitFalls \/ SyscallHalts \/ DoLog \/ DoAck \/ DoSerial \/ Uart
           \/ (\E i \in {0, 1}, n \in 0 .. MaxLogs : Interrupt(i, n))
           \/ (\E i \in {0, 1} : Spurious(i)) \/ (\E n \in 1 .. MaxLogs : Syscall(n))
           \/ UNCHANGED vars
  <2>1. UNCHANGED <<obuf, screenVars>>
    BY <1>4, Zenon DEF PitRises, PitFalls, SyscallHalts, DoLog, DoAck, DoSerial, Uart, Interrupt,
       Spurious, Syscall, vars
  <2> QED BY <1>1, <2>1, Zenon DEF ScreenInv
<1> QED BY <1>2, <1>3, <1>4, Zenon DEF Next, KernelStep

\* From the first key on the cursor registers show cursor_pos, and until it wraps
\* no character is on the screen at or behind the cursor, for every width and size
\* of the screen within the reach of cursor_pos and every sequence of keys.
THEOREM EchoAlwaysSound == Spec => []EchoSound
<1>1. ScreenInv => EchoSound
  BY DEF ScreenInv
<1> QED BY <1>1, ScreenInit, ScreenStep, PTL DEF Spec
=============================================================================
