----------------------------- MODULE KHeapProofs -----------------------------
(***************************************************************************)
(* For every size of page, heap and request: the blocks tile the heap, the *)
(* free list is ordered and never has two blocks that touch, a search sees *)
(* every free block before it asks for more memory, and the callers see    *)
(* what Arena.tla promises.                                                *)
(***************************************************************************)
EXTENDS KHeap, FiniteSetTheorems, WellFoundedInduction, TLAPS

\* Leaves that name no prover go to the SMT solver, with time to spare.
USE SMTT(30)

-----------------------------------------------------------------------------
(* The inductive invariant *)

\* A header that no block has any more is cleared: the blocks are where the
\* sizes are not 0, and those that nobody has are free.
Heads(sz) == {a \in Units : sz[a] # 0}
Headed == Heads(size)
Unused == (Headed \ held) \ InTransit
Ring == Unused \cup {base}

Types ==
  /\ next \in [Addr -> Addr]
  /\ size \in [Addr -> Nat]
  /\ size[base] = 0
  /\ held \subseteq Headed
  /\ heap_current \in Start .. heap_max

\* The blocks cover the units up to end, each once.
Tiles(sz, end) ==
  /\ \A a, b \in Heads(sz) : a < b => a + sz[a] <= b
  /\ \A b \in Heads(sz) : b + sz[b] <= end
  /\ \A u \in Start .. end - 1 : \E b \in Heads(sz) : b <= u /\ u < b + sz[b]

\* next leads from each free block to the one above, and from the last to base.
Linked(R, nxt) ==
  \A b \in R :
    /\ nxt[b] \in R
    /\ nxt[b] = base => \A c \in R : c <= b
    /\ nxt[b] # base => b < nxt[b] /\ \A c \in R : c <= b \/ nxt[b] <= c

\* No free block touches the next.
Apart(R, nxt, sz) == \A b \in R : nxt[b] # base => b + sz[b] < nxt[b]

\* What kmalloc has looked at, from freep to prevp, around the end of the list.
Seen ==
  {b \in Ring : \/ freep < prevp /\ freep < b /\ b <= prevp
                \/ prevp < freep /\ (freep < b \/ b <= prevp)}

Locals ==
  /\ freep \in Ring \cup {NULL}
  /\ freep = NULL => heap_current = Start
  /\ pc \in {"idle", "search", "morecore", "place"}
  /\ pc = "idle" => nunits = 0
  /\ pc \in {"search", "morecore"} => freep \in Ring /\ nunits \in Sizes
  /\ pc = "search" => /\ prevp \in Ring /\ p = next[prevp]
                      /\ \A b \in Seen : size[b] < nunits
  /\ pc = "morecore" => \A b \in Ring : size[b] < nunits
  /\ pc = "place" => /\ bp \in Headed \ held /\ p \in Ring
                     /\ freep \in Ring /\ nunits \in Sizes \cup {0}

HeapInv ==
  /\ Types
  /\ Tiles(size, heap_current)
  /\ Linked(Ring, next)
  /\ Apart(Ring, next, size)
  /\ Locals

-----------------------------------------------------------------------------
(* Lists *)

\* The addresses that a block or base may have.
LEMMA Places == /\ Units \subseteq Nat /\ Addr = Units \cup {base} /\ base \notin Units
                /\ base = 0 /\ Start = 1 /\ NULL \notin Addr /\ Addr \subseteq Nat
                /\ heap_max \in Nat /\ 1 <= heap_max /\ \A a \in Units : 1 <= a /\ a < heap_max
                /\ \A a \in Nat : 1 <= a /\ a < heap_max => a \in Units
<1>1. heap_max \in Nat /\ 1 <= heap_max
  <2>1. HeapPages * PageUnits \in Nat
    BY KHeapAssumption
  <2> QED BY <2>1 DEF heap_max, Start
<1> QED BY <1>1 DEF Units, Addr, base, Start, NULL

\* A new element behind q.
LEMMA LinkIn ==
  ASSUME NEW R \in SUBSET Addr, NEW nxt, NEW new, Linked(R, nxt),
         NEW q \in R, NEW b \in Addr \ R, q < b, \A c \in R : c <= q \/ b < c,
         new[b] = nxt[q], new[q] = b, \A c \in R \ {q} : new[c] = nxt[c]
  PROVE  Linked(R \cup {b}, new)
<1>1. (\A y \in R : y \in Nat) /\ b \in Nat /\ base = 0 /\ b # q
  BY Places
<1>2. ASSUME NEW x \in R \cup {b}
      PROVE  /\ new[x] \in R \cup {b}
             /\ new[x] = base => \A c \in R \cup {b} : c <= x
             /\ new[x] # base => x < new[x] /\ \A c \in R \cup {b} : c <= x \/ new[x] <= c
  <2>1. CASE x = b
    <3>1. nxt[q] \in R /\ nxt[q] \in Nat /\ (nxt[q] = base => \A c \in R : c <= q)
          /\ (nxt[q] # base => q < nxt[q])
      BY <1>1, Zenon DEF Linked
    <3>2. \A c \in R : c <= q => c <= b
      BY <1>1
    <3>3. nxt[q] # base => b < nxt[q] /\ \A c \in R : c <= b \/ nxt[q] <= c
      <4> HAVE nxt[q] # base
      <4>1. q < nxt[q] /\ \A c \in R : c <= q \/ nxt[q] <= c
        BY DEF Linked
      <4>2. ~ (nxt[q] <= q)
        BY <1>1, <3>1, <4>1
      <4> QED BY <3>1, <3>2, <4>1, <4>2
    <3> QED BY <1>1, <2>1, <3>1, <3>2, <3>3
  <2>2. CASE x = q
    BY <1>1, <2>2 DEF Linked
  <2>3. CASE x \in R /\ x # q
    <3>1. /\ nxt[x] \in R /\ nxt[x] \in Nat
          /\ nxt[x] = base => \A c \in R : c <= x
          /\ nxt[x] # base => x < nxt[x] /\ \A c \in R : c <= x \/ nxt[x] <= c
      BY <1>1, <2>3, Zenon DEF Linked
    <3>2. q <= x => b < x
      BY <1>1, <2>3
    <3>3. nxt[x] <= q => nxt[x] <= b
      BY <1>1, <3>1
    <3>4. nxt[x] = base => b <= x
      BY <1>1, <2>3, <3>1, <3>2
    <3>5. nxt[x] # base => b <= x \/ nxt[x] <= b
      BY <1>1, <2>3, <3>1, <3>2, <3>3
    <3> QED BY <2>3, <3>1, <3>4, <3>5
  <2> QED BY <2>1, <2>2, <2>3
<1> QED BY <1>2 DEF Linked

\* The element behind q goes.
LEMMA LinkOut ==
  ASSUME NEW R \in SUBSET Addr, NEW nxt, NEW new, Linked(R, nxt),
         NEW q \in R, NEW c \in R, nxt[q] = c, c # base,
         new[q] = nxt[c], \A x \in R \ {q, c} : new[x] = nxt[x]
  PROVE  /\ q < c /\ nxt[c] # c /\ nxt[c] \in R
         /\ nxt[c] # base => c < nxt[c]
         /\ Linked(R \ {c}, new)
<1>1. (\A y \in R : y \in Nat) /\ base = 0
  BY Places
<1>2. q < c /\ \A y \in R : y <= q \/ c <= y
  BY DEF Linked
<1>3. /\ nxt[c] \in R /\ nxt[c] \in Nat
      /\ nxt[c] = base => \A y \in R : y <= c
      /\ nxt[c] # base => c < nxt[c] /\ \A y \in R : y <= c \/ nxt[c] <= y
  BY <1>1, Zenon DEF Linked
<1>4. nxt[c] # c
  BY <1>1, <1>3
<1>5. ASSUME NEW x \in R \ {c}
      PROVE  /\ new[x] \in R \ {c}
             /\ new[x] = base => \A y \in R \ {c} : y <= x
             /\ new[x] # base => x < new[x] /\ \A y \in R \ {c} : y <= x \/ new[x] <= y
  <2>1. CASE x = q
    <3>1. \A y \in R \ {c} : y <= q \/ c < y
      BY <1>1, <1>2
    <3>2. nxt[c] # base => q < nxt[c]
      BY <1>1, <1>2, <1>3
    <3>3. nxt[c] = base => \A y \in R \ {c} : y <= q
      BY <1>1, <1>2, <1>3, <3>1
    <3>4. nxt[c] # base => \A y \in R \ {c} : y <= q \/ nxt[c] <= y
      BY <1>1, <1>2, <1>3, <3>1
    <3> QED BY <1>3, <1>4, <2>1, <3>2, <3>3, <3>4
  <2>2. CASE x # q
    <3>1. nxt[x] # c
      <4> SUFFICES ASSUME nxt[x] = c PROVE FALSE
        OBVIOUS
      <4>1. x < c /\ \A y \in R : y <= x \/ c <= y
        BY DEF Linked
      <4>2. q <= x /\ x <= q
        BY <1>1, <1>2, <4>1
      <4> QED BY <1>1, <2>2, <4>2
    <3>2. new[x] = nxt[x]
      BY <2>2
    <3> QED BY <3>1, <3>2, Zenon DEF Linked
  <2> QED BY <2>1, <2>2
<1>6. Linked(R \ {c}, new)
  BY <1>5, Zenon DEF Linked
<1> QED BY <1>2, <1>3, <1>4, <1>6

-----------------------------------------------------------------------------
(* Blocks *)

\* The sizes of the headers are numbers, and those of new are too.
Sized(sz) == \A u \in Units : sz[u] \in Nat

\* A block of n units at the end of the heap.
LEMMA Grows ==
  ASSUME NEW sz, NEW new, Sized(sz), NEW end \in Units, Tiles(sz, end), NEW n \in Nat \ {0},
         new[end] = n, \A u \in Units \ {end} : new[u] = sz[u]
  PROVE  /\ end \notin Heads(sz)
         /\ Heads(new) = Heads(sz) \cup {end}
         /\ Tiles(new, end + n)
<1>1. (\A y \in Units : y \in Nat) /\ Start = 1
  BY Places
<1>2. end \notin Heads(sz)
  BY <1>1 DEF Tiles, Heads, Sized
<1>3. Heads(new) = Heads(sz) \cup {end}
  <2>1. \A a \in Units : new[a] # 0 <=> sz[a] # 0 \/ a = end
    OBVIOUS
  <2> QED BY <2>1 DEF Heads
<1>4. \A b \in Heads(sz) : b \in Units /\ b \in Nat /\ sz[b] \in Nat /\ b # end
                           /\ new[b] = sz[b] /\ b + sz[b] <= end
  BY <1>1, <1>2 DEF Heads, Sized, Tiles
<1>5. ASSUME NEW a \in Heads(new), NEW b \in Heads(new), a < b PROVE a + new[a] <= b
  <2>1. a \in Heads(sz) /\ b \in Heads(sz) => a + sz[a] <= b
    BY <1>5 DEF Tiles
  <2>2. a # end
    BY <1>1, <1>3, <1>4, <1>5
  <2> QED BY <1>1, <1>3, <1>4, <2>1, <2>2
<1>6. ASSUME NEW b \in Heads(new) PROVE b + new[b] <= end + n
  BY <1>1, <1>3, <1>4
<1>7. ASSUME NEW u \in Start .. (end + n) - 1
      PROVE  \E b \in Heads(new) : b <= u /\ u < b + new[b]
  <2>1. CASE u < end
    <3>1. u \in Start .. end - 1
      BY <1>1, <2>1
    <3>2. PICK b \in Heads(sz) : b <= u /\ u < b + sz[b]
      BY <3>1 DEF Tiles
    <3> QED BY <1>3, <1>4, <3>2
  <2>2. CASE end <= u
    BY <1>1, <1>3, <2>2
  <2> QED BY <1>1, <2>1, <2>2
<1>8. Tiles(new, end + n)
  BY <1>5, <1>6, <1>7, Zenon DEF Tiles
<1> QED BY <1>2, <1>3, <1>8

\* Block a keeps its first m units, the rest is a block at q.
LEMMA Cuts ==
  ASSUME NEW sz, NEW new, Sized(sz), NEW end \in Start .. heap_max, Tiles(sz, end),
         NEW a \in Heads(sz), NEW m \in Nat \ {0}, m < sz[a], NEW q, q = a + m,
         new[a] = m, new[q] = sz[a] - m, \A u \in Units \ {a, q} : new[u] = sz[u]
  PROVE  /\ q \in Units \ Heads(sz) /\ q # a
         /\ Heads(new) = Heads(sz) \cup {q}
         /\ Tiles(new, end)
<1>1. /\ \A y \in Units : y \in Nat
      /\ Start = 1 /\ heap_max \in Nat /\ end \in Nat /\ end <= heap_max
      /\ \A y \in Nat : 1 <= y /\ y < heap_max => y \in Units
  BY Places
<1>2. \A b \in Heads(sz) : b \in Units /\ b \in Nat /\ 1 <= b /\ sz[b] \in Nat /\ 0 < sz[b]
                           /\ b + sz[b] <= end
  BY <1>1, Places DEF Heads, Sized, Tiles
<1>3. \A b \in Heads(sz) : (b < a => b + sz[b] <= a) /\ (a < b => a + sz[a] <= b)
  BY DEF Tiles
<1>4. q \in Nat /\ q \in Units /\ q # a /\ a < q /\ q + new[q] = a + sz[a]
  BY <1>1, <1>2
<1>5. q \notin Heads(sz)
  BY <1>2, <1>3, <1>4
<1>6. \A b \in Heads(sz) : b = a \/ new[b] = sz[b]
  BY <1>2, <1>5
<1>7. Heads(new) = Heads(sz) \cup {q}
  <2>1. new[q] # 0 /\ new[a] # 0 /\ sz[a] # 0
    BY <1>2
  <2>2. \A x \in Units : new[x] # 0 <=> sz[x] # 0 \/ x = q
    BY <1>4, <2>1
  <2> QED BY <1>4, <2>2, Zenon DEF Heads
<1>8. ASSUME NEW x \in Heads(new), NEW y \in Heads(new), x < y PROVE x + new[x] <= y
  <2>1. x \in Heads(sz) /\ y \in Heads(sz) => x + sz[x] <= y
    BY <1>8 DEF Tiles
  <2>2. CASE x = q
    BY <1>2, <1>3, <1>4, <1>7, <1>8, <2>2
  <2>3. CASE y = q
    BY <1>2, <1>3, <1>4, <1>6, <1>7, <1>8, <2>3
  <2>4. CASE x # q /\ y # q
    BY <1>2, <1>3, <1>6, <1>7, <1>8, <2>1, <2>4
  <2> QED BY <2>2, <2>3, <2>4
<1>9. ASSUME NEW b \in Heads(new) PROVE b + new[b] <= end
  BY <1>1, <1>2, <1>4, <1>6, <1>7
<1>10. ASSUME NEW u \in Start .. end - 1
       PROVE  \E b \in Heads(new) : b <= u /\ u < b + new[b]
  <2>1. PICK b \in Heads(sz) : b <= u /\ u < b + sz[b]
    BY DEF Tiles
  <2>2. CASE b = a /\ u < q
    BY <1>2, <1>4, <1>7, <2>1, <2>2
  <2>3. CASE b = a /\ q <= u
    BY <1>2, <1>4, <1>7, <2>1, <2>3
  <2>4. CASE b # a
    BY <1>6, <1>7, <2>1, <2>4
  <2> QED BY <1>1, <1>4, <2>2, <2>3, <2>4
<1>11. Tiles(new, end)
  BY <1>8, <1>9, <1>10, Zenon DEF Tiles
<1> QED BY <1>4, <1>5, <1>7, <1>11

\* Block a takes in block b, which begins where it ends.
LEMMA Joins ==
  ASSUME NEW sz, NEW new, Sized(sz), NEW end \in Start .. heap_max, Tiles(sz, end),
         NEW a \in Heads(sz), NEW b \in Heads(sz), a + sz[a] = b,
         new[a] = sz[a] + sz[b], new[b] = 0, \A u \in Units \ {a, b} : new[u] = sz[u]
  PROVE  /\ a < b
         /\ Heads(new) = Heads(sz) \ {b}
         /\ Tiles(new, end)
<1>1. (\A y \in Units : y \in Nat) /\ Start = 1 /\ heap_max \in Nat /\ end \in Nat
  BY Places
<1>2. \A x \in Heads(sz) : x \in Units /\ x \in Nat /\ sz[x] \in Nat /\ 0 < sz[x]
                           /\ x + sz[x] <= end
  BY <1>1, Places DEF Heads, Sized, Tiles
<1>3. \A x, y \in Heads(sz) : x < y => x + sz[x] <= y
  BY DEF Tiles
<1>4. a < b
  BY <1>2
<1>5. Heads(new) = Heads(sz) \ {b}
  <2>1. new[a] # 0 /\ sz[a] # 0
    BY <1>2
  <2>2. \A x \in Units : new[x] # 0 <=> sz[x] # 0 /\ x # b
    BY <2>1
  <2> QED BY <2>2 DEF Heads
<1>6. \A x \in Heads(new) : x = a \/ new[x] = sz[x]
  BY <1>2, <1>5
<1>7. ASSUME NEW x \in Heads(new), NEW y \in Heads(new), x < y PROVE x + new[x] <= y
  <2>1. x + sz[x] <= y
    BY <1>3, <1>5, <1>7
  <2>2. CASE x = a
    <3>1. b < y
      BY <1>2, <1>5, <2>1, <2>2
    <3>2. b + sz[b] <= y
      BY <1>3, <1>5, <3>1
    <3> QED BY <1>2, <1>5, <2>2, <3>2
  <2>3. CASE x # a
    BY <1>6, <2>1, <2>3
  <2> QED BY <2>2, <2>3
<1>8. ASSUME NEW x \in Heads(new) PROVE x + new[x] <= end
  BY <1>2, <1>5, <1>6
<1>9. ASSUME NEW u \in Start .. end - 1
      PROVE  \E x \in Heads(new) : x <= u /\ u < x + new[x]
  <2>1. PICK x \in Heads(sz) : x <= u /\ u < x + sz[x]
    BY DEF Tiles
  <2>2. a \in Heads(new)
    BY <1>2, <1>4, <1>5
  <2>3. CASE x = a \/ x = b
    BY <1>1, <1>2, <1>4, <2>1, <2>2, <2>3
  <2>4. CASE x # a /\ x # b
    BY <1>5, <1>6, <2>1, <2>4
  <2> QED BY <2>3, <2>4
<1>10. Tiles(new, end)
  BY <1>7, <1>8, <1>9, Zenon DEF Tiles
<1> QED BY <1>4, <1>5, <1>10

-----------------------------------------------------------------------------
(* The steps *)

\* What the invariant says of the blocks and of the list, typed.
LEMMA HeapFacts ==
  ASSUME HeapInv
  PROVE  /\ Sized(size) /\ Ring \in SUBSET Addr /\ base \in Ring /\ size[base] = 0
         /\ heap_current \in Nat
         /\ \A b \in Headed : /\ b \in Units /\ b \in Nat /\ 1 <= b
                              /\ size[b] \in Nat /\ 0 < size[b] /\ b + size[b] <= heap_current
         /\ \A b \in Ring : /\ b \in Nat /\ size[b] \in Nat /\ next[b] \in Ring
                            /\ next[b] \in Nat /\ (b # base => b \in Unused /\ b \in Headed)
         /\ Unused \subseteq Headed /\ Headed \subseteq Units
<1> USE DEF HeapInv
<1>1. Headed \subseteq Units /\ Unused \subseteq Headed
  BY DEF Headed, Heads, Unused
<1>2. Sized(size) /\ size[base] = 0
  BY Places DEF Types, Sized
<1>3. Ring \in SUBSET Addr /\ base \in Ring
  BY <1>1, Places, Zenon DEF Ring
<1>4. heap_current \in Nat
  BY Places DEF Types
<1>5. ASSUME NEW b \in Headed
      PROVE  /\ b \in Units /\ b \in Nat /\ 1 <= b
             /\ size[b] \in Nat /\ 0 < size[b] /\ b + size[b] <= heap_current
  <2>1. b \in Units /\ size[b] # 0 /\ b + size[b] <= heap_current
    BY DEF Headed, Heads, Tiles
  <2> QED BY <1>2, <2>1, Places DEF Sized
<1>6. ASSUME NEW b \in Ring
      PROVE  /\ b \in Nat /\ size[b] \in Nat /\ next[b] \in Ring
             /\ next[b] \in Nat /\ (b # base => b \in Unused /\ b \in Headed)
  <2>1. b # base => b \in Unused /\ b \in Headed
    BY <1>1 DEF Ring
  <2>2. size[b] \in Nat
    BY <1>2, <1>5, <2>1
  <2>3. next[b] \in Ring
    BY Zenon DEF Linked
  <2>4. \A a \in Ring : a \in Nat
    BY <1>3, Places
  <2> QED BY <2>1, <2>2, <2>3, <2>4, Zenon
<1> QED BY <1>1, <1>2, <1>3, <1>4, <1>5, <1>6, Zenon

\* A step that changes no header and takes no block off the list.
LEMMA SameHeap ==
  ASSUME HeapInv, UNCHANGED <<next, size, heap_current>>, held' \subseteq Headed,
         Unused' = Unused
  PROVE  /\ Types' /\ Tiles(size', heap_current')
         /\ Linked(Ring', next') /\ Apart(Ring', next', size')
         /\ Ring' = Ring /\ Headed' = Headed
<1>1. Headed' = Headed /\ Ring' = Ring
  BY Zenon DEF Headed, Ring, base
<1>2. Types'
  BY <1>1 DEF HeapInv, Types
<1> QED BY <1>1, <1>2 DEF HeapInv

\* kmalloc starts its search at freep, which is in the list.
LEMMA KmallocInv == ASSUME HeapInv, NEW n \in Sizes, Kmalloc(n) PROVE HeapInv'
<1>1. UNCHANGED <<next, size, heap_current, held>> /\ pc = "idle" /\ pc' = "search"
      /\ freep' \in {freep, base} /\ freep' # NULL /\ prevp' = freep' /\ p' = next[freep']
      /\ nunits' = n
  BY Places DEF Kmalloc, pageVars
<1>2. Unused' = Unused
  BY <1>1 DEF Unused, Headed, InTransit
<1>3. held' \subseteq Headed
  BY <1>1 DEF HeapInv, Types
<1>4. /\ Types' /\ Tiles(size', heap_current') /\ Linked(Ring', next')
      /\ Apart(Ring', next', size') /\ Ring' = Ring
  BY <1>1, <1>2, <1>3, SameHeap
<1>5. freep' \in Ring
  BY <1>1, HeapFacts DEF HeapInv, Locals
<1>6. Seen' = {}
  <2>1. ~ (prevp' < freep') /\ ~ (freep' < prevp')
    BY <1>1, <1>5, HeapFacts
  <2> QED BY <2>1 DEF Seen
<1>7. Locals'
  BY <1>1, <1>4, <1>5, <1>6 DEF Locals
<1> QED BY <1>4, <1>7 DEF HeapInv

\* While the first call is still to come there is no block.
LEMMA NoBlocksYet == ASSUME HeapInv, freep = NULL PROVE Headed = {}
<1>1. heap_current = 1
  BY Places DEF HeapInv, Locals
<1> QED BY <1>1, HeapFacts

\* kfree takes a block from its caller and starts to walk the list.
LEMMA KfreeInv == ASSUME HeapInv, NEW b \in held, Kfree(b) PROVE HeapInv'
<1>1. /\ UNCHANGED <<next, size, freep, heap_current, nunits>>
      /\ pc = "idle" /\ pc' = "place" /\ held' = held \ {b} /\ bp' = b /\ p' = freep
  BY DEF Kfree, pageVars, listVars
<1>2. b \in Headed /\ held \subseteq Headed
  BY DEF HeapInv, Types
<1>3. Unused' = Unused
  BY <1>1 DEF Unused, Headed, InTransit
<1>4. /\ Types' /\ Tiles(size', heap_current') /\ Linked(Ring', next')
      /\ Apart(Ring', next', size') /\ Ring' = Ring /\ Headed' = Headed
  <2>1. held' \subseteq Headed
    BY <1>1, <1>2
  <2> QED BY <1>1, <1>3, <2>1, SameHeap
<1>5. freep \in Ring /\ freep # NULL
  <2>1. freep # NULL
    BY <1>2, NoBlocksYet
  <2> QED BY <2>1 DEF HeapInv, Locals
<1>6. nunits = 0
  BY <1>1 DEF HeapInv, Locals
<1>7. Locals'
  BY <1>1, <1>2, <1>4, <1>5, <1>6 DEF Locals
<1> QED BY <1>4, <1>7 DEF HeapInv

\* A step of kfree's loop.
LEMMA WalkOnInv == ASSUME HeapInv, WalkOn PROVE HeapInv'
<1>1. /\ UNCHANGED <<next, size, freep, heap_current, held, pc, bp, nunits>>
      /\ pc = "place" /\ p' = next[p]
  BY DEF WalkOn, pageVars, listVars
<1>2. Unused' = Unused
  BY <1>1 DEF Unused, Headed, InTransit
<1>3. held' \subseteq Headed
  BY <1>1 DEF HeapInv, Types
<1>4. /\ Types' /\ Tiles(size', heap_current') /\ Linked(Ring', next')
      /\ Apart(Ring', next', size') /\ Ring' = Ring /\ Headed' = Headed
  BY <1>1, <1>2, <1>3, SameHeap
<1>5. next[p] \in Ring
  BY <1>1, HeapFacts DEF HeapInv, Locals
<1>6. Locals'
  BY <1>1, <1>4, <1>5, Zenon DEF HeapInv, Locals
<1> QED BY <1>4, <1>6 DEF HeapInv

\* Frames that go to others are not the heap's.
LEMMA OthersUseFramesInv == ASSUME HeapInv, OthersUseFrames PROVE HeapInv'
<1>1. /\ UNCHANGED <<next, size, freep, heap_current, held, pc, nunits>>
      /\ pc = "idle"
  BY DEF OthersUseFrames, listVars, localVars
<1>2. Unused' = Unused
  BY <1>1 DEF Unused, Headed, InTransit
<1>3. held' \subseteq Headed
  BY <1>1 DEF HeapInv, Types
<1>4. /\ Types' /\ Tiles(size', heap_current') /\ Linked(Ring', next')
      /\ Apart(Ring', next', size') /\ Ring' = Ring
  BY <1>1, <1>2, <1>3, SameHeap
<1>5. Locals'
  BY <1>1, <1>4 DEF HeapInv, Locals
<1> QED BY <1>4, <1>5 DEF HeapInv

\* morecore without frames leaves the list as it was.
LEMMA MorecoreFailsInv == ASSUME HeapInv, MorecoreFails PROVE HeapInv'
<1>1. /\ UNCHANGED <<next, size, freep, heap_current, held>>
      /\ pc = "morecore" /\ pc' = "idle" /\ nunits' = 0
  BY DEF MorecoreFails, Return, listVars, pageVars
<1>2. Unused' = Unused
  BY <1>1 DEF Unused, Headed, InTransit
<1>3. held' \subseteq Headed
  BY <1>1 DEF HeapInv, Types
<1>4. /\ Types' /\ Tiles(size', heap_current') /\ Linked(Ring', next')
      /\ Apart(Ring', next', size') /\ Ring' = Ring
  BY <1>1, <1>2, <1>3, SameHeap
<1>5. Locals'
  BY <1>1, <1>4 DEF HeapInv, Locals
<1> QED BY <1>4, <1>5 DEF HeapInv

\* One step of the search: everything between prevp and p, around the end, is p.
LEMMA SearchSees ==
  ASSUME HeapInv, pc = "search"
  PROVE  /\ p = freep => \A b \in Ring : b \in Seen \/ b = p \/ b = base
         /\ p # freep => \A b \in Ring : \/ freep < p /\ freep < b /\ b <= p
                                         \/ p < freep /\ (freep < b \/ b <= p)
                                         => b \in Seen \/ b = p \/ b = base
<1>1. prevp \in Ring /\ freep \in Ring /\ p \in Ring /\ next[prevp] = p
  BY HeapFacts DEF HeapInv, Locals
<1>2. /\ p = base => \A b \in Ring : b <= prevp
      /\ p # base => prevp < p /\ \A b \in Ring : b <= prevp \/ p <= b
  BY <1>1, Zenon DEF HeapInv, Linked
<1>3. base = 0 /\ (\A b \in Ring : b \in Nat)
  BY HeapFacts, Places
<1>4. prevp \in Nat /\ freep \in Nat /\ p \in Nat
  BY <1>1, <1>3
<1>5. ASSUME NEW b \in Ring
      PROVE  b \in Seen <=> \/ freep < prevp /\ freep < b /\ b <= prevp
                            \/ prevp < freep /\ (freep < b \/ b <= prevp)
  BY DEF Seen
<1>6. ASSUME p = freep, NEW b \in Ring PROVE b \in Seen \/ b = p \/ b = base
  <2>1. b \in Nat
    BY <1>3
  <2>2. p = base => b <= prevp
    BY <1>2
  <2>3. p # base => prevp < p /\ (b <= prevp \/ p <= b)
    BY <1>2
  <2> QED BY <1>3, <1>4, <1>5, <1>6, <2>1, <2>2, <2>3
<1>7. ASSUME p # freep, NEW b \in Ring,
             \/ freep < p /\ freep < b /\ b <= p
             \/ p < freep /\ (freep < b \/ b <= p)
      PROVE  b \in Seen \/ b = p \/ b = base
  <2>1. b \in Nat
    BY <1>3
  <2>2. p = base => b <= prevp /\ freep <= prevp
    BY <1>1, <1>2
  <2>3. p # base => prevp < p /\ (b <= prevp \/ p <= b) /\ (freep <= prevp \/ p <= freep)
    BY <1>1, <1>2
  <2> QED BY <1>3, <1>4, <1>5, <1>7, <2>1, <2>2, <2>3
<1> QED BY <1>6, <1>7

\* A step of kmalloc's loop.
LEMMA SearchOnInv == ASSUME HeapInv, SearchOn PROVE HeapInv'
<1>1. /\ UNCHANGED <<next, size, freep, heap_current, held, nunits>>
      /\ pc = "search" /\ pc' \in {"search", "morecore"} /\ size[p] < nunits
      /\ pc' = "morecore" => p = freep
      /\ pc' = "search" => p # freep /\ prevp' = p /\ p' = next[p]
  BY Zenon DEF SearchOn, pageVars, listVars
<1>2. Unused' = Unused
  BY <1>1 DEF Unused, Headed, InTransit
<1>3. held' \subseteq Headed
  BY <1>1 DEF HeapInv, Types
<1>4. /\ Types' /\ Tiles(size', heap_current') /\ Linked(Ring', next')
      /\ Apart(Ring', next', size') /\ Ring' = Ring
  BY <1>1, <1>2, <1>3, SameHeap, Zenon
<1>5. prevp \in Ring /\ freep \in Ring /\ p \in Ring /\ nunits \in Sizes
      /\ \A b \in Seen : size[b] < nunits
  BY <1>1, HeapFacts DEF HeapInv, Locals
<1>6. size[base] < nunits
  BY <1>5, KHeapAssumption, HeapFacts
<1>7. pc' = "morecore" => \A b \in Ring : size[b] < nunits
  BY <1>1, <1>5, <1>6, SearchSees
<1>8. pc' = "search" => \A b \in Seen' : size[b] < nunits
  <2> HAVE pc' = "search"
  <2>1. ASSUME NEW b \in Seen'
        PROVE  b \in Ring /\ ( \/ freep < p /\ freep < b /\ b <= p
                               \/ p < freep /\ (freep < b \/ b <= p) )
    BY <1>1, <1>4 DEF Seen
  <2> QED BY <1>1, <1>5, <1>6, <2>1, SearchSees
<1>9. Locals'
  BY <1>1, <1>4, <1>5, <1>7, <1>8 DEF HeapInv, Locals
<1> QED BY <1>4, <1>9 DEF HeapInv

\* The block that a search found is no sentinel.
LEMMA FoundBlock ==
  ASSUME HeapInv, pc = "search", size[p] >= nunits
  PROVE  /\ prevp \in Ring /\ p \in Unused /\ p \in Headed /\ p \in Ring
         /\ next[prevp] = p /\ p # base /\ nunits \in Nat \ {0}
<1>1. prevp \in Ring /\ p = next[prevp] /\ nunits \in Sizes
  BY Zenon DEF HeapInv, Locals
<1>2. p \in Ring /\ nunits \in Nat \ {0}
  BY <1>1, HeapFacts, KHeapAssumption
<1>3. p # base
  BY <1>2, HeapFacts
<1> QED BY <1>1, <1>2, <1>3, HeapFacts

\* After Found the locals are gone.
LEMMA FoundLocals ==
  ASSUME Found, freep' \in Ring'
  PROVE  Locals'
<1>1. pc' = "idle" /\ nunits' = 0
  BY DEF Found, Return
<1>2. freep' # NULL \/ heap_current' = Start \/ freep' = NULL
  OBVIOUS
<1> QED BY <1>1, Places DEF Locals, Ring, Unused, Headed, Heads

\* A block that fits leaves the list.
LEMMA ExactFitInv == ASSUME HeapInv, Found, ExactFit PROVE HeapInv'
<1>1. /\ UNCHANGED <<size, heap_current>> /\ pc = "search" /\ pc' = "idle"
      /\ size[p] = nunits /\ held' = held \cup {p} /\ freep' = prevp
      /\ next' = [next EXCEPT ![prevp] = next[p], ![p] = base]
  BY DEF Found, ExactFit, Return, pageVars
<1>2. /\ prevp \in Ring /\ p \in Unused /\ p \in Headed /\ p \in Ring
      /\ next[prevp] = p /\ p # base
  <2>1. size[p] >= nunits
    BY <1>1, HeapFacts DEF HeapInv, Locals
  <2> QED BY <1>1, <2>1, FoundBlock
<1>3. Headed' = Headed /\ Unused' = Unused \ {p} /\ Ring' = Ring \ {p}
  <2>1. Headed' = Headed
    BY <1>1 DEF Headed
  <2>2. InTransit = {} /\ InTransit' = {}
    BY <1>1 DEF InTransit
  <2>3. Unused' = Unused \ {p}
    BY <1>1, <2>1, <2>2 DEF Unused
  <2> QED BY <1>2, <2>1, <2>3 DEF Ring, base
<1>4. next \in [Addr -> Addr] /\ Ring \in SUBSET Addr /\ base \in Addr
  BY HeapFacts, Places DEF HeapInv, Types
<1>5. prevp # p
  <2>1. prevp < p
    BY <1>2, Zenon DEF HeapInv, Linked
  <2> QED BY <1>2, <2>1, HeapFacts
<1>6. next'[prevp] = next[p] /\ \A x \in Ring \ {prevp, p} : next'[x] = next[x]
  BY <1>1, <1>2, <1>4, <1>5
<1>7. /\ prevp < p /\ next[p] \in Ring /\ (next[p] # base => p < next[p])
      /\ Linked(Ring', next')
  BY <1>2, <1>3, <1>4, <1>6, LinkOut DEF HeapInv
<1>8. Types'
  <2>1. next' \in [Addr -> Addr]
    BY <1>1, <1>2, <1>4
  <2> QED BY <1>1, <1>2, <1>3, <2>1 DEF HeapInv, Types
<1>9. Apart(Ring', next', size')
  <2> SUFFICES ASSUME NEW b \in Ring', next'[b] # base PROVE b + size[b] < next'[b]
    BY <1>1, Zenon DEF Apart
  <2>1. b \in Ring /\ b # p /\ (next[b] # base => b + size[b] < next[b])
    BY <1>3 DEF HeapInv, Apart
  <2>2. CASE b = prevp
    <3>1. next'[b] = next[p] /\ p < next[p] /\ b + size[b] < p
      BY <1>2, <1>6, <1>7, <2>1, <2>2
    <3> QED BY <1>2, <2>1, <3>1, HeapFacts
  <2>3. CASE b # prevp
    BY <1>6, <2>1, <2>3
  <2> QED BY <2>2, <2>3
<1>10. Locals'
  BY <1>1, <1>2, <1>3, <1>5, FoundLocals
<1>11. Tiles(size', heap_current')
  BY <1>1 DEF HeapInv
<1> QED BY <1>7, <1>8, <1>9, <1>10, <1>11 DEF HeapInv

\* The tail of a larger block becomes the caller's.
LEMMA SplitInv == ASSUME HeapInv, Found, Split PROVE HeapInv'
<1> DEFINE rest == size[p] - nunits
           q == p + rest
<1>1. /\ UNCHANGED <<next, heap_current>> /\ pc = "search" /\ pc' = "idle"
      /\ size[p] > nunits /\ held' = held \cup {q} /\ freep' = prevp
      /\ size' = [size EXCEPT ![p] = rest, ![q] = nunits]
  BY DEF Found, Split, Return, pageVars
<1>2. /\ prevp \in Ring /\ p \in Unused /\ p \in Headed /\ p \in Ring
      /\ next[prevp] = p /\ p # base /\ nunits \in Nat \ {0}
  <2>1. size[p] >= nunits
    <3>1. nunits \in Nat /\ size[p] \in Nat
      <4>1. nunits \in Sizes /\ prevp \in Ring /\ p = next[prevp]
        BY <1>1 DEF HeapInv, Locals
      <4> QED BY <4>1, KHeapAssumption, HeapFacts
    <3> QED BY <1>1, <3>1
  <2> QED BY <1>1, <2>1, FoundBlock
<1>3. rest \in Nat \ {0} /\ rest < size[p] /\ q = p + rest /\ nunits = size[p] - rest
      /\ p \in Nat /\ size[p] \in Nat
  BY <1>1, <1>2, HeapFacts
<1>4. size \in [Addr -> Nat] /\ p \in Addr
  BY <1>2, HeapFacts DEF HeapInv, Types
<1>5. q \in Units /\ q # p
  <2>1. p + size[p] <= heap_current /\ 1 <= p
    BY <1>2, HeapFacts
  <2>2. heap_current \in Nat /\ heap_current <= heap_max
    BY Places DEF HeapInv, Types
  <2> QED BY <1>3, <2>1, <2>2, Places
<1> HIDE DEF rest, q
<1>6. size'[p] = rest /\ size'[q] = size[p] - rest
      /\ \A u \in Addr \ {p, q} : size'[u] = size[u]
  BY <1>1, <1>3, <1>4, <1>5, Places
<1>7. q \notin Headed /\ Headed' = Headed \cup {q} /\ Tiles(size', heap_current')
  <2>1. heap_current \in Start .. heap_max /\ Tiles(size, heap_current) /\ Sized(size)
    BY HeapFacts DEF HeapInv, Types
  <2>2. \A u \in Units \ {p, q} : size'[u] = size[u]
    BY <1>6, Places
  <2>3. p \in Heads(size)
    BY <1>2 DEF Headed
  <2>4. q \in Units \ Heads(size) /\ Heads(size') = Heads(size) \cup {q}
        /\ Tiles(size', heap_current)
    BY <1>3, <1>6, <2>1, <2>2, <2>3, Cuts
  <2> QED BY <1>1, <2>4, Zenon DEF Headed
<1>8. Ring' = Ring
  <2>1. InTransit = {} /\ InTransit' = {}
    BY <1>1 DEF InTransit
  <2>2. Unused' = Unused
    BY <1>1, <1>7, <2>1 DEF Unused
  <2> QED BY <2>2 DEF Ring
<1>9. Types'
  <2>1. size' \in [Addr -> Nat]
    BY <1>1, <1>2, <1>3, <1>4, <1>5, Places
  <2>2. size'[base] = 0
    BY <1>2, <1>5, <1>6, HeapFacts, Places
  <2> QED BY <1>1, <1>7, <2>1, <2>2 DEF HeapInv, Types
<1>10. Apart(Ring', next', size')
  <2> SUFFICES ASSUME NEW b \in Ring, next[b] # base PROVE b + size'[b] < next[b]
    BY <1>1, <1>8, Zenon DEF Apart
  <2>1. b + size[b] < next[b]
    BY DEF HeapInv, Apart
  <2>2. b # q /\ b \in Addr
    BY <1>5, <1>7, HeapFacts, Places
  <2>3. CASE b = p
    BY <1>2, <1>3, <1>6, <2>1, <2>3, HeapFacts
  <2>4. CASE b # p
    BY <1>6, <2>1, <2>2, <2>4
  <2> QED BY <2>3, <2>4
<1>11. Locals'
  BY <1>1, <1>2, <1>8, FoundLocals
<1>12. Linked(Ring', next')
  BY <1>1, <1>8 DEF HeapInv
<1> QED BY <1>7, <1>9, <1>10, <1>11, <1>12 DEF HeapInv

\* ksbrk takes at least one page.
LEMMA PagesForSome == ASSUME NEW n \in Nat \ {0} PROVE PagesFor(n) \in Nat \ {0}
<1> DEFINE m == Max({n, NALLOC})
<1>1. m \in Nat /\ m >= 1
  <2>1. \E x \in {n, NALLOC} : \A y \in {n, NALLOC} : x >= y
    BY KHeapAssumption
  <2>2. m \in {n, NALLOC} /\ \A y \in {n, NALLOC} : m >= y
    BY <2>1, Zenon DEF Max
  <2> QED BY <2>2, KHeapAssumption
<1>2. PagesFor(n) = (m + PageUnits - 1) \div PageUnits
  BY Zenon DEF PagesFor
<1> HIDE DEF m
<1>3. PageUnits \in Nat \ {0}
  BY KHeapAssumption
<1> QED BY <1>1, <1>2, <1>3

\* A product of two positive numbers is positive.
LEMMA TimesSome == ASSUME NEW x \in Nat \ {0}, NEW y \in Nat \ {0} PROVE x * y \in Nat \ {0}
OBVIOUS

\* morecore adds whole pages at the end of the heap, as one block.
LEMMA MorecoreInv == ASSUME HeapInv, Morecore PROVE HeapInv'
<1> DEFINE grown == PagesFor(nunits) * PageUnits
<1>1. /\ UNCHANGED <<next, freep, held, nunits>> /\ pc = "morecore" /\ pc' = "place"
      /\ heap_current + grown <= heap_max /\ heap_current' = heap_current + grown
      /\ size' = [size EXCEPT ![heap_current] = grown]
      /\ bp' = heap_current /\ p' = freep
  BY DEF Morecore
<1>2. freep \in Ring /\ nunits \in Sizes
  BY <1>1 DEF HeapInv, Locals
<1>3. grown \in Nat \ {0}
  <2>1. nunits \in Nat \ {0} /\ PageUnits \in Nat \ {0}
    BY <1>2, KHeapAssumption
  <2> QED BY <2>1, PagesForSome, TimesSome
<1> HIDE DEF grown
<1>4. heap_current \in Units /\ size \in [Addr -> Nat] /\ heap_current' \in Start .. heap_max
  BY <1>1, <1>3, Places DEF HeapInv, Types
<1>5. size'[heap_current] = grown /\ \A u \in Addr \ {heap_current} : size'[u] = size[u]
  BY <1>1, <1>4, Places
<1>6. heap_current \notin Headed /\ Headed' = Headed \cup {heap_current}
      /\ Tiles(size', heap_current')
  <2>1. \A u \in Units \ {heap_current} : size'[u] = size[u]
    BY <1>5, Places
  <2>2. Sized(size) /\ Tiles(size, heap_current)
    BY HeapFacts DEF HeapInv
  <2>3. heap_current \notin Heads(size) /\ Heads(size') = Heads(size) \cup {heap_current}
        /\ Tiles(size', heap_current + grown)
    BY <1>3, <1>4, <1>5, <2>1, <2>2, Grows
  <2> QED BY <1>1, <2>3, Zenon DEF Headed
<1>7. Ring' = Ring
  <2>1. InTransit = {} /\ InTransit' = {heap_current}
    BY <1>1 DEF InTransit
  <2>2. Unused' = Unused
    BY <1>1, <1>6, <2>1 DEF Unused
  <2> QED BY <2>2 DEF Ring
<1>8. held \subseteq Headed
  BY DEF HeapInv, Types
<1>9. Types'
  <2>1. size' \in [Addr -> Nat]
    BY <1>1, <1>3, <1>4, Places
  <2>2. size'[base] = 0
    BY <1>4, <1>5, HeapFacts, Places
  <2> QED BY <1>1, <1>4, <1>6, <1>8, <2>1, <2>2 DEF HeapInv, Types
<1>10. Apart(Ring', next', size')
  <2>1. \A b \in Ring : size'[b] = size[b]
    BY <1>4, <1>5, <1>6, HeapFacts, Places
  <2> QED BY <1>1, <1>7, <2>1, Zenon DEF HeapInv, Apart
<1>11. Locals'
  <2>1. bp' \in Headed' \ held'
    BY <1>1, <1>6, <1>8
  <2> QED BY <1>1, <1>2, <1>7, <2>1, HeapFacts, Places DEF Locals
<1>12. Linked(Ring', next')
  BY <1>1, <1>7 DEF HeapInv
<1> QED BY <1>6, <1>9, <1>10, <1>11, <1>12 DEF HeapInv

\* Where kfree stops, bp belongs between p and the block after it.
LEMMA PlaceFacts ==
  ASSUME HeapInv, Place
  PROVE  /\ pc = "place" /\ p \in Ring /\ bp \in Headed /\ bp \notin held /\ bp \notin Ring
         /\ bp # base /\ next[p] \in Ring /\ p < bp /\ (next[p] # base => bp < next[p])
         /\ \A c \in Ring : c <= p \/ bp < c
<1>1. pc = "place" /\ Follows(bp, p)
  BY DEF Place
<1>2. p \in Ring /\ bp \in Headed /\ bp \notin held
  BY <1>1 DEF HeapInv, Locals
<1>3. bp # base /\ base = 0 /\ bp \in Nat /\ 1 <= bp /\ p \in Nat /\ next[p] \in Nat
      /\ next[p] \in Ring
  BY <1>2, HeapFacts, Places
<1>4. bp \notin Ring
  BY <1>1, <1>3 DEF Ring, Unused, InTransit
<1>5. /\ next[p] = base => \A c \in Ring : c <= p
      /\ next[p] # base => p < next[p] /\ \A c \in Ring : c <= p \/ next[p] <= c
  BY <1>2, Zenon DEF HeapInv, Linked
<1>6. p < bp /\ (next[p] # base => bp < next[p])
  BY <1>1, <1>3, <1>5 DEF Follows
<1>7. \A c \in Ring : c <= p \/ bp < c
  <2> TAKE c \in Ring
  <2>1. c \in Nat
    BY HeapFacts
  <2> QED BY <1>3, <1>5, <1>6, <2>1
<1> QED BY <1>1, <1>2, <1>3, <1>4, <1>6, <1>7

\* What Insert computes.
Upper == Touches(bp, next[p])
Lower == Touches(p, bp)
Above == IF Upper THEN {next[p]} ELSE {}
Beyond == IF Upper THEN next[next[p]] ELSE next[p]
Whole == size[bp] + (IF Upper THEN size[next[p]] ELSE 0)

\* The steps of the insertion, when each of the two joins takes place.
LEMMA InsertSteps ==
  ASSUME Insert
  PROVE  IF Lower
         THEN Headers([size EXCEPT ![p] = @ + Whole], [next EXCEPT ![p] = Beyond], Above \cup {bp})
         ELSE Headers([size EXCEPT ![bp] = Whole],
                      [next EXCEPT ![bp] = Beyond, ![p] = bp], Above)
BY Zenon DEF Insert, Lower, Whole, Beyond, Above, Upper

\* Neighbours that touch bp are blocks, not the sentinel.
LEMMA Neighbours ==
  ASSUME HeapInv, Place
  PROVE  /\ Upper => next[p] # base /\ next[p] \in Headed /\ next[p] # bp /\ next[p] # p
         /\ Lower => p # base /\ p \in Headed
         /\ p # bp /\ p \in Addr /\ bp \in Units /\ bp \in Addr /\ Beyond \in Ring
         /\ Whole \in Nat /\ Whole # 0 /\ (Upper => next[p] \in Units) /\ Above \subseteq Units
<1>1. /\ p \in Ring /\ bp \in Headed /\ bp # base /\ next[p] \in Ring /\ p < bp
      /\ next[p] # base => bp < next[p]
  BY PlaceFacts
<1>2. /\ p \in Nat /\ bp \in Nat /\ next[p] \in Nat /\ base = 0 /\ size[base] = 0
      /\ size[bp] \in Nat /\ 1 <= bp /\ size[bp] # 0 /\ size[next[p]] \in Nat
  BY <1>1, HeapFacts, Places
<1>3. Upper => next[p] # base
  BY <1>2 DEF Upper, Touches
<1>4. Lower => p # base
  BY <1>2 DEF Lower, Touches
<1>5. p # bp /\ (Upper => next[p] # bp /\ next[p] # p)
  BY <1>1, <1>2, <1>3
<1>6. p \in Addr /\ bp \in Units /\ bp \in Addr
  BY <1>1, HeapFacts, Places
<1>7. (Upper => next[p] \in Headed /\ next[p] \in Units) /\ (Lower => p \in Headed)
  BY <1>1, <1>3, <1>4, HeapFacts
<1>8. Beyond \in Ring
  BY <1>1, HeapFacts DEF Beyond
<1>9. Whole \in Nat /\ Whole # 0
  BY <1>2 DEF Whole
<1> QED BY <1>3, <1>4, <1>5, <1>6, <1>7, <1>8, <1>9 DEF Above

\* The sizes and links that the insertion leaves, in each of its four cases.
LEMMA InsertFields ==
  ASSUME HeapInv, Place
  PROVE  /\ size' \in [Addr -> Nat] /\ next' \in [Addr -> Addr]
         /\ Lower => size'[p] = size[p] + Whole /\ size'[bp] = 0 /\ next'[p] = Beyond
         /\ ~ Lower => /\ size'[p] = size[p] /\ size'[bp] = Whole
                       /\ next'[p] = bp /\ next'[bp] = Beyond
         /\ \A a \in Above : size'[a] = 0
         /\ \A a \in Addr \ (Above \cup {p, bp}) : size'[a] = size[a] /\ next'[a] = next[a]
<1>1. Insert
  BY DEF Place
<1>2. /\ p # bp /\ p \in Addr /\ bp \in Addr /\ Whole \in Nat /\ Beyond \in Addr
      /\ p \notin Above /\ bp \notin Above /\ Above \subseteq Addr /\ size[p] \in Nat
      /\ base \in Addr
  <2>1. p \notin Above /\ bp \notin Above
    BY Neighbours DEF Above
  <2>2. Beyond \in Addr /\ size[p] \in Nat
    BY Neighbours, HeapFacts, PlaceFacts
  <2>3. Above \subseteq Addr /\ base \in Addr
    BY Neighbours, Places
  <2> QED BY <2>1, <2>2, <2>3, Neighbours
<1>3. size \in [Addr -> Nat] /\ next \in [Addr -> Addr]
  BY DEF HeapInv, Types
<1>4. CASE Lower
  <2>1. Headers([size EXCEPT ![p] = @ + Whole], [next EXCEPT ![p] = Beyond], Above \cup {bp})
    BY <1>1, <1>4, InsertSteps
  <2>2. [size EXCEPT ![p] = @ + Whole] \in [Addr -> Nat]
        /\ [next EXCEPT ![p] = Beyond] \in [Addr -> Addr]
    BY <1>2, <1>3
  <2>3. size' \in [Addr -> Nat] /\ next' \in [Addr -> Addr]
    BY <1>2, <2>1, <2>2 DEF Headers
  <2> QED BY <1>2, <1>3, <1>4, <2>1, <2>3 DEF Headers
<1>5. CASE ~ Lower
  <2>1. Headers([size EXCEPT ![bp] = Whole], [next EXCEPT ![bp] = Beyond, ![p] = bp], Above)
    BY <1>1, <1>5, InsertSteps
  <2>2. [size EXCEPT ![bp] = Whole] \in [Addr -> Nat]
        /\ [next EXCEPT ![bp] = Beyond, ![p] = bp] \in [Addr -> Addr]
    BY <1>2, <1>3
  <2>3. size' \in [Addr -> Nat] /\ next' \in [Addr -> Addr]
    BY <1>2, <2>1, <2>2 DEF Headers
  <2> QED BY <1>2, <1>3, <1>5, <2>1, <2>3 DEF Headers
<1> QED BY <1>4, <1>5

\* The blocks after Insert: merged upwards first, then downwards.
LEMMA InsertBlocks ==
  ASSUME HeapInv, Place
  PROVE  /\ Headed' = (Headed \ Above) \ (IF Lower THEN {bp} ELSE {})
         /\ Tiles(size', heap_current)
<1> DEFINE sz1 == [a \in Units |-> IF a = bp THEN Whole ELSE IF a \in Above THEN 0 ELSE size[a]]
           up == next[p]
<1>1. /\ bp \in Headed /\ bp \in Units /\ Above \subseteq Units /\ Whole \in Nat
      /\ p \in Ring /\ p # bp
  BY Neighbours, PlaceFacts
<1>2. sz1[bp] = Whole /\ (\A a \in Above : a # bp => sz1[a] = 0)
      /\ \A a \in Units \ (Above \cup {bp}) : sz1[a] = size[a]
  BY <1>1, Zenon
<1>3. heap_current \in Start .. heap_max /\ Tiles(size, heap_current) /\ Sized(size)
  BY HeapFacts DEF HeapInv, Types
<1>4. Sized(sz1)
  BY <1>1, <1>3 DEF Sized
<1> HIDE DEF sz1
<1>5. Heads(sz1) = Headed \ Above /\ Tiles(sz1, heap_current)
  <2>1. CASE Upper
    <3>1. bp \in Heads(size) /\ up \in Heads(size) /\ bp + size[bp] = up /\ up # bp
          /\ Above = {up} /\ Whole = size[bp] + size[up]
      BY <1>1, <2>1, Neighbours DEF Headed, Upper, Touches, Above, Whole
    <3>2. sz1[bp] = size[bp] + size[up] /\ sz1[up] = 0
          /\ \A a \in Units \ {bp, up} : sz1[a] = size[a]
      BY <1>2, <3>1
    <3> HIDE DEF up
    <3>3. Heads(sz1) = Heads(size) \ {up} /\ Tiles(sz1, heap_current)
      BY <1>3, <3>1, <3>2, Joins
    <3> QED BY <3>1, <3>3 DEF Headed
  <2>2. CASE ~ Upper
    <3>1. Above = {} /\ Whole = size[bp]
      <4>1. size[bp] \in Nat
        BY <1>1, HeapFacts
      <4> QED BY <2>2, <4>1 DEF Above, Whole
    <3>2. \A a \in Units : sz1[a] = size[a]
      BY <1>2, <3>1
    <3>3. Heads(sz1) = Heads(size)
      BY <3>2 DEF Heads
    <3>4. \A a \in Heads(size) : sz1[a] = size[a]
      BY <3>2 DEF Heads
    <3> QED BY <1>3, <3>1, <3>3, <3>4 DEF Headed, Tiles
  <2> QED BY <2>1, <2>2
<1>6. CASE Lower
  <2>1. p \in Headed /\ p \in Units /\ p \notin Above /\ bp \notin Above /\ p + size[p] = bp
    BY <1>6, Neighbours, HeapFacts DEF Above, Lower, Touches
  <2>2. p \in Heads(sz1) /\ bp \in Heads(sz1) /\ sz1[p] = size[p] /\ sz1[bp] = Whole
    BY <1>1, <1>2, <1>5, <2>1
  <2>3. /\ size'[p] = sz1[p] + sz1[bp] /\ size'[bp] = 0
        /\ \A u \in Units \ {p, bp} : size'[u] = sz1[u]
    <3>1. size'[p] = size[p] + Whole /\ size'[bp] = 0
      BY <1>6, InsertFields
    <3>2. ASSUME NEW u \in Units \ {p, bp} PROVE size'[u] = sz1[u]
      BY <1>2, InsertFields, Places
    <3> QED BY <2>2, <3>1, <3>2
  <2>4. p + sz1[p] = bp
    BY <2>1, <2>2
  <2>5. Heads(size') = Heads(sz1) \ {bp} /\ Tiles(size', heap_current)
    BY <1>3, <1>4, <1>5, <2>2, <2>3, <2>4, Joins
  <2> QED BY <1>5, <1>6, <2>5, Zenon DEF Headed
<1>7. CASE ~ Lower
  <2>1. ASSUME NEW u \in Units PROVE size'[u] = sz1[u]
    <3>1. CASE u = bp
      BY <1>2, <1>7, <3>1, InsertFields
    <3>2. CASE u \in Above /\ u # bp
      BY <1>2, <3>2, InsertFields
    <3>3. CASE u \notin Above /\ u # bp
      <4>1. sz1[u] = size[u]
        BY <1>2, <3>3
      <4>2. size'[u] = size[u]
        BY <1>7, <3>3, InsertFields, Places
      <4> QED BY <4>1, <4>2
    <3> QED BY <3>1, <3>2, <3>3
  <2>2. Heads(size') = Heads(sz1)
    BY <2>1 DEF Heads
  <2>3. \A a \in Heads(sz1) : size'[a] = sz1[a]
    BY <2>1 DEF Heads
  <2>4. Tiles(size', heap_current)
    BY <1>5, <2>2, <2>3 DEF Tiles
  <2>5. Headed' = Heads(sz1)
    BY <2>2, Zenon DEF Headed
  <2> QED BY <1>5, <1>7, <2>4, <2>5
<1> QED BY <1>6, <1>7

\* Where the links of the list are the same, it is ordered as before.
LEMMA SameLinks ==
  ASSUME NEW R, NEW nxt, NEW new, Linked(R, nxt), \A b \in R : new[b] = nxt[b]
  PROVE  Linked(R, new)
BY Zenon DEF Linked

\* The list after Insert: the upper neighbour leaves it, then bp enters it.
LEMMA InsertList ==
  ASSUME HeapInv, Place, Ring' = (Ring \ Above) \cup (IF Lower THEN {} ELSE {bp})
  PROVE  Linked(Ring', next')
<1> DEFINE nxt1 == [a \in Ring |-> IF a = p THEN Beyond ELSE next[a]]
           up == next[p]
           R == Ring \ Above
<1>1. p \in Ring /\ bp \notin Ring /\ bp \in Addr /\ p < bp /\ p \notin Above
      /\ (\A c \in Ring : c <= p \/ bp < c)
  BY PlaceFacts, Neighbours DEF Above
<1>2. nxt1[p] = Beyond /\ \A a \in Ring \ {p} : nxt1[a] = next[a]
  BY <1>1, Zenon
<1> HIDE DEF nxt1
<1>3. Ring \in SUBSET Addr /\ Linked(Ring, next)
  BY HeapFacts DEF HeapInv
<1>4. Linked(R, nxt1)
  <2>1. CASE Upper
    <3>1. up \in Ring /\ up # base /\ Above = {up} /\ Beyond = next[up]
      BY <2>1, PlaceFacts, Neighbours DEF Above, Beyond
    <3>2. nxt1[p] = next[up] /\ \A x \in Ring \ {p, up} : nxt1[x] = next[x]
      BY <1>2, <3>1
    <3>3. next[p] = up
      OBVIOUS
    <3> HIDE DEF up
    <3>4. Linked(Ring \ {up}, nxt1)
      BY <1>1, <1>3, <3>1, <3>2, <3>3, LinkOut
    <3> QED BY <3>1, <3>4
  <2>2. CASE ~ Upper
    <3>1. R = Ring /\ Beyond = next[p]
      BY <2>2 DEF Above, Beyond
    <3>2. \A b \in Ring : nxt1[b] = next[b]
      BY <1>2, <3>1
    <3> QED BY <1>3, <3>1, <3>2, SameLinks
  <2> QED BY <2>1, <2>2
<1>5. \A a \in R \ {p} : next'[a] = nxt1[a]
  <2> TAKE a \in R \ {p}
  <2>1. a \in Addr \ (Above \cup {p, bp})
    BY <1>1, <1>3
  <2> QED BY <1>2, <2>1, InsertFields
<1>6. CASE Lower
  <2>1. \A a \in R : next'[a] = nxt1[a]
    BY <1>2, <1>5, <1>6, InsertFields
  <2>2. Ring' = R
    BY <1>6
  <2> HIDE DEF R
  <2> QED BY <1>4, <2>1, <2>2, SameLinks
<1>7. CASE ~ Lower
  <2>1. next'[bp] = nxt1[p] /\ next'[p] = bp
    BY <1>2, <1>7, InsertFields
  <2>2. Ring' = R \cup {bp} /\ R \in SUBSET Addr /\ p \in R /\ bp \in Addr \ R
        /\ \A c \in R : c <= p \/ bp < c
    BY <1>1, <1>3, <1>7
  <2> HIDE DEF R
  <2>3. Linked(R \cup {bp}, next')
    BY <1>1, <1>4, <1>5, <2>1, <2>2, LinkIn
  <2> QED BY <2>2, <2>3
<1> QED BY <1>6, <1>7

\* After the insertion no two free blocks touch.
LEMMA InsertApart ==
  ASSUME HeapInv, Place, Ring' = (Ring \ Above) \cup (IF Lower THEN {} ELSE {bp})
  PROVE  Apart(Ring', next', size')
<1> DEFINE up == next[p]
<1>1. p \in Ring /\ bp \in Headed /\ bp \notin Ring /\ up \in Ring /\ p < bp
      /\ (up # base => bp < up) /\ base = 0 /\ Beyond \in Ring
  BY PlaceFacts, Neighbours, Places
<1>2. /\ p \in Nat /\ bp \in Nat /\ up \in Nat /\ Beyond \in Nat /\ size[p] \in Nat
      /\ size[bp] \in Nat /\ size[up] \in Nat /\ Whole \in Nat /\ size[base] = 0 /\ 1 <= bp
  BY <1>1, Neighbours, HeapFacts, Zenon
<1>3. \A x, y \in Headed : x < y => x + size[x] <= y
  BY DEF HeapInv, Tiles, Headed
<1>4. \A b \in Ring : next[b] # base => b + size[b] < next[b]
  BY DEF HeapInv, Apart
<1>5. Beyond # base => bp + Whole < Beyond
  <2>1. CASE Upper
    <3>1. Beyond = next[up] /\ Whole = size[bp] + size[up] /\ bp + size[bp] = up
      BY <2>1 DEF Beyond, Whole, Upper, Touches
    <3>2. Beyond # base => up + size[up] < Beyond
      BY <1>1, <1>4, <3>1
    <3> HIDE DEF up
    <3> QED BY <1>2, <3>1, <3>2
  <2>2. CASE ~ Upper
    <3>1. Beyond = up /\ Whole = size[bp] /\ bp + size[bp] # up
      BY <1>2, <2>2 DEF Beyond, Whole, Upper, Touches
    <3>2. up # base => up \in Headed /\ bp < up
      BY <1>1, HeapFacts
    <3>3. up # base => bp + size[bp] <= up
      BY <1>1, <1>3, <3>2
    <3> HIDE DEF up
    <3> QED BY <1>2, <3>1, <3>3
  <2> QED BY <2>1, <2>2
<1>6. ~ Lower => p + size[p] < bp
  <2>1. p # base => p \in Headed
    BY <1>1, HeapFacts
  <2>2. p # base => p + size[p] <= bp
    BY <1>1, <1>3, <2>1
  <2> QED BY <1>1, <1>2, <2>2 DEF Lower, Touches
<1> HIDE DEF up
<1>7. ASSUME NEW b \in Ring', next'[b] # base PROVE b + size'[b] < next'[b]
  <2>1. CASE b = p /\ Lower
    <3>1. size'[p] = size[p] + Whole /\ next'[p] = Beyond /\ p + size[p] = bp
      BY <2>1, InsertFields DEF Lower, Touches
    <3> QED BY <1>2, <1>5, <1>7, <2>1, <3>1
  <2>2. CASE b = p /\ ~ Lower
    BY <1>6, <2>2, InsertFields
  <2>3. CASE b = bp
    <3>1. ~ Lower
      BY <1>1, <2>3
    <3> QED BY <1>5, <1>7, <2>3, <3>1, InsertFields
  <2>4. CASE b # p /\ b # bp
    <3>1. b \in Ring /\ b \in Addr \ (Above \cup {p, bp})
      BY <2>4, HeapFacts
    <3>2. size'[b] = size[b] /\ next'[b] = next[b]
      BY <3>1, InsertFields
    <3> QED BY <1>4, <1>7, <3>1, <3>2
  <2> QED BY <2>1, <2>2, <2>3, <2>4
<1> QED BY <1>7, Zenon DEF Apart

\* kfree puts the block in its place and joins it with its neighbours.
LEMMA PlaceInv == ASSUME HeapInv, Place PROVE HeapInv'
<1>1. /\ UNCHANGED <<heap_current, held>> /\ pc = "place" /\ freep' = p
      /\ nunits = 0 => pc' = "idle" /\ nunits' = 0
      /\ nunits # 0 => /\ pc' = "search" /\ prevp' = p /\ p' = next'[p]
                       /\ nunits' = nunits
  BY DEF Place, Return, pageVars
<1>2. pc' \in {"idle", "search"}
  BY <1>1
<1>3. /\ p \in Ring /\ bp \in Headed /\ bp \notin held /\ bp # base /\ nunits \in Sizes \cup {0}
      /\ held \subseteq Headed /\ p \notin Above /\ bp \notin Above /\ Above \subseteq Ring \ {base}
  <2>1. nunits \in Sizes \cup {0} /\ held \subseteq Headed
    BY <1>1 DEF HeapInv, Locals, Types
  <2>2. p \notin Above /\ bp \notin Above /\ Above \subseteq Ring \ {base}
    BY PlaceFacts, Neighbours DEF Above
  <2> QED BY <2>1, <2>2, PlaceFacts
<1>4. Headed' = (Headed \ Above) \ (IF Lower THEN {bp} ELSE {})
      /\ Tiles(size', heap_current')
  BY <1>1, InsertBlocks
<1>5. Unused' = (Unused \ Above) \cup (IF Lower THEN {} ELSE {bp})
  <2>1. Unused = (Headed \ held) \ {bp}
    BY <1>1 DEF Unused, InTransit
  <2>2. Unused' = Headed' \ held
    BY <1>1, <1>2 DEF Unused, InTransit
  <2> QED BY <1>3, <1>4, <2>1, <2>2
<1>6. Ring' = (Ring \ Above) \cup (IF Lower THEN {} ELSE {bp})
  BY <1>3, <1>5 DEF Ring, base
<1>7. Linked(Ring', next') /\ Apart(Ring', next', size')
  BY <1>6, InsertList, InsertApart
<1>8. Types'
  <2>1. held \subseteq Headed'
    <3>1. Above \subseteq Unused
      BY <1>3 DEF Ring
    <3> QED BY <1>3, <1>4, <3>1 DEF Unused
  <2>2. size'[base] = 0
    <3>1. base \in Addr
      BY Places
    <3>2. CASE base = p
      BY <3>2, InsertFields, Neighbours, HeapFacts
    <3>3. CASE base # p
      BY <1>3, <3>1, <3>3, InsertFields, HeapFacts, Zenon
    <3> QED BY <3>2, <3>3
  <2> QED BY <1>1, <2>1, <2>2, InsertFields, Zenon DEF HeapInv, Types
<1>9. Locals'
  <2>1. p \in Ring'
    BY <1>3, <1>6
  <2>2. freep' \in Ring' /\ freep' # NULL
    BY <1>1, <1>3, <2>1, HeapFacts, Places
  <2>3. nunits # 0 => Seen' = {}
    <3>1. ~ (p < p)
      <4>1. p \in Nat
        BY <1>3, HeapFacts
      <4> QED BY <4>1
    <3> QED BY <1>1, <3>1 DEF Seen
  <2> QED BY <1>1, <1>2, <1>3, <2>1, <2>2, <2>3, Zenon DEF Locals
<1> QED BY <1>4, <1>7, <1>8, <1>9 DEF HeapInv

\* The headers of the heap are consistent after every step of kmalloc, kfree and
\* morecore: the invariant from which the properties below follow.
THEOREM HeapInvariant == Spec => []HeapInv
<1>1. Init => HeapInv
  <2> SUFFICES ASSUME Init PROVE HeapInv
    OBVIOUS
  <2>1. Headed = {} /\ Unused = {} /\ Ring = {base}
    BY DEF Init, Headed, Heads, Unused, Ring, Addr
  <2>2. Types
    <3>1. next \in [Addr -> Addr] /\ size \in [Addr -> Nat] /\ size[base] = 0
      BY Places DEF Init
    <3>2. heap_current \in Start .. heap_max
      BY Places DEF Init
    <3> QED BY <3>1, <3>2 DEF Types, Init
  <2>3. Tiles(size, heap_current)
    <3>1. Start .. heap_current - 1 = {}
      BY Places DEF Init
    <3> QED BY <2>1, <3>1, Zenon DEF Tiles, Headed
  <2>4. Linked(Ring, next) /\ Apart(Ring, next, size)
    BY <2>1, Places DEF Linked, Apart, Init
  <2>5. Locals
    BY DEF Locals, Init
  <2> QED BY <2>2, <2>3, <2>4, <2>5 DEF HeapInv
<1>2. HeapInv /\ [Next]_vars => HeapInv'
  <2> SUFFICES ASSUME HeapInv, [Next]_vars PROVE HeapInv'
    OBVIOUS
  <2>1. CASE Next
    <3>1. ASSUME Found PROVE HeapInv'
      <4>1. ExactFit \/ Split
        BY <3>1 DEF Found
      <4> QED BY <3>1, <4>1, ExactFitInv, SplitInv
    <3> QED BY <2>1, <3>1, KmallocInv, KfreeInv, SearchOnInv, MorecoreFailsInv, MorecoreInv,
               WalkOnInv, PlaceInv, OthersUseFramesInv, Zenon DEF Next, HeapStep
  <2>2. CASE UNCHANGED vars
    BY <2>2, Zenon DEF vars, listVars, pageVars, localVars, HeapInv, Types, Headed, Heads, Ring,
                Unused, InTransit, Locals, Seen
  <2> QED BY <2>1, <2>2
<1> QED BY <1>1, <1>2, PTL DEF Spec

-----------------------------------------------------------------------------
(* The walk from the sentinel *)

Walk(f, n) == f = [k \in 0 .. n |-> IF k = 0 THEN base ELSE next[f[k - 1]]]

\* The walk along the list is defined for every number of steps.
LEMMA WalkExists == ASSUME NEW n \in Nat PROVE \E f : Walk(f, n)
<1> DEFINE Bad == {m \in Nat : ~ \E f : Walk(f, m)}
<1> SUFFICES ASSUME Bad # {} PROVE FALSE
  BY Zenon
<1>1. PICK m \in Bad : \A y \in Bad : ~ (<<y, m>> \in OpToRel(<, Nat))
  BY NatLessThanWellFounded, WFMin, Zenon
<1>2. m # 0
  <2>1. Walk([k \in 0 .. 0 |-> base], 0)
    BY DEF Walk
  <2> QED BY <2>1, Zenon
<1>3. m \in Nat /\ m - 1 \in Nat /\ m - 1 < m
  BY <1>2
<1>4. PICK f : Walk(f, m - 1)
  <2>1. m - 1 \notin Bad
    BY <1>1, <1>3, Zenon DEF OpToRel
  <2> QED BY <1>3, <2>1, Zenon
<1> DEFINE g == [k \in 0 .. m |-> IF k = m THEN next[f[m - 1]] ELSE f[k]]
<1>5. ASSUME NEW k \in 0 .. m PROVE g[k] = IF k = 0 THEN base ELSE next[g[k - 1]]
  <2>1. \A j \in 0 .. m - 1 : f[j] = IF j = 0 THEN base ELSE next[f[j - 1]]
    BY <1>4 DEF Walk
  <2>2. CASE k = m
    BY <1>3, <2>2
  <2>3. CASE k # m
    <3>1. k \in 0 .. m - 1 /\ g[k] = f[k]
      BY <1>3, <2>3
    <3>2. k # 0 => k - 1 \in 0 .. m /\ k - 1 # m
      BY <1>3, <3>1
    <3>3. k # 0 => g[k - 1] = f[k - 1]
      BY <3>2
    <3> QED BY <2>1, <3>1, <3>3
  <2> QED BY <2>2, <2>3, Zenon
<1>6. Walk(g, m)
  <2>1. g = [k \in 0 .. m |-> g[k]]
    BY Zenon
  <2> HIDE DEF g
  <2> QED BY <1>5, <2>1, Zenon DEF Walk
<1> QED BY <1>6, Zenon

\* There are heap_max addresses.
LEMMA AddrCount == Cardinality(Addr) = heap_max
<1>1. Addr = 0 .. heap_max - 1
  BY Places DEF Addr, Units, base
<1>2. Cardinality(0 .. heap_max - 1) = heap_max
  BY Places, FS_Interval
<1> QED BY <1>1, <1>2

\* The walk of ListOrdered starts at base and follows the links.
LEMMA AfterIs ==
  /\ DOMAIN After = 0 .. heap_max
  /\ After[0] = base
  /\ \A k \in 1 .. heap_max : After[k] = next[After[k - 1]]
<1>1. Walk(After, heap_max)
  <2>1. After = CHOOSE f : f = [k \in 0 .. heap_max |-> IF k = 0 THEN base ELSE next[f[k - 1]]]
    BY AddrCount, Zenon DEF After
  <2>2. \E f : f = [k \in 0 .. heap_max |-> IF k = 0 THEN base ELSE next[f[k - 1]]]
    BY WalkExists, Places, Zenon DEF Walk
  <2> QED BY <2>1, <2>2, Zenon DEF Walk
<1> HIDE DEF After
<1>2. \A k \in 0 .. heap_max : After[k] = IF k = 0 THEN base ELSE next[After[k - 1]]
  BY <1>1, Zenon DEF Walk
<1>3. DOMAIN After = 0 .. heap_max
  BY <1>1 DEF Walk
<1> QED BY <1>2, <1>3, Places

\* After k steps the walk has met every free block below where it stands, or
\* has been back at the sentinel; until then it has come k units far at least.
Walked(k) ==
  /\ After[k] \in Ring
  /\ \A c \in Ring : \/ \E j \in 0 .. k : After[j] = c
                     \/ c > After[k] /\ After[k] >= k
  /\ (\E j \in 1 .. k : After[j] = base) \/ After[k] >= k

\* One more step of the walk meets the next free block.
LEMMA WalkStep ==
  ASSUME HeapInv, NEW k \in 1 .. heap_max, Walked(k - 1)
  PROVE  Walked(k)
<1> USE DEF Walked
<1>1. After[k] = next[After[k - 1]]
  BY AfterIs
<1> DEFINE a == After[k - 1]
           b == After[k]
<1>2. a \in Ring /\ b = next[a] /\ b \in Ring
  BY <1>1, HeapFacts
<1>3. /\ b = base => \A c \in Ring : c <= a
      /\ b # base => a < b /\ \A c \in Ring : c <= a \/ b <= c
  BY <1>2, Zenon DEF HeapInv, Linked
<1>4. a \in Nat /\ b \in Nat /\ (\A c \in Ring : c \in Nat) /\ k \in Nat /\ k >= 1
  BY <1>2, HeapFacts, Places
<1>5. k \in 1 .. k /\ k \in 0 .. k /\ \A j : (j \in 0 .. k - 1 => j \in 0 .. k)
                                            /\ (j \in 1 .. k - 1 => j \in 1 .. k)
  BY <1>4
<1>6. ASSUME NEW c \in Ring
      PROVE  (\E j \in 0 .. k : After[j] = c) \/ (c > b /\ b >= k)
  <2>1. CASE \E j \in 0 .. k - 1 : After[j] = c
    BY <1>5, <2>1, Zenon
  <2>2. CASE c > a /\ a >= k - 1
    <3>1. b # base /\ a < b /\ b <= c
      BY <1>3, <1>4, <2>2
    <3>2. c = b \/ (c > b /\ b >= k)
      BY <1>4, <2>2, <3>1
    <3> QED BY <1>5, <3>2, Zenon
  <2> QED BY <2>1, <2>2
<1>7. (\E j \in 1 .. k : After[j] = base) \/ b >= k
  <2>1. CASE \E j \in 1 .. k - 1 : After[j] = base
    BY <1>5, <2>1, Zenon
  <2>2. CASE a >= k - 1
    <3>1. b = base \/ b >= k
      BY <1>3, <1>4, <2>2
    <3> QED BY <1>5, <3>1, Zenon
  <2> QED BY <2>1, <2>2
<1> QED BY <1>2, <1>6, <1>7, Zenon

\* The walk meets the free blocks in order, and nothing else.
LEMMA WalkInv == ASSUME HeapInv, NEW n \in 0 .. heap_max PROVE Walked(n)
<1> DEFINE Bad == {k \in Nat : k <= heap_max /\ ~ Walked(k)}
<1> SUFFICES ASSUME Bad # {} PROVE FALSE
  BY Places
<1>1. PICK m \in Bad : \A y \in Bad : ~ (<<y, m>> \in OpToRel(<, Nat))
  BY NatLessThanWellFounded, WFMin, Zenon
<1>2. Walked(0)
  <2>1. After[0] = base /\ base = 0 /\ 0 \in 0 .. 0
    BY AfterIs, Places
  <2>2. \A c \in Ring : c = base \/ c > 0
    BY HeapFacts, Places
  <2> QED BY <2>1, <2>2, HeapFacts DEF Walked
<1>3. m # 0
  BY <1>2, Zenon
<1>4. m \in Nat /\ m - 1 \in Nat /\ m - 1 < m /\ m - 1 <= heap_max /\ m \in 1 .. heap_max
  BY <1>3, Places
<1>5. Walked(m - 1)
  <2>1. m - 1 \notin Bad
    BY <1>1, <1>4, Zenon DEF OpToRel
  <2> QED BY <1>4, <2>1, Zenon
<1>6. Walked(m)
  BY <1>4, <1>5, WalkStep
<1> QED BY <1>6, Zenon

\* The walk meets the free blocks, all of them, and comes back.
LEMMA FreeListIs ==
  ASSUME HeapInv
  PROVE  /\ FreeList = Unused
         /\ \E k \in DOMAIN After : k > 0 /\ After[k] = base
<1>1. heap_max \in 0 .. heap_max /\ heap_max \in Nat
      /\ \A c \in Ring : c \in Nat /\ c < heap_max
  BY HeapFacts, Places
<1>2. Walked(heap_max)
  BY <1>1, WalkInv
<1>3. After[heap_max] \in Nat /\ ~ (After[heap_max] >= heap_max)
  BY <1>1, <1>2 DEF Walked
<1>4. \A c \in Ring : \E j \in 0 .. heap_max : After[j] = c
  BY <1>2, <1>3, Zenon DEF Walked
<1>5. \E j \in 1 .. heap_max : After[j] = base
  BY <1>2, <1>3, Zenon DEF Walked
<1>6. \A k \in 0 .. heap_max : After[k] \in Ring
  BY WalkInv DEF Walked
<1>7. DOMAIN After = 0 .. heap_max
  BY AfterIs
<1>8. base \notin Unused
  BY HeapFacts, Places
<1>9. {After[k] : k \in DOMAIN After} = Ring
  BY <1>4, <1>6, <1>7, Zenon
<1>10. FreeList = Unused
  BY <1>8, <1>9 DEF FreeList, Ring
<1>11. \E k \in DOMAIN After : k > 0 /\ After[k] = base
  <2>1. PICK j \in 1 .. heap_max : After[j] = base
    BY <1>5
  <2>2. j \in 0 .. heap_max /\ j > 0
    BY <1>1
  <2> QED BY <1>7, <2>1, <2>2, Zenon
<1> QED BY <1>10, <1>11

-----------------------------------------------------------------------------
(* The theorems *)

\* The blocks that HeapTiled speaks of are those with a header.
LEMMA InvBlocks == ASSUME HeapInv PROVE Blocks = Headed
<1>1. held \subseteq Headed /\ InTransit \subseteq Headed
  BY DEF HeapInv, Types, Locals, InTransit
<1> QED BY <1>1, FreeListIs DEF Blocks, Unused

\* The invariant gives the tiling.
LEMMA InvTiled == HeapInv => HeapTiled
<1> SUFFICES ASSUME HeapInv, NEW u \in Units
             PROVE  Cardinality({b \in Blocks : b <= u /\ u < b + size[b]})
                      = IF u < heap_current THEN 1 ELSE 0
  BY DEF HeapTiled
<1> DEFINE Over == {b \in Headed : b <= u /\ u < b + size[b]}
<1>1. {b \in Blocks : b <= u /\ u < b + size[b]} = Over
  BY InvBlocks, Zenon
<1>2. u \in Nat /\ 1 <= u /\ heap_current \in Nat /\ Start = 1
  BY HeapFacts, Places
<1>3. CASE u < heap_current
  <2>1. u \in Start .. heap_current - 1
    BY <1>2, <1>3
  <2>2. PICK b \in Headed : b <= u /\ u < b + size[b]
    BY <2>1 DEF HeapInv, Tiles, Headed
  <2>3. ASSUME NEW c \in Headed, c <= u, u < c + size[c] PROVE c = b
    <3>1. (b < c => b + size[b] <= c) /\ (c < b => c + size[c] <= b)
      BY DEF HeapInv, Tiles, Headed
    <3>2. b \in Nat /\ c \in Nat /\ size[b] \in Nat /\ size[c] \in Nat
      BY HeapFacts
    <3> QED BY <1>2, <2>2, <2>3, <3>1, <3>2
  <2>4. Over = {b}
    BY <2>2, <2>3, Zenon
  <2> QED BY <1>1, <1>3, <2>4, FS_Singleton, Zenon
<1>4. CASE ~ (u < heap_current)
  <2>1. ASSUME NEW b \in Headed PROVE ~ (u < b + size[b])
    <3>1. b \in Nat /\ size[b] \in Nat /\ b + size[b] <= heap_current
      BY HeapFacts
    <3> QED BY <1>2, <1>4, <3>1
  <2>2. Over = {}
    BY <2>1, Zenon
  <2> QED BY <1>1, <1>4, <2>2, FS_EmptySet, Zenon
<1> QED BY <1>3, <1>4

\* HeapTiled for every size of page, heap and request: no split, merge or growth
\* of kmalloc, kfree and morecore overlaps two blocks or loses memory.
THEOREM HeapAlwaysTiled == Spec => []HeapTiled
BY HeapInvariant, InvTiled, PTL

\* ListOrdered: whatever the callers do, the list stays a cycle in address
\* order in which no two free blocks touch.
THEOREM ListAlwaysOrdered == Spec => []ListOrdered
<1>1. HeapInv => ListOrdered
  <2> SUFFICES ASSUME HeapInv PROVE ListOrdered
    OBVIOUS
  <2>1. FreeList = Unused /\ \E k \in DOMAIN After : k > 0 /\ After[k] = base
    BY FreeListIs
  <2>2. \A b \in Unused : next[b] = base \/ b + size[b] < next[b]
    BY DEF HeapInv, Apart, Ring
  <2>3. freep \in Unused \cup {base, NULL}
    BY Zenon DEF HeapInv, Locals, Ring
  <2> QED BY <2>1, <2>2, <2>3, Zenon DEF ListOrdered
<1> QED BY <1>1, HeapInvariant, PTL

\* SearchIsComplete: kmalloc asks for more memory only when no free block fits.
THEOREM SearchAlwaysComplete == Spec => []SearchIsComplete
<1>1. HeapInv => SearchIsComplete
  <2> SUFFICES ASSUME HeapInv, pc = "morecore" PROVE \A b \in FreeList : size[b] < nunits
    BY DEF SearchIsComplete
  <2>1. \A b \in Ring : size[b] < nunits
    BY Zenon DEF HeapInv, Locals
  <2> QED BY <2>1, FreeListIs DEF Ring
<1> QED BY <1>1, HeapInvariant, PTL

-----------------------------------------------------------------------------
(* The refinement *)

\* What the callers see.
Live == [b \in held |-> size[b]]

\* A step that leaves the callers' blocks and their headers alone.
LEMMA NotSeen ==
  ASSUME held' = held, \A b \in held : size'[b] = size[b]
  PROVE  Live' = Live
BY Zenon DEF Live

\* A block is inside the heap, and two blocks share no unit.
LEMMA BlocksApart ==
  ASSUME NEW sz, Sized(sz), NEW end \in Start .. heap_max, Tiles(sz, end), NEW a \in Heads(sz)
  PROVE  /\ A!Extent(a, sz[a]) \subseteq Units
         /\ \A b \in Heads(sz) : a # b => A!Extent(a, sz[a]) \cap A!Extent(b, sz[b]) = {}
<1>1. \A b \in Heads(sz) : b \in Nat /\ sz[b] \in Nat /\ 1 <= b /\ b + sz[b] <= end
  BY Places DEF Heads, Sized, Tiles
<1>2. end \in Nat /\ end <= heap_max /\ heap_max \in Nat
  BY Places
<1>3. A!Extent(a, sz[a]) \subseteq Units
  <2>1. ASSUME NEW x \in a .. a + sz[a] - 1 PROVE x \in Units
    BY <1>1, <1>2, Places
  <2> QED BY <2>1, Zenon DEF A!Extent
<1>4. ASSUME NEW b \in Heads(sz), a # b
      PROVE  A!Extent(a, sz[a]) \cap A!Extent(b, sz[b]) = {}
  <2>1. (a < b => a + sz[a] <= b) /\ (b < a => b + sz[b] <= a)
    BY DEF Tiles
  <2> QED BY <1>1, <1>4, <2>1 DEF A!Extent
<1> QED BY <1>3, <1>4

\* kmalloc hands out block a.
LEMMA HandsOut ==
  ASSUME HeapInv', NEW n \in Sizes, NEW a \in Headed', a \notin held, size'[a] = n,
         held' = held \cup {a}, \A b \in held : size'[b] = size[b]
  PROVE  A!Next
<1>1. a \in Units /\ held \subseteq Headed' /\ Headed' = Heads(size')
  BY DEF HeapInv, Types, Headed, Heads
<1>2. Sized(size') /\ heap_current' \in Start .. heap_max /\ Tiles(size', heap_current')
  BY Places DEF HeapInv, Types, Sized
<1>3. A!Extent(a, n) \subseteq Units
      /\ \A b \in held : A!Extent(a, n) \cap A!Extent(b, size[b]) = {}
  <2>1. A!Extent(a, size'[a]) \subseteq Units
        /\ \A b \in Heads(size') : a # b => A!Extent(a, size'[a]) \cap A!Extent(b, size'[b]) = {}
    BY <1>1, <1>2, BlocksApart, Zenon
  <2>2. \A b \in held : b # a /\ b \in Heads(size') /\ size'[b] = size[b]
    BY <1>1
  <2> QED BY <2>1, <2>2, Zenon
<1>4. Live' = [b \in DOMAIN Live \cup {a} |-> IF b = a THEN n ELSE Live[b]]
  <2>1. \A b \in held' : size'[b] = IF b = a THEN n ELSE Live[b]
    BY DEF Live
  <2>2. DOMAIN Live \cup {a} = held'
    BY DEF Live
  <2> QED BY <2>1, <2>2, Zenon DEF Live
<1>5. DOMAIN Live = held /\ \A b \in held : Live[b] = size[b]
  BY DEF Live
<1>6. A!Alloc(n)
  BY <1>1, <1>3, <1>4, <1>5, Zenon DEF A!Alloc, Live
<1> QED BY <1>6, Zenon DEF A!Next

\* Each step of the heap is a step of the arena, or none.
LEMMA RefinesStep ==
  ASSUME HeapInv, HeapInv', Next PROVE A!Next \/ Live' = Live
<1>0. held \subseteq Headed
  BY DEF HeapInv, Types
<1>1. ASSUME Found, ExactFit PROVE A!Next
  <2>1. pc = "search" /\ size[p] = nunits /\ held' = held \cup {p} /\ size' = size
    BY <1>1 DEF Found, ExactFit
  <2>2. nunits \in Sizes
    BY <2>1, Zenon DEF HeapInv, Locals
  <2>3. p \in Unused /\ p \in Headed
    <3>1. size[p] >= nunits
      BY <2>1, <2>2, KHeapAssumption
    <3> QED BY <2>1, <3>1, FoundBlock
  <2>4. p \in Headed' /\ p \notin held
    BY <2>1, <2>3 DEF Unused, Headed
  <2> QED BY <2>1, <2>2, <2>4, HandsOut
<1>2. ASSUME Found, Split PROVE A!Next
  <2> DEFINE rest == size[p] - nunits
             q == p + rest
  <2>1. pc = "search" /\ size[p] > nunits /\ held' = held \cup {q}
        /\ size' = [size EXCEPT ![p] = rest, ![q] = nunits]
    BY <1>2 DEF Found, Split
  <2>2. nunits \in Sizes /\ prevp \in Ring /\ p = next[prevp]
    BY <2>1, Zenon DEF HeapInv, Locals
  <2>3. nunits \in Nat /\ size[p] \in Nat
    BY <2>2, KHeapAssumption, HeapFacts
  <2>4. p \in Unused /\ p \in Headed /\ nunits # 0
    BY <2>1, <2>3, FoundBlock
  <2>5. /\ p \in Nat /\ rest \in Nat /\ q \in Nat /\ p < q /\ q < p + size[p]
        /\ p + size[p] <= heap_current
    BY <2>1, <2>3, <2>4, HeapFacts
  <2>6. q \in Units
    <3>1. heap_current \in Nat /\ heap_current <= heap_max
      BY Places DEF HeapInv, Types
    <3>2. 1 <= p
      BY <2>4, HeapFacts
    <3> QED BY <2>3, <2>5, <3>1, <3>2, Places
  <2>7. q \notin Headed
    <3>1. \A y \in Headed : p < y => p + size[p] <= y
      BY <2>4 DEF HeapInv, Tiles, Headed
    <3> QED BY <2>3, <2>5, <3>1
  <2> HIDE DEF q, rest
  <2>8. size'[q] = nunits /\ \A b \in Addr \ {p, q} : size'[b] = size[b]
    BY <2>1, <2>5, <2>6, Places DEF HeapInv, Types
  <2>9. q \in Headed'
    BY <2>4, <2>6, <2>8 DEF Headed, Heads
  <2>10. q \notin held /\ \A b \in held : size'[b] = size[b]
    <3>1. p \notin held /\ q \notin held
      BY <1>0, <2>4, <2>7 DEF Unused
    <3>2. held \subseteq Addr
      BY <1>0, HeapFacts, Places
    <3> QED BY <2>8, <3>1, <3>2
  <2>11. held' = held \cup {q}
    BY <2>1, Zenon
  <2> QED BY <2>2, <2>8, <2>9, <2>10, <2>11, HandsOut
<1>3. ASSUME Found PROVE A!Next
  BY <1>1, <1>2, <1>3 DEF Found
<1>4. ASSUME NEW b \in held, Kfree(b) PROVE A!Next
  <2>1. held' = held \ {b} /\ size' = size
    BY <1>4 DEF Kfree, listVars
  <2>2. Live' = [c \in DOMAIN Live \ {b} |-> Live[c]]
    BY <2>1, Zenon DEF Live
  <2>3. A!Free(b) /\ b \in DOMAIN Live
    BY <2>2, Zenon DEF A!Free, Live
  <2> QED BY <2>3, Zenon DEF A!Next, Live
<1>5. ASSUME Morecore PROVE Live' = Live
  <2>1. held' = held
        /\ size' = [size EXCEPT ![heap_current] = PagesFor(nunits) * PageUnits]
    BY <1>5 DEF Morecore
  <2>2. heap_current \notin Headed
    BY HeapFacts
  <2>3. \A b \in held : b \in Addr /\ b # heap_current
    BY <1>0, <2>2, HeapFacts, Places
  <2>4. \A b \in held : size'[b] = size[b]
    BY <2>1, <2>3 DEF HeapInv, Types
  <2> QED BY <2>1, <2>4, NotSeen
<1>6. ASSUME Place PROVE Live' = Live
  <2>1. held' = held
    BY <1>6 DEF Place
  <2>2. p \in Ring /\ bp \notin held /\ Above \subseteq Ring
    BY <1>6, PlaceFacts DEF Above
  <2>3. \A b \in held : b \in Addr /\ b \notin Ring
    BY <1>0, HeapFacts, Places DEF Ring, Unused
  <2>4. \A b \in held : b \in Addr \ (Above \cup {p, bp})
    BY <2>2, <2>3
  <2>5. \A b \in held : size'[b] = size[b]
    BY <1>6, <2>4, InsertFields
  <2> QED BY <2>1, <2>5, NotSeen
<1>7. ASSUME UNCHANGED <<held, size>> PROVE Live' = Live
  BY <1>7, NotSeen
<1>8. \A n \in Sizes : Kmalloc(n) => UNCHANGED <<held, size>>
  BY Zenon DEF Kmalloc
<1>9. SearchOn \/ MorecoreFails \/ WalkOn \/ OthersUseFrames => UNCHANGED <<held, size>>
  BY Zenon DEF SearchOn, MorecoreFails, WalkOn, OthersUseFrames, listVars
<1> QED BY <1>3, <1>4, <1>5, <1>6, <1>7, <1>8, <1>9, Zenon DEF Next, HeapStep

\* ImplementsArena: the callers of kmalloc and kfree see blocks inside the heap
\* that share no unit and keep their size until they are given back.
THEOREM HeapImplementsArena == Spec => ImplementsArena
<1>1. Init => A!Init
  <2> SUFFICES ASSUME Init PROVE A!Init
    OBVIOUS
  <2>1. held = {}
    BY DEF Init
  <2> QED BY <2>1, Zenon DEF A!Init
<1>2. HeapInv /\ HeapInv' /\ [Next]_vars => [A!Next]_Live
  <2> SUFFICES ASSUME HeapInv, HeapInv', [Next]_vars PROVE A!Next \/ Live' = Live
    OBVIOUS
  <2>1. CASE UNCHANGED vars
    BY <2>1, NotSeen DEF vars, listVars
  <2> QED BY <2>1, RefinesStep
<1> QED BY <1>1, <1>2, HeapInvariant, PTL DEF Spec, ImplementsArena, A!Spec, Live
=============================================================================
