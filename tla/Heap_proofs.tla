---------------------------- MODULE Heap_proofs ----------------------------
(***************************************************************************)
(* Proofs about the kernel heap, for every page size that is a multiple    *)
(* of 16, every set of sizes that main may ask for, and any number of      *)
(* pages and blocks                                                        *)
(*                                                                         *)
(* The invariant is IInv.  It sees memory as blocks in pages (Space), the  *)
(* free list as a sequence of distinct blocks (FreeIs), and says at every  *)
(* place of main's malloc and free what the locals still mean there.       *)
(***************************************************************************)
EXTENDS Heap, TLAPS, FiniteSetTheorems, SequenceTheorems

-----------------------------------------------------------------------------
(* The walk along the free list                                            *)

\* The element at place i of a list of that length, NULL behind its end.
At(list, len, i) == IF i \in 1 .. len THEN list[i] ELSE NULL

\* The free list: distinct blocks, linked from the first to NULL.
Chained(h, first, list, len) ==
  /\ list \in [1 .. len -> DOMAIN h]
  /\ \A i, j \in 1 .. len : list[i] = list[j] => i = j
  /\ first = At(list, len, 1)
  /\ \A i \in 1 .. len : h[list[i]].next = At(list, len, i + 1)

\* A list has no more elements than there are blocks.
LEMMA ListIsShort ==
  ASSUME NEW len \in Nat, NEW list, Chained(hdr, free_list, list, len), IsFiniteSet(DOMAIN hdr)
  PROVE  Cardinality(DOMAIN hdr) \in Nat /\ len <= Cardinality(DOMAIN hdr)
<1>1. list \in Injection(1 .. len, DOMAIN hdr)
  BY DEF Chained, Injection, IsInjective
<1>2. Cardinality(1 .. len) <= Cardinality(DOMAIN hdr)
  BY <1>1, FS_Injection
<1>3. Cardinality(1 .. len) = len
  BY FS_Interval
<1> QED
  BY <1>2, <1>3, FS_CardinalityType

\* A nonempty set of numbers has a smallest one.
LEMMA Smallest ==
  ASSUME NEW S \in SUBSET Nat, S # {}
  PROVE  \E i \in S : \A j \in S : i <= j
<1>1. PICK i \in S : \A j \in S : ~(<<j, i>> \in OpToRel(<, Nat))
  BY NatLessThanWellFounded, WFMin
<1>2. \A j \in S : ~(j < i)
  BY <1>1 DEF OpToRel
<1> QED
  BY <1>2

\* What the walk along the links finds is the list.
LEMMA WalkFinds ==
  ASSUME NEW len \in Nat, NEW list, Chained(hdr, free_list, list, len),
         IsFiniteSet(DOMAIN hdr), NULL \notin DOMAIN hdr
  PROVE  FreeList = list
<1> DEFINE C == Cardinality(DOMAIN hdr)
           Follows(f) == f = [k \in 0 .. C + 1 |->
                               IF k = 0 THEN free_list
                               ELSE IF f[k - 1] = NULL THEN NULL ELSE hdr[f[k - 1]].next]
           way == [k \in 0 .. C + 1 |-> IF k < len THEN list[k + 1] ELSE NULL]
           walk == CHOOSE f : Follows(f)
           n == CHOOSE k \in 0 .. C + 1 :
                  \/ walk[k] = NULL /\ (k > 0 => walk[k - 1] # NULL)
                  \/ k = C + 1 /\ walk[k] # NULL
<1>1. C \in Nat /\ len <= C
  BY ListIsShort
<1> HIDE DEF C
<1>2. Follows(way)
  <2>1. ASSUME NEW k \in 0 .. C + 1
        PROVE  way[k] = IF k = 0 THEN free_list
                        ELSE IF way[k - 1] = NULL THEN NULL ELSE hdr[way[k - 1]].next
    <3>1. CASE k = 0
      BY <1>1, <3>1 DEF Chained, At
    <3>2. CASE k # 0 /\ k - 1 < len
      <4>1. k - 1 \in 0 .. C + 1 /\ k \in 1 .. len /\ (k < len <=> k + 1 \in 1 .. len)
        BY <1>1, <3>2
      <4>2. way[k - 1] = list[k] /\ list[k] # NULL
        BY <3>2, <4>1 DEF Chained
      <4> QED
        BY <3>2, <4>1, <4>2 DEF Chained, At
    <3>3. CASE k # 0 /\ ~(k - 1 < len)
      BY <1>1, <3>3
    <3> QED
      BY <3>1, <3>2, <3>3
  <2> QED
    BY <2>1, Zenon
<1>3. Follows(walk)
  <2> HIDE DEF Follows, way
  <2> QED
    BY <1>2, Zenon
<1>4. walk = way
  <2>1. DOMAIN walk = 0 .. C + 1 /\ walk = [k \in DOMAIN walk |-> walk[k]]
    <3> HIDE DEF walk
    <3> QED
      BY <1>3
  <2>2. ASSUME NEW k \in 0 .. C + 1, walk[k] # way[k]
        PROVE  FALSE
    <3> DEFINE Wrong == {j \in 0 .. C + 1 : walk[j] # way[j]}
    <3> HIDE DEF walk, way
    <3>1. PICK j \in Wrong : \A i \in Wrong : j <= i
      <4>1. Wrong \in SUBSET Nat /\ k \in Wrong
        BY <1>1, <2>2
      <4> HIDE DEF Wrong
      <4> QED
        BY <4>1, Smallest
    <3>2. /\ walk[j] = IF j = 0 THEN free_list
                       ELSE IF walk[j - 1] = NULL THEN NULL ELSE hdr[walk[j - 1]].next
          /\ way[j] = IF j = 0 THEN free_list
                      ELSE IF way[j - 1] = NULL THEN NULL ELSE hdr[way[j - 1]].next
      BY <1>2, <1>3, <3>1
    <3>3. j \in 0 .. C + 1 /\ walk[j] # way[j]
      BY <3>1
    <3> HIDE DEF Follows
    <3>4. j # 0
      BY <3>2, <3>3
    <3>5. j - 1 \in 0 .. C + 1 /\ walk[j - 1] = way[j - 1]
      BY <1>1, <3>1, <3>3, <3>4
    <3> QED
      BY <3>2, <3>3, <3>4, <3>5
  <2> HIDE DEF walk
  <2> QED
    BY <2>1, <2>2
<1> HIDE DEF walk
<1>5. n = len
  <2> DEFINE Ends(k) == \/ walk[k] = NULL /\ (k > 0 => walk[k - 1] # NULL)
                        \/ k = C + 1 /\ walk[k] # NULL
  <2>1. len \in 0 .. C + 1 /\ Ends(len)
    <3>1. walk[len] = NULL
      BY <1>1, <1>4
    <3>2. ASSUME len > 0
          PROVE  walk[len - 1] # NULL
      BY <1>1, <1>4, <3>2 DEF Chained
    <3> QED
      BY <1>1, <3>1, <3>2
  <2>2. ASSUME NEW k \in 0 .. C + 1, Ends(k)
        PROVE  k = len
    <3>1. ~(k < len)
      BY <1>1, <1>4, <2>2 DEF Chained
    <3>2. walk[k] = NULL
      BY <1>1, <1>4, <3>1
    <3>3. k > 0 => k - 1 < len
      <4> SUFFICES ASSUME k > 0, ~(k - 1 < len)
                   PROVE  FALSE
        OBVIOUS
      <4>1. walk[k - 1] = NULL
        BY <1>1, <1>4
      <4> QED
        BY <2>2, <3>2, <4>1
    <3> QED
      BY <1>1, <3>1, <3>3
  <2>3. n = CHOOSE k \in 0 .. C + 1 : Ends(k)
    OBVIOUS
  <2> HIDE DEF Ends, n
  <2> QED
    BY <2>1, <2>2, <2>3, Zenon
<1> HIDE DEF n
<1>6. FreeList = [k \in 1 .. n |-> walk[k - 1]]
  BY Zenon DEF FreeList, walk, n, C
<1>7. \A k \in 1 .. len : walk[k - 1] = list[k]
  BY <1>1, <1>4
<1>8. list = [k \in 1 .. len |-> list[k]]
  BY DEF Chained
<1> QED
  BY <1>5, <1>6, <1>7, <1>8

-----------------------------------------------------------------------------
(* The inductive invariant                                                 *)

InUse == {b.at : b \in live}

\* The block that is carved and not counted yet, and the one that is linked
\* and not published.
Pending == IF pc \in {"count", "counted"} THEN {m.blk} ELSE {}
Limbo == IF pc = "publish" THEN {m.old} ELSE Pending
OnList == DOMAIN hdr \ (InUse \cup Limbo)

Headers == [size : Nat, actual : Nat, next : Nat]
PageRecords == [base : Nat, size : Nat, used : Nat]

\* A page's first byte for blocks, the end of what is counted, and its end.
Start(pgs, p) == pgs[p].base + PageHeader
Edge(pgs, p) == pgs[p].base + pgs[p].used
Bound(pgs, p) == pgs[p].base + pgs[p].size
Behind(h, b) == b + BlkHeader + h[b].actual

\* The pages lie one behind the other.
PagesRight(pgs) ==
  /\ pgs \in Seq(PageRecords)
  /\ \A p \in 1 .. Len(pgs) :
       /\ pgs[p].base >= STARTING_PAGE
       /\ pgs[p].used \in PageHeader .. pgs[p].size /\ pgs[p].size % PAGE_SIZE = 0
  /\ \A p, q \in 1 .. Len(pgs) : p < q => Bound(pgs, p) <= pgs[q].base

\* Every block is counted in a page, or just behind what is counted; no two
\* overlap.
BlocksPlaced(pgs, h, pend) ==
  /\ pend \subseteq DOMAIN h
  /\ \A b \in DOMAIN h \ pend :
       \E p \in 1 .. Len(pgs) : Start(pgs, p) <= b /\ Behind(h, b) <= Edge(pgs, p)
  /\ \A b \in pend :
       \E p \in 1 .. Len(pgs) : b = Edge(pgs, p) /\ Behind(h, b) <= Bound(pgs, p)
  /\ \A x, y \in DOMAIN h : x # y => Behind(h, x) <= y \/ Behind(h, y) <= x

\* The counted blocks of a page fill it up to its edge.
Tiled(pgs, h, p) ==
  LET blocks == {b \in DOMAIN h : b \in Start(pgs, p) .. Edge(pgs, p) - 1}
  IN  {Start(pgs, p)} \cup {Behind(h, b) : b \in blocks} = blocks \cup {Edge(pgs, p)}

Space(pgs, h, pend) ==
  /\ PagesRight(pgs)
  /\ DOMAIN h \subseteq Nat /\ h \in [DOMAIN h -> Headers]
  /\ BlocksPlaced(pgs, h, pend)
  /\ \A p \in 1 .. Len(pgs) : Tiled(pgs, h, p)

\* F is what the free list holds, each block once.
FreeIs(h, first, F) ==
  \E len \in Nat : \E list \in [1 .. len -> DOMAIN h] :
    Chained(h, first, list, len) /\ F = {list[i] : i \in 1 .. len}

\* What is handed out.
LiveRight ==
  /\ live \subseteq [at : DOMAIN hdr, size : Nat \ {0}, by : {"main", "key"}]
  /\ \A x, y \in live : x.at = y.at => x = y
  /\ \A x \in live : x.size <= hdr[x.at].actual \/ x.at \in grown
  /\ grown \subseteq InUse
  /\ Limbo \cap InUse = {}

\* Where main takes a block from the list, what it loaded is still so.
ListLocals ==
  /\ pc \in {"pop", "popped"} =>
       m.blk = free_list /\ m.blk # NULL /\ hdr[m.blk].actual >= Aligned(m.size)
  /\ pc = "popped" => m.loaded = hdr[m.blk].next
  /\ pc \in {"walk", "found", "unlink"} => m.blk \in OnList
  /\ pc = "found" => hdr[m.blk].next # NULL /\ hdr[hdr[m.blk].next].actual >= Aligned(m.size)
  /\ pc = "unlink" =>
       /\ m.tmp = hdr[m.blk].next /\ m.tmp # NULL /\ m.loaded = hdr[m.tmp].next
       /\ hdr[m.tmp].actual >= Aligned(m.size)
  /\ pc = "publish" =>
       m.old \in DOMAIN hdr /\ m.loaded = free_list /\ hdr[m.old].next = free_list

\* Where it carves one, the room is still there.
PageLocals ==
  /\ pc \in {"carve", "count", "counted"} => m.page \in 1 .. Len(pages) /\ Fits(m.page, m.size)
  /\ pc \in {"count", "counted"} =>
       /\ m.blk \in DOMAIN hdr /\ m.blk = Edge(pages, m.page)
       /\ hdr[m.blk].actual = Aligned(m.size)
  /\ pc = "counted" => m.loaded = pages[m.page].used

InMalloc == {"first page", "list", "pop", "popped", "walk", "found", "unlink",
             "room", "add page", "carve", "count", "counted"}

\* The request, and the block that realloc or free gives back.
CallLocals ==
  /\ pc \in InMalloc \cup {"idle", "free", "publish"}
  /\ m \in [size : Nat, blk : DOMAIN hdr \cup {NULL}, tmp : Nat, loaded : Nat,
            page : 0 .. Len(pages), old : Nat]
  /\ pc \in InMalloc => m.size # 0 /\ m.old \in InUse \cup {NULL}
  /\ pc = "free" => m.old \in InUse

MemoryRight ==
  /\ Space(pages, hdr, Pending)
  /\ IsFiniteSet(DOMAIN hdr)
  /\ \A b \in DOMAIN hdr : hdr[b].next \in DOMAIN hdr \cup {NULL}
  /\ FreeIs(hdr, free_list, OnList)
  /\ LiveRight

MainRight == CallLocals /\ ListLocals /\ PageLocals

IInv ==
  /\ HeapTypeOK
  /\ ~spoiled => MemoryRight /\ MainRight

-----------------------------------------------------------------------------
(* The free list                                                           *)

\* The links of a list: into the list, each to another element, none to the
\* first.
LEMMA ListFacts ==
  ASSUME NEW h, NEW first, NEW F, FreeIs(h, first, F), NULL \notin DOMAIN h
  PROVE  /\ F \subseteq DOMAIN h
         /\ first \in F \cup {NULL} /\ (first = NULL <=> F = {})
         /\ \A x \in F : h[x].next \in F \cup {NULL} /\ h[x].next # x
         /\ \A x \in F : first # NULL => h[x].next # first
         /\ \A x, y \in F : h[x].next = h[y].next /\ h[x].next # NULL => x = y
<1>0. PICK len \in Nat : \E list \in [1 .. len -> DOMAIN h] :
                            Chained(h, first, list, len) /\ F = {list[i] : i \in 1 .. len}
  BY DEF FreeIs
<1>1. PICK list \in [1 .. len -> DOMAIN h] :
        Chained(h, first, list, len) /\ F = {list[i] : i \in 1 .. len}
  BY <1>0
<1>2. \A i \in 1 .. len : list[i] \in F /\ list[i] # NULL
  BY <1>1
<1>3. /\ \A i, j \in 1 .. len : list[i] = list[j] => i = j
      /\ first = At(list, len, 1)
      /\ \A i \in 1 .. len : h[list[i]].next = At(list, len, i + 1)
  BY <1>1 DEF Chained
<1>4. /\ F \subseteq DOMAIN h
      /\ first \in F \cup {NULL} /\ (first = NULL <=> F = {})
  <2>1. CASE len = 0
    BY <1>1, <1>3, <2>1 DEF At
  <2>2. CASE len # 0
    <3>1. 1 \in 1 .. len
      BY <2>2
    <3>2. first = list[1] /\ list[1] \in F /\ list[1] # NULL
      BY <1>2, <1>3, <3>1 DEF At
    <3>3. F \subseteq DOMAIN h
      BY <1>1
    <3> QED
      BY <3>2, <3>3
  <2> QED
    BY <2>1, <2>2
<1>5. ASSUME NEW x \in F
      PROVE  /\ h[x].next \in F \cup {NULL} /\ h[x].next # x
             /\ first # NULL => h[x].next # first
  <2>1. PICK i \in 1 .. len : x = list[i]
    BY <1>1
  <2>2. CASE i + 1 \in 1 .. len
    <3>1. h[x].next = list[i + 1] /\ i + 1 # i /\ i + 1 # 1
      BY <1>3, <2>1, <2>2 DEF At
    <3> QED
      BY <1>2, <1>3, <2>1, <2>2, <3>1 DEF At
  <2>3. CASE i + 1 \notin 1 .. len
    <3>1. h[x].next = NULL
      BY <1>3, <2>1, <2>3 DEF At
    <3> QED
      BY <1>2, <2>1, <3>1
  <2> QED
    BY <2>2, <2>3
<1>6. ASSUME NEW x \in F, NEW y \in F, h[x].next = h[y].next, h[x].next # NULL
      PROVE  x = y
  <2>1. PICK i \in 1 .. len, j \in 1 .. len : x = list[i] /\ y = list[j]
    BY <1>1
  <2>2. At(list, len, i + 1) = At(list, len, j + 1) /\ At(list, len, i + 1) # NULL
    BY <1>3, <1>6, <2>1
  <2>3. i + 1 \in 1 .. len /\ j + 1 \in 1 .. len /\ list[i + 1] = list[j + 1]
    BY <2>2 DEF At
  <2> QED
    BY <1>3, <2>1, <2>3
<1> QED
  BY <1>4, <1>5, <1>6

\* Steps that leave the links of the list alone.
LEMMA ListKept ==
  ASSUME NEW h, NEW first, NEW F, FreeIs(h, first, F), NEW g,
         \A x \in F : x \in DOMAIN g /\ g[x].next = h[x].next
  PROVE  FreeIs(g, first, F)
<1>0. PICK len \in Nat : \E list \in [1 .. len -> DOMAIN h] :
                            Chained(h, first, list, len) /\ F = {list[i] : i \in 1 .. len}
  BY DEF FreeIs
<1>1. PICK list \in [1 .. len -> DOMAIN h] :
        Chained(h, first, list, len) /\ F = {list[i] : i \in 1 .. len}
  BY <1>0
<1>2. list \in [1 .. len -> DOMAIN g]
  BY <1>1
<1>3. Chained(g, first, list, len)
  BY <1>1, <1>2 DEF Chained, At
<1> QED
  BY <1>1, <1>2, <1>3 DEF FreeIs

\* A block is put in front.
LEMMA ListPushed ==
  ASSUME NEW h, NEW first, NEW F, FreeIs(h, first, F), NULL \notin DOMAIN h,
         NEW g, NEW b \in DOMAIN g, b \notin F, g[b].next = first,
         \A x \in F : x \in DOMAIN g /\ g[x].next = h[x].next
  PROVE  FreeIs(g, b, F \cup {b})
<1>0. PICK len \in Nat : \E list \in [1 .. len -> DOMAIN h] :
                            Chained(h, first, list, len) /\ F = {list[i] : i \in 1 .. len}
  BY DEF FreeIs
<1>1. PICK list \in [1 .. len -> DOMAIN h] :
        Chained(h, first, list, len) /\ F = {list[i] : i \in 1 .. len}
  BY <1>0
<1>2. /\ \A i, j \in 1 .. len : list[i] = list[j] => i = j
      /\ first = At(list, len, 1)
      /\ \A i \in 1 .. len : h[list[i]].next = At(list, len, i + 1)
  BY <1>1 DEF Chained
<1> DEFINE n == len + 1
           new == [i \in 1 .. n |-> IF i = 1 THEN b ELSE list[i - 1]]
<1>3. /\ n \in Nat /\ \A i \in 1 .. n : i # 1 => i - 1 \in 1 .. len
      /\ \A i \in 1 .. len : i + 1 \in 1 .. n /\ new[i + 1] = list[i]
      /\ 1 \in 1 .. n /\ new[1] = b
  OBVIOUS
<1>4. \A i \in 1 .. n : new[i] = IF i = 1 THEN b ELSE list[i - 1]
  OBVIOUS
<1>5. new \in [1 .. n -> DOMAIN g]
  BY <1>1, <1>3
<1>6. DOMAIN new = 1 .. n
  OBVIOUS
<1> HIDE DEF new
<1>7. \A i, j \in 1 .. n : new[i] = new[j] => i = j
  BY <1>1, <1>2, <1>3, <1>4
<1>8. \A i \in 1 .. len : At(new, n, i + 1) = At(list, len, i)
  BY <1>3 DEF At
<1>9. At(new, n, n + 1) = NULL /\ At(list, len, n) = NULL
  BY <1>3 DEF At
<1>10. ASSUME NEW i \in 1 .. n
       PROVE  g[new[i]].next = At(new, n, i + 1)
  <2>1. CASE i = 1
    <3>1. At(new, n, 2) = At(list, len, 1)
      <4>1. CASE len = 0
        BY <1>9, <4>1
      <4>2. CASE len # 0
        <5>1. 1 \in 1 .. len
          BY <4>2
        <5> QED
          BY <1>8, <5>1
      <4> QED
        BY <4>1, <4>2
    <3> QED
      BY <1>2, <1>3, <2>1, <3>1
  <2>2. CASE i # 1
    <3>1. i - 1 \in 1 .. len /\ new[i] = list[i - 1] /\ list[i - 1] \in F
      BY <1>1, <1>3, <1>4, <2>2
    <3>2. g[new[i]].next = At(list, len, i)
      BY <1>2, <3>1
    <3>3. At(new, n, i + 1) = At(list, len, i)
      <4>1. CASE i = n
        BY <1>9, <4>1
      <4>2. CASE i # n
        <5>1. i \in 1 .. len
          BY <4>2
        <5> QED
          BY <1>8, <5>1
      <4> QED
        BY <4>1, <4>2
    <3> QED
      BY <3>2, <3>3
  <2> QED
    BY <2>1, <2>2
<1>11. F \cup {b} = {new[i] : i \in 1 .. n}
  <2>1. ASSUME NEW x \in F \cup {b} PROVE x \in {new[i] : i \in 1 .. n}
    <3>1. CASE x = b
      BY <1>3, <3>1
    <3>2. CASE x # b
      <4>1. PICK i \in 1 .. len : x = list[i]
        BY <1>1, <2>1, <3>2
      <4>2. i + 1 \in 1 .. n /\ new[i + 1] = x
        BY <1>3, <4>1
      <4> HIDE DEF n
      <4> QED
        BY <4>2
    <3> QED
      BY <3>1, <3>2
  <2>2. ASSUME NEW i \in 1 .. n PROVE new[i] \in F \cup {b}
    BY <1>1, <1>3, <1>4
  <2> QED
    BY <2>1, <2>2
<1>12. At(new, n, 1) = b
  BY <1>3 DEF At
<1>13. Chained(g, b, new, n)
  BY <1>5, <1>7, <1>10, <1>12 DEF Chained, At
<1> HIDE DEF n
<1> QED
  BY <1>3, <1>5, <1>11, <1>13 DEF FreeIs

\* A block is taken out: what linked to it links to what it linked to.
LEMMA ListUnlinked ==
  ASSUME NEW h, NEW first, NEW F, FreeIs(h, first, F), NULL \notin DOMAIN h,
         NEW b \in F, NEW g, NEW gf, gf = IF first = b THEN h[b].next ELSE first,
         DOMAIN g = DOMAIN h,
         \A x \in F \ {b} : g[x].next = IF h[x].next = b THEN h[b].next ELSE h[x].next
  PROVE  FreeIs(g, gf, F \ {b})
<1>0. PICK len \in Nat : \E list \in [1 .. len -> DOMAIN h] :
                            Chained(h, first, list, len) /\ F = {list[i] : i \in 1 .. len}
  BY DEF FreeIs
<1>1. PICK list \in [1 .. len -> DOMAIN h] :
        Chained(h, first, list, len) /\ F = {list[i] : i \in 1 .. len}
  BY <1>0
<1>2. /\ \A i, j \in 1 .. len : list[i] = list[j] => i = j
      /\ first = At(list, len, 1)
      /\ \A i \in 1 .. len : h[list[i]].next = At(list, len, i + 1)
  BY <1>1 DEF Chained
<1>3. PICK k \in 1 .. len : list[k] = b
  BY <1>1
<1> DEFINE n == len - 1
           new == [i \in 1 .. n |-> IF i < k THEN list[i] ELSE list[i + 1]]
<1>4. /\ n \in Nat
      /\ \A i \in 1 .. n : i \in 1 .. len /\ i + 1 \in 1 .. len
      /\ \A i \in 1 .. len : i > k => i - 1 \in 1 .. n
      /\ \A i \in 1 .. len : i < k => i \in 1 .. n
  BY <1>3
<1>5. /\ \A i \in 1 .. n : i < k => new[i] = list[i]
      /\ \A i \in 1 .. n : ~(i < k) => new[i] = list[i + 1]
  OBVIOUS
<1>6. new \in [1 .. n -> DOMAIN g]
  BY <1>1, <1>4
<1> HIDE DEF new
<1>7. \A i, j \in 1 .. n : new[i] = new[j] => i = j
  <2> SUFFICES ASSUME NEW i \in 1 .. n, NEW j \in 1 .. n, new[i] = new[j]
               PROVE  i = j
    OBVIOUS
  <2>1. CASE i < k /\ j < k
    BY <1>2, <1>4, <1>5, <2>1
  <2>2. CASE i < k /\ ~(j < k)
    BY <1>2, <1>4, <1>5, <2>2
  <2>3. CASE ~(i < k) /\ j < k
    BY <1>2, <1>4, <1>5, <2>3
  <2>4. CASE ~(i < k) /\ ~(j < k)
    <3>1. i + 1 = j + 1
      BY <1>2, <1>4, <1>5, <2>4
    <3> QED
      BY <3>1
  <2> QED
    BY <2>1, <2>2, <2>3, <2>4
<1>8. F \ {b} = {new[i] : i \in 1 .. n}
  <2>1. ASSUME NEW x \in F \ {b} PROVE x \in {new[i] : i \in 1 .. n}
    <3>1. PICK i \in 1 .. len : x = list[i]
      BY <1>1
    <3>2. CASE i < k
      BY <1>4, <1>5, <3>1, <3>2
    <3>3. CASE i > k
      <4>1. i - 1 \in 1 .. n /\ ~(i - 1 < k) /\ (i - 1) + 1 = i
        BY <1>3, <1>4, <3>3
      <4> QED
        BY <1>5, <3>1, <4>1
    <3>4. i # k
      BY <1>3, <2>1, <3>1
    <3> QED
      BY <1>3, <3>2, <3>3, <3>4
  <2>2. ASSUME NEW i \in 1 .. n PROVE new[i] \in F \ {b}
    <3>1. CASE i < k
      <4>1. i \in 1 .. len /\ i # k /\ new[i] = list[i]
        BY <1>3, <1>4, <1>5, <3>1
      <4> QED
        BY <1>1, <1>2, <1>3, <4>1
    <3>2. CASE ~(i < k)
      <4>1. i + 1 \in 1 .. len /\ i + 1 # k /\ new[i] = list[i + 1]
        BY <1>3, <1>4, <1>5, <3>2
      <4> QED
        BY <1>1, <1>2, <1>3, <4>1
    <3> QED
      BY <3>1, <3>2
  <2> QED
    BY <2>1, <2>2
<1>9. gf = At(new, n, 1)
  <2>1. CASE k = 1
    <3>1. gf = At(list, len, 2)
      BY <1>2, <1>3, <2>1 DEF At
    <3>2. CASE len = 1
      BY <3>1, <3>2 DEF At
    <3>3. CASE len # 1
      <4>1. 1 \in 1 .. n /\ 2 \in 1 .. len /\ new[1] = list[2]
        BY <1>4, <1>5, <2>1, <3>3
      <4> QED
        BY <3>1, <4>1 DEF At
    <3> QED
      BY <3>2, <3>3
  <2>2. CASE k # 1
    <3>1. 1 \in 1 .. n /\ 1 \in 1 .. len /\ 1 < k
      BY <1>3, <1>4, <2>2
    <3>2. first = list[1] /\ list[1] # b /\ new[1] = list[1]
      BY <1>2, <1>3, <1>5, <2>2, <3>1 DEF At
    <3> QED
      BY <3>1, <3>2 DEF At
  <2> QED
    BY <2>1, <2>2
<1>10. ASSUME NEW i \in 1 .. n
       PROVE  g[new[i]].next = At(new, n, i + 1)
  <2>0. new[i] \in F \ {b}
    BY <1>8
  <2>1. CASE ~(i < k)
    <3>1. i + 1 \in 1 .. len /\ new[i] = list[i + 1]
      BY <1>4, <1>5, <2>1
    <3>2. h[new[i]].next = At(list, len, (i + 1) + 1)
      BY <1>2, <3>1
    <3>3. At(list, len, (i + 1) + 1) # b
      <4> SUFFICES ASSUME (i + 1) + 1 \in 1 .. len
                   PROVE  list[(i + 1) + 1] # b
        BY <1>1, <1>3 DEF At
      <4> QED
        BY <1>2, <1>3, <2>1
    <3>4. At(list, len, (i + 1) + 1) = At(new, n, i + 1)
      <4>1. CASE i + 1 \in 1 .. n
        <5>1. ~(i + 1 < k) /\ (i + 1) + 1 \in 1 .. len
          BY <1>3, <1>4, <2>1, <4>1
        <5>2. new[i + 1] = list[(i + 1) + 1]
          BY <1>5, <4>1, <5>1
        <5> QED
          BY <4>1, <5>1, <5>2 DEF At
      <4>2. CASE i + 1 \notin 1 .. n
        <5>1. (i + 1) + 1 \notin 1 .. len
          BY <4>2
        <5> QED
          BY <4>2, <5>1 DEF At
      <4> QED
        BY <4>1, <4>2
    <3> QED
      BY <2>0, <3>2, <3>3, <3>4
  <2>2. CASE i < k /\ i + 1 # k
    <3>1. /\ i \in 1 .. len /\ new[i] = list[i] /\ i + 1 \in 1 .. len /\ i + 1 \in 1 .. n
          /\ new[i + 1] = list[i + 1]
      <4>1. i + 1 < k
        BY <1>3, <2>2
      <4> QED
        BY <1>3, <1>4, <1>5, <2>2, <4>1
    <3>2. h[new[i]].next = list[i + 1] /\ list[i + 1] # b
      BY <1>2, <1>3, <2>2, <3>1 DEF At
    <3> QED
      BY <2>0, <3>1, <3>2 DEF At
  <2>3. CASE i + 1 = k
    <3>1. i \in 1 .. len /\ new[i] = list[i] /\ h[new[i]].next = b
      BY <1>2, <1>3, <1>4, <1>5, <2>3 DEF At
    <3>2. g[new[i]].next = At(list, len, k + 1)
      BY <1>2, <1>3, <2>0, <3>1
    <3>3. At(list, len, k + 1) = At(new, n, k)
      <4>1. CASE k \in 1 .. n
        <5>1. new[k] = list[k + 1] /\ k + 1 \in 1 .. len
          BY <1>4, <1>5, <4>1
        <5> QED
          BY <4>1, <5>1 DEF At
      <4>2. CASE k \notin 1 .. n
        <5>1. k + 1 \notin 1 .. len
          BY <1>3, <4>2
        <5> QED
          BY <4>2, <5>1 DEF At
      <4> QED
        BY <4>1, <4>2
    <3> QED
      BY <2>3, <3>2, <3>3
  <2> QED
    BY <2>1, <2>2, <2>3
<1>11. Chained(g, gf, new, n)
  BY <1>6, <1>7, <1>9, <1>10 DEF Chained, At
<1> HIDE DEF n
<1> QED
  BY <1>4, <1>6, <1>8, <1>11 DEF FreeIs

-----------------------------------------------------------------------------
(* Sizes                                                                   *)

\* Division with remainder.
LEMMA Divided ==
  ASSUME NEW a \in Nat, NEW b \in Nat \ {0}
  PROVE  a \div b \in Nat /\ a % b \in 0 .. b - 1 /\ a = b * (a \div b) + (a % b)
OBVIOUS

\* align rounds up to a multiple.
LEMMA AlignUp ==
  ASSUME NEW n \in Nat, NEW b \in Nat \ {0}
  PROVE  align(n, b) \in Nat /\ align(n, b) >= n /\ align(n, b) % b = 0
<1> DEFINE q == (n + b - 1) \div b
           r == (n + b - 1) % b
           a == q * b
<1>0. n + b - 1 \in Nat
  OBVIOUS
<1>1. q \in Nat /\ r \in 0 .. b - 1 /\ n + b - 1 = b * q + r
  BY <1>0, Divided
<1> HIDE DEF q, r
<1>2. a \in Nat /\ a = b * q
  BY <1>1
<1> HIDE DEF a
<1> DEFINE d == a \div b
           e == a % b
<1>3. d \in Nat /\ e \in 0 .. b - 1 /\ a = b * d + e
  BY <1>2, Divided
<1> HIDE DEF d, e
<1>4. e = 0
  <2>1. d \in Nat /\ e \in 0 .. b - 1 /\ b * q = b * d + e
    BY <1>2, <1>3
  <2>2. ASSUME q >= d + 1 PROVE FALSE
    <3>1. PICK k \in Nat : q = d + 1 + k
      BY <1>1, <2>1, <2>2
    <3>2. b * q = b * d + b + b * k /\ b * k \in Nat
      BY <2>1, <3>1
    <3> QED
      BY <2>1, <3>2
  <2>3. ASSUME d >= q + 1 PROVE FALSE
    <3>1. PICK k \in Nat : d = q + 1 + k
      BY <1>1, <2>1, <2>3
    <3>2. b * d = b * q + b + b * k /\ b * k \in Nat
      BY <1>1, <3>1
    <3> QED
      BY <2>1, <3>2
  <2>4. q = d
    BY <1>1, <2>1, <2>2, <2>3
  <2> QED
    BY <2>1, <2>4
<1>5. a >= n
  BY <1>1, <1>2
<1> QED
  BY <1>2, <1>4, <1>5 DEF align, a, q, e

\* A block has room for what was asked for.
LEMMA RoundedUp ==
  ASSUME NEW size \in Nat
  PROVE  /\ Aligned(size) \in Nat /\ Aligned(size) >= size
         /\ size # 0 => Aligned(size) >= PageHeader
<1>1. /\ Aligned(size) \in Nat /\ Aligned(size) >= size /\ Aligned(size) % 16 = 0
  BY AlignUp DEF Aligned
<1> QED
  BY <1>1 DEF PageHeader

-----------------------------------------------------------------------------
(* Pages and blocks                                                        *)

\* A page's parts, in order; pages do not overlap.
LEMMA PageFacts ==
  ASSUME NEW pgs, PagesRight(pgs), NEW p \in 1 .. Len(pgs)
  PROVE  /\ pgs[p] \in PageRecords /\ Len(pgs) \in Nat
         /\ Start(pgs, p) \in Nat /\ Edge(pgs, p) \in Nat /\ Bound(pgs, p) \in Nat
         /\ pgs[p].base >= STARTING_PAGE
         /\ Start(pgs, p) = pgs[p].base + PageHeader
         /\ Start(pgs, p) <= Edge(pgs, p) /\ Edge(pgs, p) <= Bound(pgs, p)
         /\ \A q \in 1 .. Len(pgs) : q # p => Bound(pgs, p) <= pgs[q].base \/ Bound(pgs, q) <= pgs[p].base
<1>1. pgs \in Seq(PageRecords) /\ Len(pgs) \in Nat /\ pgs[p] \in PageRecords
  BY DEF PagesRight
<1>2. /\ pgs[p].base \in Nat /\ pgs[p].used \in Nat /\ pgs[p].size \in Nat
      /\ pgs[p].base >= STARTING_PAGE
      /\ PageHeader <= pgs[p].used /\ pgs[p].used <= pgs[p].size
  BY <1>1 DEF PagesRight, PageRecords, PageHeader
<1>3. \A q \in 1 .. Len(pgs) : q # p => Bound(pgs, p) <= pgs[q].base \/ Bound(pgs, q) <= pgs[p].base
  <2> SUFFICES ASSUME NEW q \in 1 .. Len(pgs), q # p
               PROVE  Bound(pgs, p) <= pgs[q].base \/ Bound(pgs, q) <= pgs[p].base
    OBVIOUS
  <2>1. p < q \/ q < p
    BY <1>1
  <2> QED
    BY <2>1 DEF PagesRight
<1> QED
  BY <1>1, <1>2, <1>3 DEF Start, Edge, Bound, PageHeader

\* Two pages lie apart.
LEMMA PagesApart ==
  ASSUME NEW pgs, PagesRight(pgs), NEW p \in 1 .. Len(pgs), NEW q \in 1 .. Len(pgs), p # q
  PROVE  Bound(pgs, p) < Start(pgs, q) \/ Bound(pgs, q) < Start(pgs, p)
<1>1. /\ pgs[p].base \in Nat /\ Bound(pgs, p) \in Nat
      /\ Start(pgs, p) \in Nat /\ Start(pgs, p) = pgs[p].base + PageHeader
      /\ Bound(pgs, p) <= pgs[q].base \/ Bound(pgs, q) <= pgs[p].base
  BY PageFacts DEF PageRecords
<1>2. /\ pgs[q].base \in Nat /\ Bound(pgs, q) \in Nat
      /\ Start(pgs, q) \in Nat /\ Start(pgs, q) = pgs[q].base + PageHeader
  BY PageFacts DEF PageRecords
<1>3. \A n \in Nat : n < n + PageHeader
  BY DEF PageHeader
<1>4. pgs[p].base < Start(pgs, p) /\ pgs[q].base < Start(pgs, q)
  BY <1>1, <1>2, <1>3, Zenon
<1> QED
  BY <1>1, <1>2, <1>4

\* A block lies in one page; a counted one before the page's edge.
LEMMA BlockFacts ==
  ASSUME NEW pgs, NEW h, NEW pend, Space(pgs, h, pend), NEW b \in DOMAIN h
  PROVE  /\ b \in Nat /\ h[b] \in Headers /\ Behind(h, b) \in Nat
         /\ b < Behind(h, b) /\ b >= STARTING_PAGE
         /\ \E p \in 1 .. Len(pgs) :
              /\ Start(pgs, p) <= b /\ Behind(h, b) <= Bound(pgs, p)
              /\ IF b \in pend THEN b = Edge(pgs, p) ELSE Behind(h, b) <= Edge(pgs, p)
<1>1. b \in Nat /\ h[b] \in Headers
  BY DEF Space
<1>2. Behind(h, b) \in Nat /\ b < Behind(h, b)
  BY <1>1 DEF Behind, Headers, BlkHeader
<1>3. PICK p \in 1 .. Len(pgs) :
        IF b \in pend THEN b = Edge(pgs, p) /\ Behind(h, b) <= Bound(pgs, p)
        ELSE Start(pgs, p) <= b /\ Behind(h, b) <= Edge(pgs, p)
  BY DEF Space, BlocksPlaced
<1>4. /\ Start(pgs, p) \in Nat /\ Edge(pgs, p) \in Nat /\ Bound(pgs, p) \in Nat
      /\ Start(pgs, p) <= Edge(pgs, p) /\ Edge(pgs, p) <= Bound(pgs, p)
      /\ Start(pgs, p) = pgs[p].base + PageHeader /\ pgs[p].base >= STARTING_PAGE
      /\ pgs[p] \in PageRecords
  BY PageFacts DEF Space
<1>5. Start(pgs, p) >= STARTING_PAGE
  BY <1>4 DEF PageRecords, PageHeader, STARTING_PAGE
<1>6. /\ Start(pgs, p) <= b /\ Behind(h, b) <= Bound(pgs, p) /\ b >= STARTING_PAGE
      /\ IF b \in pend THEN b = Edge(pgs, p) ELSE Behind(h, b) <= Edge(pgs, p)
  BY <1>1, <1>2, <1>3, <1>4, <1>5 DEF STARTING_PAGE
<1> QED
  BY <1>1, <1>2, <1>6

\* g is h with header x at b; q is the pages with n more bytes of page p counted.
Written(g, h, b, x) ==
  /\ g \in [DOMAIN h \cup {b} -> Headers] /\ g[b] = x
  /\ \A a \in DOMAIN h : a # b => g[a] = h[a]

Advanced(q, pgs, p, n) ==
  /\ q \in Seq(PageRecords) /\ Len(q) = Len(pgs)
  /\ \A r \in 1 .. Len(pgs) :
       q[r].base = pgs[r].base /\ q[r].size = pgs[r].size /\ (r # p => q[r] = pgs[r])
  /\ q[p].used = pgs[p].used + n

\* A step that leaves the blocks where they are and as large as they are.
LEMMA SpaceKept ==
  ASSUME NEW pgs, NEW h, NEW pend, Space(pgs, h, pend),
         NEW g, g \in [DOMAIN h -> Headers], \A b \in DOMAIN h : g[b].actual = h[b].actual
  PROVE  Space(pgs, g, pend)
<1>1. DOMAIN g = DOMAIN h /\ \A b \in DOMAIN h : Behind(g, b) = Behind(h, b)
  BY DEF Behind
<1>2. DOMAIN g \subseteq Nat /\ g \in [DOMAIN g -> Headers]
  BY <1>1 DEF Space
<1>3. BlocksPlaced(pgs, g, pend)
  BY <1>1 DEF Space, BlocksPlaced
<1>4. ASSUME NEW p \in 1 .. Len(pgs) PROVE Tiled(pgs, g, p)
  <2>1. {b \in DOMAIN g : b \in Start(pgs, p) .. Edge(pgs, p) - 1}
          = {b \in DOMAIN h : b \in Start(pgs, p) .. Edge(pgs, p) - 1}
    BY <1>1
  <2>2. {Behind(g, b) : b \in {b \in DOMAIN g : b \in Start(pgs, p) .. Edge(pgs, p) - 1}}
          = {Behind(h, b) : b \in {b \in DOMAIN h : b \in Start(pgs, p) .. Edge(pgs, p) - 1}}
    BY <1>1, <2>1
  <2>3. Tiled(pgs, h, p)
    BY DEF Space
  <2> QED
    BY <2>1, <2>2, <2>3 DEF Tiled
<1> QED
  BY <1>2, <1>3, <1>4 DEF Space

\* A header is written just behind what a page counts.
LEMMA SpaceCarved ==
  ASSUME NEW pgs, NEW h, NEW pend, Space(pgs, h, pend),
         NEW p \in 1 .. Len(pgs), NEW x \in Headers,
         NEW b \in Nat, b = Edge(pgs, p), b \notin pend,
         NEW e \in Nat, e = b + BlkHeader + x.actual, e <= Bound(pgs, p),
         NEW g, Written(g, h, b, x)
  PROVE  b \notin DOMAIN h /\ Space(pgs, g, pend \cup {b})
<1>1. /\ b \in Nat /\ Bound(pgs, p) \in Nat /\ Start(pgs, p) <= b /\ b <= Bound(pgs, p)
      /\ Start(pgs, p) = pgs[p].base + PageHeader /\ pgs[p].base \in Nat
      /\ \A q \in 1 .. Len(pgs) : q # p => Bound(pgs, p) <= pgs[q].base \/ Bound(pgs, q) <= pgs[p].base
  BY PageFacts DEF Space, PageRecords
<1>2. e \in Nat /\ b < e
  BY <1>1 DEF Headers, BlkHeader
<1>3. ASSUME NEW a \in DOMAIN h
      PROVE  a # b /\ (Behind(h, a) <= b \/ e <= a)
  <2>1. /\ a \in Nat /\ Behind(h, a) \in Nat /\ a < Behind(h, a)
        /\ \E q \in 1 .. Len(pgs) :
             /\ Start(pgs, q) <= a /\ Behind(h, a) <= Bound(pgs, q)
             /\ IF a \in pend THEN a = Edge(pgs, q) ELSE Behind(h, a) <= Edge(pgs, q)
    BY BlockFacts
  <2>2. PICK q \in 1 .. Len(pgs) :
          /\ Start(pgs, q) <= a /\ Behind(h, a) <= Bound(pgs, q)
          /\ IF a \in pend THEN a = Edge(pgs, q) ELSE Behind(h, a) <= Edge(pgs, q)
    BY <2>1
  <2>3. /\ Start(pgs, q) = pgs[q].base + PageHeader /\ pgs[q].base \in Nat
        /\ Bound(pgs, q) \in Nat
    BY PageFacts DEF Space, PageRecords
  <2>4. CASE q = p
    BY <1>1, <2>1, <2>2, <2>4
  <2>5. CASE q # p
    <3>1. Bound(pgs, p) <= pgs[q].base \/ Bound(pgs, q) <= pgs[p].base
      BY <1>1, <2>5
    <3>2. Bound(pgs, p) <= pgs[q].base => e <= a
      BY <1>1, <1>2, <2>1, <2>2, <2>3 DEF PageHeader
    <3>3. Bound(pgs, q) <= pgs[p].base => Behind(h, a) <= b
      BY <1>1, <2>1, <2>2, <2>3 DEF PageHeader
    <3> QED
      BY <1>1, <1>2, <2>1, <3>1, <3>2, <3>3
  <2> QED
    BY <2>4, <2>5
<1>4. /\ DOMAIN g = DOMAIN h \cup {b} /\ g[b] = x
      /\ \A a \in DOMAIN h : g[a] = h[a]
  BY <1>3 DEF Written
<1>5. Behind(g, b) = e /\ \A a \in DOMAIN h : Behind(g, a) = Behind(h, a)
  BY <1>4 DEF Behind
<1>6. DOMAIN g \subseteq Nat /\ g \in [DOMAIN g -> Headers]
  BY <1>1, <1>4 DEF Space, Written
<1>7. BlocksPlaced(pgs, g, pend \cup {b})
  <2>1. pend \cup {b} \subseteq DOMAIN g
    BY <1>4 DEF Space, BlocksPlaced
  <2>2. \A a \in DOMAIN g \ (pend \cup {b}) :
          \E q \in 1 .. Len(pgs) : Start(pgs, q) <= a /\ Behind(g, a) <= Edge(pgs, q)
    BY <1>4, <1>5 DEF Space, BlocksPlaced
  <2>3. \A a \in pend \cup {b} :
          \E q \in 1 .. Len(pgs) : a = Edge(pgs, q) /\ Behind(g, a) <= Bound(pgs, q)
    BY <1>4, <1>5 DEF Space, BlocksPlaced
  <2>4. \A a, c \in DOMAIN g : a # c => Behind(g, a) <= c \/ Behind(g, c) <= a
    <3>1. \A a, c \in DOMAIN h : a # c => Behind(h, a) <= c \/ Behind(h, c) <= a
      BY DEF Space, BlocksPlaced
    <3> SUFFICES ASSUME NEW a \in DOMAIN g, NEW c \in DOMAIN g, a # c
                 PROVE  Behind(g, a) <= c \/ Behind(g, c) <= a
      OBVIOUS
    <3>2. CASE a = b
      <4>1. c \in DOMAIN h /\ Behind(g, a) = e /\ Behind(g, c) = Behind(h, c)
        BY <1>4, <1>5, <3>2
      <4> QED
        BY <1>3, <3>2, <4>1
    <3>3. CASE c = b
      <4>1. a \in DOMAIN h /\ Behind(g, c) = e /\ Behind(g, a) = Behind(h, a)
        BY <1>4, <1>5, <3>3
      <4> QED
        BY <1>3, <3>3, <4>1
    <3>4. CASE a # b /\ c # b
      <4>1. a \in DOMAIN h /\ c \in DOMAIN h
        BY <1>4, <3>4
      <4> QED
        BY <1>5, <3>1, <4>1
    <3> QED
      BY <3>2, <3>3, <3>4
  <2> QED
    BY <2>1, <2>2, <2>3, <2>4 DEF BlocksPlaced
<1>8. ASSUME NEW q \in 1 .. Len(pgs) PROVE Tiled(pgs, g, q)
  <2> DEFINE in == Start(pgs, q) .. Edge(pgs, q) - 1
  <2>1. b \notin in
    <3>1. /\ Start(pgs, q) = pgs[q].base + PageHeader /\ pgs[q].base \in Nat
          /\ Bound(pgs, q) \in Nat /\ Edge(pgs, q) \in Nat /\ Edge(pgs, q) <= Bound(pgs, q)
      BY PageFacts DEF Space, PageRecords
    <3>2. CASE q = p
      BY <1>1, <3>1, <3>2
    <3>3. CASE q # p
      <4>1. /\ Start(pgs, q) \in Nat /\ Start(pgs, p) \in Nat
            /\ Bound(pgs, p) < Start(pgs, q) \/ Bound(pgs, q) < Start(pgs, p)
        BY <3>3, PageFacts, PagesApart DEF Space
      <4>2. CASE Bound(pgs, p) < Start(pgs, q)
        BY <1>1, <3>1, <4>1, <4>2
      <4>3. CASE Bound(pgs, q) < Start(pgs, p)
        BY <1>1, <3>1, <4>1, <4>3
      <4> QED
        BY <4>1, <4>2, <4>3
    <3> QED
      BY <3>2, <3>3
  <2>2. {a \in DOMAIN g : a \in in} = {a \in DOMAIN h : a \in in}
    BY <1>4, <2>1
  <2>3. {Behind(g, a) : a \in {c \in DOMAIN g : c \in in}}
          = {Behind(h, a) : a \in {c \in DOMAIN h : c \in in}}
    BY <1>5, <2>2
  <2>4. Tiled(pgs, h, q)
    BY DEF Space
  <2> QED
    BY <2>2, <2>3, <2>4 DEF Tiled
<1>9. PagesRight(pgs)
  BY DEF Space
<1> QED
  BY <1>3, <1>6, <1>7, <1>8, <1>9 DEF Space

\* used_size is stored.
WithUsed(pgs, p, k) == [pgs EXCEPT ![p].used = k]

\* It counts more bytes of the page, and leaves the rest.
LEMMA UsedSet ==
  ASSUME NEW pgs \in Seq(PageRecords), NEW p \in 1 .. Len(pgs), NEW k \in Nat,
         NEW g, g = WithUsed(pgs, p, k)
  PROVE  \A n : k = pgs[p].used + n => Advanced(g, pgs, p, n)
<1> DEFINE x == [pgs[p] EXCEPT !.used = k]
<1>1. pgs[p] \in PageRecords
  OBVIOUS
<1>2. x \in PageRecords /\ x.used = k /\ x.base = pgs[p].base /\ x.size = pgs[p].size
  BY <1>1 DEF PageRecords
<1>3. g = [pgs EXCEPT ![p] = x]
  BY DEF WithUsed
<1> HIDE DEF x
<1>4. /\ g \in Seq(PageRecords) /\ Len(g) = Len(pgs)
      /\ \A q \in 1 .. Len(pgs) : g[q] = IF q = p THEN x ELSE pgs[q]
  BY <1>2, <1>3, ExceptSeq
<1> QED
  BY <1>2, <1>4 DEF Advanced

\* It is counted.
LEMMA SpaceCounted ==
  ASSUME NEW pgs, NEW h, NEW pend, Space(pgs, h, pend),
         NEW p \in 1 .. Len(pgs), NEW b \in pend, b = Edge(pgs, p),
         NEW e \in Nat, e = Behind(h, b), e <= Bound(pgs, p),
         NEW g, Advanced(g, pgs, p, BlkHeader + h[b].actual)
  PROVE  Space(g, h, pend \ {b})
<1>1. b \in DOMAIN h /\ h[b].actual \in Nat /\ b \in Nat
  BY DEF Space, BlocksPlaced, Headers
<1>2. /\ pgs \in Seq(PageRecords) /\ Len(pgs) \in Nat
      /\ pgs[p].base \in Nat /\ pgs[p].used \in Nat /\ pgs[p].size \in Nat
      /\ DOMAIN pgs = 1 .. Len(pgs) /\ \A q \in 1 .. Len(pgs) : pgs[q] \in PageRecords
  <2>1. pgs \in Seq(PageRecords) /\ pgs[p] \in PageRecords
    BY PageFacts DEF Space, PagesRight
  <2>2. pgs[p].base \in Nat /\ pgs[p].used \in Nat /\ pgs[p].size \in Nat
    BY <2>1 DEF PageRecords
  <2> QED
    BY <2>1, <2>2
<1>3. /\ g \in Seq(PageRecords) /\ Len(g) = Len(pgs)
      /\ \A q \in 1 .. Len(pgs) :
           /\ g[q].base = pgs[q].base /\ g[q].size = pgs[q].size
           /\ q # p => g[q] = pgs[q]
      /\ g[p].used = pgs[p].used + (BlkHeader + h[b].actual)
  BY DEF Advanced
<1>4. /\ e \in Nat /\ b < e /\ Edge(g, p) = e
      /\ \A q \in 1 .. Len(pgs) :
           /\ Start(g, q) = Start(pgs, q) /\ Bound(g, q) = Bound(pgs, q)
           /\ q # p => Edge(g, q) = Edge(pgs, q)
  <2>4. \A q \in 1 .. Len(pgs) :
          /\ Start(g, q) = Start(pgs, q) /\ Bound(g, q) = Bound(pgs, q)
          /\ q # p => Edge(g, q) = Edge(pgs, q)
    BY <1>3 DEF Start, Bound, Edge
  <2>5. /\ pgs[p].base \in Nat /\ pgs[p].used \in Nat /\ h[b].actual \in Nat
        /\ g[p].base = pgs[p].base /\ g[p].used = pgs[p].used + (BlkHeader + h[b].actual)
    BY <1>1, <1>2, <1>3
  <2>6. b < e /\ Edge(g, p) = e
    <3> DEFINE x == pgs[p].base
               y == pgs[p].used
               z == h[b].actual
    <3>1. b = x + y
      BY Zenon DEF Edge
    <3>2. e = b + BlkHeader + z
      BY Zenon DEF Behind
    <3>3. Edge(g, p) = x + (y + (BlkHeader + z))
      BY <2>5, Zenon DEF Edge
    <3>4. x \in Nat /\ y \in Nat /\ z \in Nat
      BY <2>5
    <3> HIDE DEF x, y, z
    <3>5. /\ x + (y + (BlkHeader + z)) = x + y + BlkHeader + z
          /\ x + y < x + y + BlkHeader + z
      BY <3>4 DEF BlkHeader
    <3> QED
      BY <3>1, <3>2, <3>3, <3>5, Zenon
  <2> QED
    BY <2>4, <2>6
<1>5. PagesRight(g)
  <2>1. g[p].used \in PageHeader .. g[p].size
    <3>1. Edge(g, p) = pgs[p].base + g[p].used /\ Bound(pgs, p) = pgs[p].base + pgs[p].size
      BY <1>3 DEF Edge, Bound
    <3>2. pgs[p].base + g[p].used <= pgs[p].base + pgs[p].size
      BY <1>4, <3>1
    <3>3. g[p].used \in Nat /\ g[p].used >= pgs[p].used
      BY <1>1, <1>2, <1>3 DEF BlkHeader
    <3>4. pgs[p].used >= PageHeader
      BY DEF Space, PagesRight
    <3>5. g[p].used <= pgs[p].size
      BY <1>2, <3>2, <3>3
    <3> QED
      BY <1>2, <1>3, <3>3, <3>4, <3>5 DEF PageHeader
  <2>2. PagesRight(pgs)
    BY DEF Space
  <2>3. ASSUME NEW q \in 1 .. Len(pgs)
        PROVE  /\ g[q].base >= STARTING_PAGE
               /\ g[q].used \in PageHeader .. g[q].size /\ g[q].size % PAGE_SIZE = 0
    <3>1. /\ pgs[q].base >= STARTING_PAGE
          /\ pgs[q].used \in PageHeader .. pgs[q].size /\ pgs[q].size % PAGE_SIZE = 0
      BY <2>2 DEF PagesRight
    <3>2. g[q].base = pgs[q].base /\ g[q].size = pgs[q].size /\ (q # p => g[q] = pgs[q])
      BY <1>3
    <3> QED
      BY <2>1, <3>1, <3>2
  <2>4. \A q, r \in 1 .. Len(pgs) : q < r => Bound(g, q) <= g[r].base
    BY <1>3, <1>4, <2>2 DEF PagesRight
  <2> QED
    BY <1>3, <2>3, <2>4 DEF PagesRight
<1>6. \A a \in DOMAIN h : a # b => Behind(h, a) <= b \/ e <= a
  BY <1>1 DEF Space, BlocksPlaced
<1>7. BlocksPlaced(g, h, pend \ {b})
  <2>1. ASSUME NEW a \in DOMAIN h \ (pend \ {b})
        PROVE  \E q \in 1 .. Len(g) : Start(g, q) <= a /\ Behind(h, a) <= Edge(g, q)
    <3>1. CASE a = b
      <4>1. Start(g, p) <= b
        BY <1>4, PageFacts DEF Space
      <4>2. e <= Edge(g, p)
        BY <1>4
      <4> QED
        BY <1>3, <3>1, <4>1, <4>2
    <3>2. CASE a # b
      <4>1. PICK q \in 1 .. Len(pgs) : Start(pgs, q) <= a /\ Behind(h, a) <= Edge(pgs, q)
        BY <3>2 DEF Space, BlocksPlaced
      <4>2. Edge(pgs, q) \in Nat /\ Edge(g, q) \in Nat /\ Edge(pgs, q) <= Edge(g, q)
        <5>1. Edge(pgs, q) \in Nat
          BY PageFacts DEF Space
        <5>2. CASE q = p
          BY <1>1, <1>4, <5>2
        <5>3. CASE q # p
          <6>1. Edge(g, q) = Edge(pgs, q)
            BY <1>4, <5>3
          <6> QED
            BY <5>1, <6>1
        <5> QED
          BY <5>1, <5>2, <5>3
      <4>3. Behind(h, a) \in Nat
        BY BlockFacts
      <4>4. Start(g, q) <= a /\ q \in 1 .. Len(g)
        BY <1>3, <1>4, <4>1
      <4>5. Behind(h, a) <= Edge(g, q)
        BY <4>1, <4>2, <4>3
      <4> QED
        BY <4>4, <4>5
    <3> QED
      BY <3>1, <3>2
  <2>2. ASSUME NEW a \in pend \ {b}
        PROVE  \E q \in 1 .. Len(g) : a = Edge(g, q) /\ Behind(h, a) <= Bound(g, q)
    <3>1. PICK q \in 1 .. Len(pgs) : a = Edge(pgs, q) /\ Behind(h, a) <= Bound(pgs, q)
      BY DEF Space, BlocksPlaced
    <3>2. q # p
      BY <3>1
    <3> QED
      BY <1>3, <1>4, <3>1, <3>2
  <2> QED
    BY <1>3, <2>1, <2>2 DEF Space, BlocksPlaced
<1>8. ASSUME NEW q \in 1 .. Len(pgs) PROVE Tiled(g, h, q)
  <2>1. Tiled(pgs, h, q)
    BY DEF Space
  <2>2. CASE q # p
    BY <1>4, <2>1, <2>2 DEF Tiled
  <2>3. CASE q = p
    <3> DEFINE s == Start(pgs, p)
               old == {a \in DOMAIN h : a \in s .. b - 1}
               new == {a \in DOMAIN h : a \in s .. e - 1}
    <3>1. {s} \cup {Behind(h, a) : a \in old} = old \cup {b}
      BY <2>1, <2>3 DEF Tiled
    <3>2. s \in Nat /\ s <= b
      BY PageFacts DEF Space
    <3>3. new = old \cup {b}
      <4>1. ASSUME NEW a \in DOMAIN h PROVE a \in new <=> a \in old \/ a = b
        <5>1. a \in Nat /\ Behind(h, a) \in Nat /\ a < Behind(h, a)
          BY BlockFacts
        <5> HIDE DEF s
        <5> QED
          BY <1>1, <1>4, <1>6, <3>2, <4>1, <5>1
      <4> QED
        BY <1>1, <4>1
    <3>4. {Behind(h, a) : a \in new} = {Behind(h, a) : a \in old} \cup {e}
      BY <3>3
    <3>5. {s} \cup {Behind(h, a) : a \in new} = new \cup {e}
      <4> HIDE DEF s, old, new
      <4> QED
        BY <3>1, <3>3, <3>4
    <3> QED
      BY <1>4, <2>3, <3>5 DEF Tiled
  <2> QED
    BY <2>2, <2>3
<1>9. DOMAIN h \subseteq Nat /\ h \in [DOMAIN h -> Headers]
  BY DEF Space
<1> QED
  BY <1>3, <1>5, <1>7, <1>8, <1>9 DEF Space

\* A page is added behind the last.
LEMMA SpaceAdded ==
  ASSUME NEW pgs, NEW h, NEW pend, Space(pgs, h, pend), NEW x \in PageRecords,
         x.used = PageHeader, x.size >= PageHeader, x.size % PAGE_SIZE = 0,
         x.base = IF Len(pgs) = 0 THEN STARTING_PAGE ELSE pgs[Len(pgs)].base + pgs[Len(pgs)].size
  PROVE  Space(Append(pgs, x), h, pend)
<1> DEFINE n == Len(pgs)
           g == Append(pgs, x)
<1>1. n \in Nat /\ pgs \in Seq(PageRecords) /\ \A p \in 1 .. n : pgs[p] \in PageRecords
  BY DEF Space, PagesRight
<1>2. /\ g \in Seq(PageRecords) /\ Len(g) = n + 1 /\ g[n + 1] = x
      /\ \A p \in 1 .. n : g[p] = pgs[p]
  BY <1>1
<1> HIDE DEF g
<1>3. \A p \in 1 .. n : /\ Start(g, p) = Start(pgs, p) /\ Edge(g, p) = Edge(pgs, p)
                        /\ Bound(g, p) = Bound(pgs, p)
  BY <1>2 DEF Start, Edge, Bound
<1>4. x.base \in Nat /\ x.size \in Nat /\ x.used \in Nat /\ x.base >= STARTING_PAGE
  <2>1. CASE n = 0
    BY <2>1 DEF PageRecords, STARTING_PAGE
  <2>2. CASE n # 0
    <3>1. n \in 1 .. n
      BY <1>1, <2>2
    <3>2. pgs[n].base >= STARTING_PAGE /\ pgs[n].base \in Nat /\ pgs[n].size \in Nat
      BY <1>1, <3>1, PageFacts DEF Space, PageRecords
    <3> QED
      BY <2>2, <3>2 DEF PageRecords, STARTING_PAGE
  <2> QED
    BY <2>1, <2>2
<1>5. \A p \in 1 .. n : Bound(pgs, p) <= x.base
  <2> SUFFICES ASSUME NEW p \in 1 .. n
               PROVE  Bound(pgs, p) <= x.base
    OBVIOUS
  <2>1. n \in 1 .. n /\ x.base = Bound(pgs, n)
    BY <1>1 DEF Bound
  <2>2. p # n => Bound(pgs, p) <= pgs[n].base
    BY <1>1, <2>1 DEF Space, PagesRight
  <2>3. /\ Bound(pgs, p) \in Nat /\ Bound(pgs, n) \in Nat
        /\ pgs[n].base \in Nat /\ pgs[n].size \in Nat
    BY <1>1, <2>1, PageFacts DEF Space, PageRecords
  <2> QED
    BY <2>1, <2>2, <2>3 DEF Bound
<1>6. PagesRight(g)
  <2>1. ASSUME NEW p \in 1 .. n + 1
        PROVE  /\ g[p].base >= STARTING_PAGE
               /\ g[p].used \in PageHeader .. g[p].size /\ g[p].size % PAGE_SIZE = 0
    <3>1. CASE p = n + 1
      BY <1>2, <1>4, <3>1 DEF PageHeader
    <3>2. CASE p # n + 1
      <4>1. p \in 1 .. n
        BY <1>1, <3>2
      <4> QED
        BY <1>2, <4>1 DEF Space, PagesRight
    <3> QED
      BY <3>1, <3>2
  <2>2. ASSUME NEW p \in 1 .. n + 1, NEW q \in 1 .. n + 1, p < q
        PROVE  Bound(g, p) <= g[q].base
    <3>1. p \in 1 .. n /\ (q = n + 1 \/ q \in 1 .. n)
      BY <1>1, <2>2
    <3>2. CASE q = n + 1
      BY <1>2, <1>3, <1>5, <3>1, <3>2
    <3>3. CASE q \in 1 .. n
      BY <1>2, <1>3, <2>2, <3>1, <3>3 DEF Space, PagesRight
    <3> QED
      BY <3>1, <3>2, <3>3
  <2> HIDE DEF n
  <2> QED
    BY <1>2, <2>1, <2>2 DEF PagesRight
<1>7. \A p \in 1 .. n : p \in 1 .. Len(g)
  BY <1>1, <1>2
<1>8. BlocksPlaced(g, h, pend)
  <2>1. BlocksPlaced(pgs, h, pend)
    BY DEF Space
  <2>2. \A b \in DOMAIN h \ pend :
          \E p \in 1 .. Len(g) : Start(g, p) <= b /\ Behind(h, b) <= Edge(g, p)
    BY <1>3, <1>7, <2>1 DEF BlocksPlaced
  <2>3. \A b \in pend :
          \E p \in 1 .. Len(g) : b = Edge(g, p) /\ Behind(h, b) <= Bound(g, p)
    BY <1>3, <1>7, <2>1 DEF BlocksPlaced
  <2> QED
    BY <2>1, <2>2, <2>3 DEF BlocksPlaced
<1>9. ASSUME NEW p \in 1 .. Len(g) PROVE Tiled(g, h, p)
  <2>1. CASE p \in 1 .. n
    <3>1. Tiled(pgs, h, p)
      BY <2>1 DEF Space
    <3> QED
      BY <1>3, <2>1, <3>1 DEF Tiled
  <2>2. CASE p = n + 1
    <3>1. Start(g, p) = x.base + PageHeader /\ Edge(g, p) = x.base + PageHeader
      BY <1>2, <2>2 DEF Start, Edge
    <3>2. Start(g, p) .. Edge(g, p) - 1 = {}
      BY <1>4, <3>1 DEF PageHeader
    <3> QED
      BY <3>1, <3>2 DEF Tiled
  <2> QED
    BY <1>1, <1>2, <2>1, <2>2
<1>10. DOMAIN h \subseteq Nat /\ h \in [DOMAIN h -> Headers]
  BY DEF Space
<1> QED
  BY <1>6, <1>8, <1>9, <1>10 DEF Space, g

-----------------------------------------------------------------------------
(* Memory                                                                  *)

\* What the invariant says of pages, blocks and the list, taken apart.
LEMMA MemoryFacts ==
  ASSUME MemoryRight
  PROVE  /\ NULL \notin DOMAIN hdr
         /\ \A b \in DOMAIN hdr : b \in Nat /\ hdr[b] \in Headers /\ hdr[b].actual \in Nat
         /\ hdr \in [DOMAIN hdr -> Headers]
         /\ \A b \in DOMAIN hdr : hdr[b].next \in DOMAIN hdr \cup {NULL}
         /\ InUse \subseteq DOMAIN hdr /\ InUse \cap OnList = {} /\ Limbo \cap OnList = {}
         /\ OnList \subseteq DOMAIN hdr
         /\ free_list \in OnList \cup {NULL}
         /\ \A b \in OnList : hdr[b].next \in OnList \cup {NULL} /\ hdr[b].next # b
         /\ \A b \in OnList : free_list # NULL => hdr[b].next # free_list
         /\ \A a, b \in OnList : hdr[a].next = hdr[b].next /\ hdr[a].next # NULL => a = b
<1>1. \A b \in DOMAIN hdr : b \in Nat /\ hdr[b] \in Headers /\ b >= STARTING_PAGE
  BY BlockFacts DEF MemoryRight
<1>2. NULL \notin DOMAIN hdr /\ \A b \in DOMAIN hdr : hdr[b].actual \in Nat
  BY <1>1 DEF NULL, STARTING_PAGE, Headers
<1>3. hdr \in [DOMAIN hdr -> Headers]
  BY DEF MemoryRight, Space
<1>4. InUse \subseteq DOMAIN hdr
  BY DEF MemoryRight, LiveRight, InUse
<1>5. InUse \cap OnList = {} /\ Limbo \cap OnList = {}
  BY DEF OnList
<1>6. FreeIs(hdr, free_list, OnList)
  BY DEF MemoryRight
<1> HIDE DEF OnList
<1>7. /\ OnList \subseteq DOMAIN hdr
      /\ free_list \in OnList \cup {NULL}
      /\ \A b \in OnList : hdr[b].next \in OnList \cup {NULL} /\ hdr[b].next # b
      /\ \A b \in OnList : free_list # NULL => hdr[b].next # free_list
      /\ \A a, b \in OnList : hdr[a].next = hdr[b].next /\ hdr[a].next # NULL => a = b
  BY <1>2, <1>6, ListFacts
<1> QED
  BY <1>1, <1>2, <1>3, <1>4, <1>5, <1>7 DEF MemoryRight

\* The pages as numbers; how much room a page has.
LEMMA RoomFacts ==
  ASSUME MemoryRight, NEW p \in 1 .. Len(pages)
  PROVE  /\ pages \in Seq(PageRecords) /\ Len(pages) \in Nat /\ DOMAIN pages = 1 .. Len(pages)
         /\ pages[p].base \in Nat /\ pages[p].size \in Nat /\ pages[p].used \in Nat
         /\ PageHeader <= pages[p].used /\ pages[p].used <= pages[p].size
         /\ pages[p].size % PAGE_SIZE = 0
         /\ Edge(pages, p) \in Nat /\ Bound(pages, p) \in Nat
         /\ Edge(pages, p) = pages[p].base + pages[p].used
         /\ \A size \in Nat : Fits(p, size) <=> Edge(pages, p) + BlkHeader + Aligned(size) <= Bound(pages, p)
<1>1. PagesRight(pages)
  BY DEF MemoryRight, Space
<1>2. /\ pages \in Seq(PageRecords) /\ Len(pages) \in Nat /\ pages[p] \in PageRecords
      /\ pages[p].used \in PageHeader .. pages[p].size /\ pages[p].size % PAGE_SIZE = 0
  BY <1>1, PageFacts DEF PagesRight
<1>3. pages[p].base \in Nat /\ pages[p].size \in Nat /\ pages[p].used \in Nat
  BY <1>2 DEF PageRecords
<1>4. PageHeader <= pages[p].used /\ pages[p].used <= pages[p].size
  BY <1>2, <1>3 DEF PageHeader
<1>5. ASSUME NEW size \in Nat
      PROVE  Fits(p, size) <=> Edge(pages, p) + BlkHeader + Aligned(size) <= Bound(pages, p)
  <2>1. Aligned(size) \in Nat
    BY RoundedUp
  <2>2. ASSUME NEW base \in Nat, NEW total \in Nat, NEW used \in Nat, NEW n \in Nat
        PROVE  total - used >= n + BlkHeader <=> base + used + BlkHeader + n <= base + total
    BY DEF BlkHeader
  <2> QED
    BY <1>3, <2>1, <2>2, Zenon DEF Fits, Room, Edge, Bound
<1> QED
  BY <1>2, <1>3, <1>4, <1>5 DEF Edge, Bound

\* Two pages end what they count at different places.
LEMMA EdgesDiffer ==
  ASSUME NEW pgs, PagesRight(pgs), NEW p \in 1 .. Len(pgs), NEW q \in 1 .. Len(pgs), p # q
  PROVE  Edge(pgs, p) # Edge(pgs, q)
<1>1. /\ Start(pgs, p) \in Nat /\ Edge(pgs, p) \in Nat /\ Bound(pgs, p) \in Nat
      /\ Start(pgs, p) <= Edge(pgs, p) /\ Edge(pgs, p) <= Bound(pgs, p)
  BY PageFacts
<1>2. /\ Start(pgs, q) \in Nat /\ Edge(pgs, q) \in Nat /\ Bound(pgs, q) \in Nat
      /\ Start(pgs, q) <= Edge(pgs, q) /\ Edge(pgs, q) <= Bound(pgs, q)
  BY PageFacts
<1> QED
  BY <1>1, <1>2, PagesApart

\* Types are right when memory and the call are.
LEMMA TypesFollow == MemoryRight /\ CallLocals => HeapTypeOK
<1> SUFFICES ASSUME MemoryRight, CallLocals
             PROVE  HeapTypeOK
  OBVIOUS
<1>1. \A p \in DOMAIN pages : /\ pages[p].used \in PageHeader .. pages[p].size
                              /\ pages[p].size % PAGE_SIZE = 0
  BY DEF MemoryRight, Space, PagesRight
<1>2. free_list \in DOMAIN hdr \cup {NULL}
  BY MemoryFacts
<1>3. {b.at : b \in live} \subseteq DOMAIN hdr /\ grown \subseteq {b.at : b \in live}
  BY MemoryFacts DEF MemoryRight, LiveRight, InUse
<1>4. pc \in {"idle", "first page", "list", "pop", "popped", "walk", "found", "unlink",
              "room", "add page", "carve", "count", "counted", "free", "publish"}
  BY DEF CallLocals, InMalloc
<1>5. m.blk \in DOMAIN hdr \cup {NULL} /\ m.page \in 0 .. Len(pages)
  BY DEF CallLocals
<1>6. \A b \in DOMAIN hdr : hdr[b].next \in DOMAIN hdr \cup {NULL}
  BY DEF MemoryRight
<1> QED
  BY <1>1, <1>2, <1>3, <1>4, <1>5, <1>6 DEF HeapTypeOK

\* A step of main on its locals alone.
LEMMA MemoryKept ==
  ASSUME MemoryRight, UNCHANGED heap, UNCHANGED grown, Pending' = Pending, Limbo' = Limbo
  PROVE  MemoryRight' /\ OnList' = OnList /\ InUse' = InUse
<1>1. pages' = pages /\ hdr' = hdr /\ free_list' = free_list /\ live' = live
  BY DEF heap
<1>2. OnList' = OnList /\ InUse' = InUse
  BY <1>1 DEF OnList, InUse
<1>3. LiveRight'
  BY <1>1, <1>2 DEF MemoryRight, LiveRight
<1>4. Space(pages, hdr, Pending)'
  BY <1>1 DEF MemoryRight
<1>5. FreeIs(hdr, free_list, OnList)'
  BY <1>1, <1>2 DEF MemoryRight
<1> QED
  BY <1>1, <1>2, <1>3, <1>4, <1>5 DEF MemoryRight

\* A block more is in use.
LEMMA InUseGrows ==
  ASSUME NEW b, NEW size, NEW by, live' = live \cup {Owned(b, size, by)}
  PROVE  InUse' = InUse \cup {b}
<1> DEFINE x == Owned(b, size, by)
<1>1. x.at = b
  BY DEF Owned
<1> HIDE DEF x
<1>2. ASSUME NEW a \in InUse' PROVE a \in InUse \cup {b}
  <2>1. PICK y \in live' : a = y.at
    BY DEF InUse
  <2> QED
    BY <1>1, <2>1 DEF InUse, x
<1>3. ASSUME NEW a \in InUse \cup {b} PROVE a \in InUse'
  <2>1. CASE a \in InUse
    <3>1. PICK y \in live : a = y.at
      BY <2>1 DEF InUse
    <3> QED
      BY <3>1 DEF InUse
  <2>2. CASE a = b
    BY <1>1, <2>2 DEF InUse, x
  <2> QED
    BY <2>1, <2>2
<1> QED
  BY <1>2, <1>3

\* A block of the list is handed out: what linked to it links behind it.
LEMMA BlockTaken ==
  ASSUME MemoryRight, NEW b \in OnList, NEW size \in Nat \ {0}, NEW by \in {"main", "key"},
         size <= hdr[b].actual,
         hdr' \in [DOMAIN hdr -> Headers],
         \A a \in DOMAIN hdr : hdr'[a].actual = hdr[a].actual,
         \A a \in DOMAIN hdr :
           hdr'[a].next = IF a \in OnList \ {b} /\ hdr[a].next = b THEN hdr[b].next ELSE hdr[a].next,
         free_list' = IF free_list = b THEN hdr[b].next ELSE free_list,
         live' = live \cup {Owned(b, size, by)}, pages' = pages, grown' = grown,
         Pending' = Pending, Limbo' = Limbo
  PROVE  MemoryRight' /\ OnList' = OnList \ {b} /\ InUse' = InUse \cup {b} /\ DOMAIN hdr' = DOMAIN hdr
<1>1. DOMAIN hdr' = DOMAIN hdr
  OBVIOUS
<1>2. InUse' = InUse \cup {b}
  BY InUseGrows
<1>3. OnList' = OnList \ {b}
  BY <1>1, <1>2 DEF OnList
<1>4. FreeIs(hdr, free_list, OnList)'
  <2>1. FreeIs(hdr, free_list, OnList) /\ NULL \notin DOMAIN hdr /\ OnList \subseteq DOMAIN hdr
    BY MemoryFacts DEF MemoryRight
  <2>2. \A a \in OnList \ {b} : hdr'[a].next = IF hdr[a].next = b THEN hdr[b].next ELSE hdr[a].next
    BY <2>1
  <2>3. FreeIs(hdr', free_list', OnList \ {b})
    BY <1>1, <2>1, <2>2, ListUnlinked
  <2> QED
    BY <1>3, <2>3
<1>5. Space(pages, hdr, Pending)'
  BY SpaceKept DEF MemoryRight
<1>6. \A a \in DOMAIN hdr' : hdr'[a].next \in DOMAIN hdr' \cup {NULL}
  BY <1>1, MemoryFacts
<1>7. LiveRight'
  <2>1. b \notin InUse /\ b \notin Limbo /\ b \in DOMAIN hdr
    BY DEF OnList
  <2>2. \A x \in live : x.at # b
    BY <2>1 DEF InUse
  <2>3. live' \subseteq [at : DOMAIN hdr', size : Nat \ {0}, by : {"main", "key"}]
    BY <1>1, <2>1 DEF MemoryRight, LiveRight, Owned
  <2>4. \A x, y \in live' : x.at = y.at => x = y
    BY <2>2 DEF MemoryRight, LiveRight, Owned
  <2>5. \A x \in live' : x.size <= hdr'[x.at].actual \/ x.at \in grown'
    BY <2>1 DEF MemoryRight, LiveRight, Owned
  <2>6. grown' \subseteq InUse' /\ Limbo' \cap InUse' = {}
    BY <1>2, <2>1 DEF MemoryRight, LiveRight
  <2> QED
    BY <2>3, <2>4, <2>5, <2>6 DEF LiveRight
<1>8. IsFiniteSet(DOMAIN hdr')
  BY <1>1 DEF MemoryRight
<1> QED
  BY <1>1, <1>2, <1>3, <1>4, <1>5, <1>6, <1>7, <1>8 DEF MemoryRight

\* A new block is handed out in one step.
LEMMA BlockAdded ==
  ASSUME MemoryRight, Limbo \subseteq DOMAIN hdr, NEW b \in Nat, b \notin DOMAIN hdr, NEW size \in Nat \ {0}, NEW by \in {"main", "key"},
         hdr' = WithHeader(b, Header(size, NULL)), Space(pages', hdr', Pending'),
         live' = live \cup {Owned(b, size, by)}, free_list' = free_list, grown' = grown,
         Pending' = Pending, Limbo' = Limbo
  PROVE  /\ MemoryRight' /\ OnList' = OnList /\ InUse' = InUse \cup {b}
         /\ DOMAIN hdr' = DOMAIN hdr \cup {b} /\ \A a \in DOMAIN hdr : hdr'[a] = hdr[a]
<1>1. /\ DOMAIN hdr' = DOMAIN hdr \cup {b} /\ hdr'[b] = Header(size, NULL)
      /\ \A a \in DOMAIN hdr : hdr'[a] = hdr[a]
  BY DEF WithHeader
<1>2. InUse' = InUse \cup {b}
  BY InUseGrows
<1>4. OnList' = OnList
  BY <1>1, <1>2 DEF OnList
<1>5. FreeIs(hdr, free_list, OnList)'
  <2>1. FreeIs(hdr, free_list, OnList) /\ OnList \subseteq DOMAIN hdr
    BY MemoryFacts DEF MemoryRight
  <2>2. \A a \in OnList : a \in DOMAIN hdr' /\ hdr'[a].next = hdr[a].next
    BY <1>1, <2>1
  <2> QED
    BY <1>4, <2>1, <2>2, ListKept
<1>6. \A a \in DOMAIN hdr' : hdr'[a].next \in DOMAIN hdr' \cup {NULL}
  BY <1>1 DEF MemoryRight, Header
<1>7. LiveRight'
  <2>1. \A x \in live : x.at # b /\ x.at \in DOMAIN hdr
    BY DEF MemoryRight, LiveRight
  <2>2. live' \subseteq [at : DOMAIN hdr', size : Nat \ {0}, by : {"main", "key"}]
    <3>1. live \subseteq [at : DOMAIN hdr, size : Nat \ {0}, by : {"main", "key"}]
      BY DEF MemoryRight, LiveRight
    <3>2. Owned(b, size, by) \in [at : DOMAIN hdr', size : Nat \ {0}, by : {"main", "key"}]
      BY <1>1 DEF Owned
    <3>3. live \subseteq [at : DOMAIN hdr', size : Nat \ {0}, by : {"main", "key"}]
      BY <1>1, <3>1
    <3> QED
      BY <3>2, <3>3
  <2>3. \A x, y \in live' : x.at = y.at => x = y
    BY <2>1 DEF MemoryRight, LiveRight, Owned
  <2>4. \A x \in live' : x.size <= hdr'[x.at].actual \/ x.at \in grown'
    <3>1. \A x \in live : x.size <= hdr'[x.at].actual \/ x.at \in grown'
      BY <1>1, <2>1 DEF MemoryRight, LiveRight
    <3>2. size <= hdr'[b].actual
      BY <1>1, RoundedUp DEF Header
    <3> QED
      BY <3>1, <3>2 DEF Owned
  <2>5. grown' \subseteq InUse' /\ Limbo' \cap InUse' = {}
    BY <1>2 DEF MemoryRight, LiveRight
  <2> QED
    BY <2>2, <2>3, <2>4, <2>5 DEF LiveRight
<1>8. IsFiniteSet(DOMAIN hdr')
  BY <1>1, FS_AddElement DEF MemoryRight
<1> QED
  BY <1>1, <1>2, <1>4, <1>5, <1>6, <1>7, <1>8 DEF MemoryRight

\* A block in one step: written behind what a page counts, and counted.
LEMMA SpaceTaken ==
  ASSUME NEW pgs, NEW h, NEW pend, Space(pgs, h, pend),
         NEW p \in 1 .. Len(pgs), NEW x \in Headers,
         NEW b \in Nat, b = Edge(pgs, p), b \notin pend,
         NEW e \in Nat, e = b + BlkHeader + x.actual, e <= Bound(pgs, p),
         NEW g, Written(g, h, b, x), NEW q, Advanced(q, pgs, p, BlkHeader + x.actual)
  PROVE  b \notin DOMAIN h /\ Space(q, g, pend)
<1>1. b \notin DOMAIN h /\ Space(pgs, g, pend \cup {b})
  BY SpaceCarved, Zenon
<1>2. b \in pend \cup {b} /\ (pend \cup {b}) \ {b} = pend
  OBVIOUS
<1>3. g[b] = x
  BY DEF Written
<1>4. e = Behind(g, b)
  BY <1>3, Zenon DEF Behind
<1>5. Advanced(q, pgs, p, BlkHeader + g[b].actual)
  BY <1>3, Zenon
<1>6. Space(q, g, (pend \cup {b}) \ {b})
  BY <1>1, <1>2, <1>4, <1>5, SpaceCounted, Zenon
<1> QED
  BY <1>1, <1>2, <1>6

\* add_page: a page of at least so many bytes, with nothing in it.
LEMMA PageAdded ==
  ASSUME MemoryRight, NEW size \in Nat, size >= PageHeader
  PROVE  LET with == WithPage(size)
             n == Len(pages) + 1
         IN  /\ Space(with, hdr, Pending)
             /\ Len(with) = n /\ n \in Nat /\ n # 0
             /\ \A p \in 1 .. Len(pages) : with[p] = pages[p]
             /\ with[n] \in PageRecords /\ with[n].used = PageHeader /\ with[n].size >= size
             /\ with[n].base >= STARTING_PAGE
<1> DEFINE n == Len(pages)
           x == [base |-> IF n = 0 THEN STARTING_PAGE ELSE pages[n].base + pages[n].size,
                 size |-> align(size, PAGE_SIZE), used |-> PageHeader]
<1>1. Space(pages, hdr, Pending) /\ pages \in Seq(PageRecords) /\ n \in Nat
  BY DEF MemoryRight, Space, PagesRight
<1>2. /\ align(size, PAGE_SIZE) \in Nat /\ align(size, PAGE_SIZE) >= size
      /\ align(size, PAGE_SIZE) % PAGE_SIZE = 0
  BY AlignUp, HeapAssumption
<1>3. ASSUME n # 0
      PROVE  pages[n].base + pages[n].size \in Nat /\ pages[n].base + pages[n].size >= STARTING_PAGE
  <2>1. n \in 1 .. Len(pages)
    BY <1>1, <1>3
  <2>2. pages[n].base >= STARTING_PAGE /\ pages[n].base \in Nat /\ pages[n].size \in Nat
    BY <2>1, RoomFacts DEF MemoryRight, Space, PagesRight
  <2> QED
    BY <2>2 DEF STARTING_PAGE
<1>4. x.base \in Nat /\ x.base >= STARTING_PAGE
  BY <1>3 DEF STARTING_PAGE
<1>5. x \in PageRecords /\ x.used = PageHeader /\ x.size = align(size, PAGE_SIZE)
  BY <1>2, <1>4 DEF PageRecords, PageHeader
<1>6. x.base = IF n = 0 THEN STARTING_PAGE ELSE pages[n].base + pages[n].size
  OBVIOUS
<1>7. WithPage(size) = Append(pages, x)
  BY DEF WithPage
<1> HIDE DEF x
<1>8. x.size >= size /\ x.size >= PageHeader /\ x.size % PAGE_SIZE = 0
  BY <1>2, <1>5 DEF PageHeader
<1>9. Space(Append(pages, x), hdr, Pending)
  BY <1>1, <1>5, <1>6, <1>8, SpaceAdded
<1>10. /\ Len(Append(pages, x)) = n + 1 /\ Append(pages, x)[n + 1] = x
       /\ \A p \in 1 .. n : Append(pages, x)[p] = pages[p]
  BY <1>1
<1> QED
  BY <1>1, <1>4, <1>5, <1>7, <1>8, <1>9, <1>10

-----------------------------------------------------------------------------
(* Searches                                                                *)

\* The page malloc finds has room.
LEMMA PageForFits ==
  ASSUME MemoryRight, NEW size
  PROVE  /\ PageFor(size) \in 0 .. Len(pages) /\ Len(pages) \in Nat
         /\ PageFor(size) # 0 => PageFor(size) \in 1 .. Len(pages) /\ Fits(PageFor(size), size)
<1>1. Len(pages) \in Nat /\ DOMAIN pages = 1 .. Len(pages)
  BY DEF MemoryRight, Space, PagesRight
<1>2. CASE \E p \in DOMAIN pages : Fits(p, size)
  <2> DEFINE S == {p \in DOMAIN pages : Fits(p, size)}
  <2>1. S \in SUBSET Nat /\ S # {}
    BY <1>1, <1>2
  <2> HIDE DEF S
  <2>2. PICK p \in S : \A q \in S : p <= q
    BY <2>1, Smallest
  <2>3. p \in DOMAIN pages /\ Fits(p, size) /\ \A q \in 1 .. p - 1 : ~Fits(q, size)
    <3>1. p \in DOMAIN pages /\ Fits(p, size)
      BY DEF S
    <3>2. ASSUME NEW q \in 1 .. p - 1, Fits(q, size) PROVE FALSE
      <4>1. q \in DOMAIN pages /\ ~(p <= q)
        BY <1>1, <3>1
      <4> QED
        BY <2>2, <3>2, <4>1 DEF S
    <3> QED
      BY <3>1, <3>2
  <2> DEFINE Right(r) == Fits(r, size) /\ \A q \in 1 .. r - 1 : ~Fits(q, size)
             c == CHOOSE r \in DOMAIN pages : Right(r)
  <2>4. PageFor(size) = c
    BY <1>2 DEF PageFor
  <2>5. c \in DOMAIN pages /\ Right(c)
    <3>1. \E r \in DOMAIN pages : Right(r)
      BY <2>3
    <3> HIDE DEF Right
    <3> QED
      BY <3>1
  <2> QED
    BY <1>1, <2>4, <2>5
<1>3. CASE ~\E p \in DOMAIN pages : Fits(p, size)
  BY <1>1, <1>3 DEF PageFor
<1> QED
  BY <1>2, <1>3

\* The block find_free_blk finds is on the list, with its place, and large
\* enough; the one before it links to it, or it is the first.
LEMMA TakenFits ==
  ASSUME MemoryRight, NEW size \in Nat, Taken(size) # 0
  PROVE  LET i == Taken(size)
             b == FreeList[i]
             before == FreeList[i - 1]
         IN  /\ b \in OnList /\ hdr[b].actual >= Aligned(size)
             /\ i = 1 => b = free_list
             /\ i # 1 => before \in OnList /\ hdr[before].next = b /\ b # free_list
<1> DEFINE i == Taken(size)
<1>0. PICK len \in Nat : \E list \in [1 .. len -> DOMAIN hdr] :
                            Chained(hdr, free_list, list, len) /\ OnList = {list[k] : k \in 1 .. len}
  BY DEF MemoryRight, FreeIs
<1>1. PICK list \in [1 .. len -> DOMAIN hdr] :
        Chained(hdr, free_list, list, len) /\ OnList = {list[k] : k \in 1 .. len}
  BY <1>0
<1>2. FreeList = list
  BY <1>1, WalkFinds, MemoryFacts DEF MemoryRight
<1>3. list \in Seq(DOMAIN hdr) /\ Len(list) = len
  OBVIOUS
<1> DEFINE actual(k) == hdr[FreeList[k]].actual
           fit == {k \in 2 .. Len(FreeList) : actual(k) >= Aligned(size)}
<1>4. i \in 1 .. len /\ hdr[list[i]].actual >= Aligned(size)
  <2>0. i = IF FreeList # << >> /\ actual(1) > Aligned(size) THEN 1
            ELSE IF fit # {} THEN CHOOSE k \in fit : \A j \in fit : k <= j
            ELSE 0
    BY DEF Taken
  <2>1. CASE FreeList # << >> /\ actual(1) > Aligned(size)
    <3>1. i = 1 /\ len # 0
      BY <1>2, <1>3, <2>0, <2>1
    <3>2. 1 \in 1 .. len
      BY <3>1
    <3>3. list[1] \in DOMAIN hdr
      BY <3>2
    <3>4. hdr[list[1]].actual \in Nat /\ Aligned(size) \in Nat
      BY <3>3, MemoryFacts, RoundedUp
    <3> QED
      BY <1>2, <2>1, <3>1, <3>2, <3>4
  <2>2. CASE ~(FreeList # << >> /\ actual(1) > Aligned(size)) /\ fit # {}
    <3>1. fit \in SUBSET Nat
      OBVIOUS
    <3>2. i = CHOOSE k \in fit : \A j \in fit : k <= j
      BY <2>0, <2>2
    <3>3. fit \subseteq 1 .. len /\ \A k \in fit : hdr[list[k]].actual >= Aligned(size)
      BY <1>2, <1>3
    <3> HIDE DEF fit, i
    <3>4. \E k \in fit : \A j \in fit : k <= j
      BY <2>2, <3>1, Smallest
    <3>5. i \in fit
      BY <3>2, <3>4
    <3> QED
      BY <3>3, <3>5
  <2>3. CASE ~(FreeList # << >> /\ actual(1) > Aligned(size)) /\ ~(fit # {})
    <3> HIDE DEF fit, actual
    <3> QED
      BY <2>0, <2>3
  <2> QED
    BY <2>1, <2>2, <2>3
<1> HIDE DEF i
<1>5. list[i] \in OnList
  BY <1>1, <1>4
<1>6. /\ \A j, k \in 1 .. len : list[j] = list[k] => j = k
      /\ free_list = At(list, len, 1)
      /\ \A k \in 1 .. len : hdr[list[k]].next = At(list, len, k + 1)
  BY <1>1 DEF Chained
<1>7. 1 \in 1 .. len /\ free_list = list[1]
  BY <1>4, <1>6 DEF At
<1>8. ASSUME i # 1
      PROVE  list[i - 1] \in OnList /\ hdr[list[i - 1]].next = list[i] /\ list[i] # free_list
  <2>1. i - 1 \in 1 .. len /\ (i - 1) + 1 = i
    BY <1>4, <1>8
  <2>2. hdr[list[i - 1]].next = list[i]
    BY <1>4, <1>6, <2>1 DEF At
  <2> QED
    BY <1>1, <1>4, <1>6, <1>7, <1>8, <2>1, <2>2
<1> QED
  BY <1>2, <1>4, <1>5, <1>7, <1>8 DEF i

-----------------------------------------------------------------------------
(* The key's malloc                                                        *)

\* Stores into a header.
WithSize(h, b, size) == [h EXCEPT ![b].size = size]
WithNext(h, b, next) == [h EXCEPT ![b].next = next]

\* They leave everything else.
LEMMA Sized ==
  ASSUME NEW h, h \in [DOMAIN h -> Headers], NEW b \in DOMAIN h, NEW size \in Nat,
         NEW g, g = WithSize(h, b, size)
  PROVE  /\ g \in [DOMAIN h -> Headers]
         /\ \A a \in DOMAIN h : g[a].actual = h[a].actual /\ g[a].next = h[a].next
<1> DEFINE x == [h[b] EXCEPT !.size = size]
<1>1. h[b] \in Headers
  OBVIOUS
<1>2. x \in Headers /\ x.actual = h[b].actual /\ x.next = h[b].next
  BY <1>1 DEF Headers
<1>3. g = [h EXCEPT ![b] = x]
  BY DEF WithSize
<1> HIDE DEF x
<1> QED
  BY <1>2, <1>3

\* A new link to the next block leaves the sizes alone.
LEMMA Linked ==
  ASSUME NEW h, h \in [DOMAIN h -> Headers], NEW b \in DOMAIN h, NEW next \in Nat,
         NEW g, g = WithNext(h, b, next)
  PROVE  /\ g \in [DOMAIN h -> Headers]
         /\ \A a \in DOMAIN h : /\ g[a].actual = h[a].actual
                                /\ g[a].next = IF a = b THEN next ELSE h[a].next
<1> DEFINE x == [h[b] EXCEPT !.next = next]
<1>1. h[b] \in Headers
  OBVIOUS
<1>2. x \in Headers /\ x.actual = h[b].actual /\ x.next = next
  BY <1>1 DEF Headers
<1>3. g = [h EXCEPT ![b] = x]
  BY DEF WithNext
<1> HIDE DEF x
<1> QED
  BY <1>2, <1>3

\* A key that takes a block of the list leaves main right when main does not
\* hold that block.
LEMMA KeyTakes ==
  ASSUME MemoryRight, MainRight, Taken(KeySize) # 0,
         TakenFromList(Taken(KeySize), KeySize, "key"), UNCHANGED <<grown, pc, m>>
  PROVE  /\ MemoryRight' /\ CallLocals'
         /\ FreeList[Taken(KeySize)] \notin Held => MainRight'
<1> DEFINE i == Taken(KeySize)
           b == FreeList[i]
           before == FreeList[i - 1]
<1>1. KeySize \in Nat \ {0} /\ KeySize <= Aligned(KeySize) /\ Aligned(KeySize) \in Nat
  BY RoundedUp DEF KeySize
<1>2. /\ b \in OnList /\ hdr[b].actual >= Aligned(KeySize)
      /\ i = 1 => b = free_list
      /\ i # 1 => before \in OnList /\ hdr[before].next = b /\ b # free_list
  BY <1>1, TakenFits
<1>3. /\ IF i = 1 THEN free_list' = hdr[b].next /\ hdr' = [hdr EXCEPT ![b].size = KeySize]
         ELSE /\ hdr' = [[hdr EXCEPT ![b].size = KeySize] EXCEPT ![before].next = hdr[b].next]
              /\ free_list' = free_list
      /\ live' = live \cup {Owned(b, KeySize, "key")} /\ pages' = pages
  BY DEF TakenFromList
<1>4. /\ grown' = grown /\ pc' = pc /\ m' = m /\ Pending' = Pending /\ Limbo' = Limbo
  BY DEF Pending, Limbo
<1> HIDE DEF i, b, before
<1> USE MemoryFacts
<1>5. b \in DOMAIN hdr /\ hdr \in [DOMAIN hdr -> Headers]
  BY <1>2
<1> DEFINE sized == WithSize(hdr, b, KeySize)
<1>6. /\ sized \in [DOMAIN hdr -> Headers]
      /\ \A a \in DOMAIN hdr : sized[a].actual = hdr[a].actual /\ sized[a].next = hdr[a].next
  BY <1>1, <1>5, Sized
<1> HIDE DEF sized
<1>7. /\ hdr' \in [DOMAIN hdr -> Headers]
      /\ \A a \in DOMAIN hdr :
           /\ hdr'[a].actual = hdr[a].actual
           /\ hdr'[a].next = IF a \in OnList \ {b} /\ hdr[a].next = b THEN hdr[b].next ELSE hdr[a].next
      /\ free_list' = IF free_list = b THEN hdr[b].next ELSE free_list
  <2>1. CASE i = 1
    <3>1. hdr' = sized /\ free_list' = hdr[b].next /\ free_list = b
      BY <1>2, <1>3, <2>1 DEF sized, WithSize
    <3>2. \A a \in OnList : hdr[a].next # b
      BY <1>2, <3>1
    <3> QED
      BY <1>6, <3>1, <3>2
  <2>2. CASE i # 1
    <3>1. hdr' = WithNext(sized, before, hdr[b].next) /\ free_list' = free_list /\ free_list # b
      BY <1>2, <1>3, <2>2 DEF sized, WithSize, WithNext
    <3>2. before \in OnList /\ hdr[before].next = b /\ before \in DOMAIN hdr /\ before # b
      BY <1>2, <2>2
    <3>3. hdr[b].next \in Nat
      BY <1>5 DEF Headers
    <3>4. /\ hdr' \in [DOMAIN hdr -> Headers]
          /\ \A a \in DOMAIN hdr : /\ hdr'[a].actual = sized[a].actual
                                   /\ hdr'[a].next = IF a = before THEN hdr[b].next ELSE sized[a].next
      <4>1. DOMAIN sized = DOMAIN hdr
        BY <1>6
      <4>2. sized \in [DOMAIN sized -> Headers] /\ before \in DOMAIN sized
        BY <1>6, <3>2, <4>1
      <4>3. /\ hdr' \in [DOMAIN sized -> Headers]
            /\ \A a \in DOMAIN sized : /\ hdr'[a].actual = sized[a].actual
                                       /\ hdr'[a].next = IF a = before THEN hdr[b].next ELSE sized[a].next
        BY <3>1, <3>3, <4>2, Linked
      <4> QED
        BY <4>1, <4>3, Zenon
    <3>5. \A a \in OnList \ {b} : hdr[a].next = b <=> a = before
      BY <1>2, <1>5, <3>2
    <3> QED
      BY <1>6, <3>1, <3>2, <3>4, <3>5
  <2> QED
    BY <2>1, <2>2
<1>8. KeySize <= hdr[b].actual
  BY <1>1, <1>2, <1>5
<1>9. MemoryRight' /\ OnList' = OnList \ {b} /\ InUse' = InUse \cup {b} /\ DOMAIN hdr' = DOMAIN hdr
  BY <1>1, <1>2, <1>3, <1>4, <1>7, <1>8, BlockTaken
<1>10. CallLocals'
  BY <1>3, <1>4, <1>9 DEF MainRight, CallLocals
<1>11. ASSUME b \notin Held PROVE ListLocals'
  <2>1. ListLocals
    BY DEF MainRight
  <2>2. ASSUME pc \in {"pop", "popped"}
        PROVE  m.blk = free_list' /\ m.blk # NULL /\ hdr'[m.blk].actual >= Aligned(m.size)
    <3>1. m.blk = free_list /\ m.blk # NULL /\ hdr[m.blk].actual >= Aligned(m.size)
      BY <2>1, <2>2 DEF ListLocals
    <3>2. m.blk # b
      BY <1>11, <2>2 DEF Held
    <3> QED
      BY <1>7, <3>1, <3>2
  <2>3. ASSUME pc = "popped" PROVE m.loaded = hdr'[m.blk].next
    <3>1. m.blk = free_list /\ m.blk # NULL /\ m.loaded = hdr[m.blk].next
      BY <2>1, <2>3 DEF ListLocals
    <3>2. m.loaded # b
      BY <1>11, <2>3 DEF Held
    <3>3. m.blk \in DOMAIN hdr
      BY <3>1
    <3> QED
      BY <1>7, <3>1, <3>2, <3>3
  <2>4. ASSUME pc \in {"walk", "found", "unlink"} PROVE m.blk \in OnList \ {b} /\ m.blk \in DOMAIN hdr
    <3>1. m.blk \in OnList
      BY <2>1, <2>4 DEF ListLocals
    <3>2. m.blk # b
      BY <1>11, <2>4 DEF Held
    <3> QED
      BY <3>1, <3>2
  <2>5. ASSUME pc = "found"
        PROVE  hdr'[m.blk].next # NULL /\ hdr'[hdr'[m.blk].next].actual >= Aligned(m.size)
    <3>1. hdr[m.blk].next # NULL /\ hdr[hdr[m.blk].next].actual >= Aligned(m.size)
      BY <2>1, <2>5 DEF ListLocals
    <3>2. hdr[m.blk].next # b
      BY <1>11, <2>5 DEF Held
    <3>3. hdr'[m.blk].next = hdr[m.blk].next /\ hdr[m.blk].next \in DOMAIN hdr
      BY <1>7, <2>4, <2>5, <3>1, <3>2
    <3> QED
      BY <1>7, <3>1, <3>3
  <2>6. ASSUME pc = "unlink"
        PROVE  /\ m.tmp = hdr'[m.blk].next /\ m.tmp # NULL /\ m.loaded = hdr'[m.tmp].next
               /\ hdr'[m.tmp].actual >= Aligned(m.size)
    <3>1. /\ m.tmp = hdr[m.blk].next /\ m.tmp # NULL /\ m.loaded = hdr[m.tmp].next
          /\ hdr[m.tmp].actual >= Aligned(m.size)
      BY <2>1, <2>6 DEF ListLocals
    <3>2. m.tmp # b /\ m.loaded # b
      BY <1>11, <2>6 DEF Held
    <3>3. m.tmp \in DOMAIN hdr
      BY <2>4, <2>6, <3>1
    <3> QED
      BY <1>7, <2>4, <2>6, <3>1, <3>2, <3>3
  <2>7. ASSUME pc = "publish"
        PROVE  m.old \in DOMAIN hdr' /\ m.loaded = free_list' /\ hdr'[m.old].next = free_list'
    <3>1. m.old \in DOMAIN hdr /\ m.loaded = free_list /\ hdr[m.old].next = free_list
      BY <2>1, <2>7 DEF ListLocals
    <3>2. m.loaded # b
      BY <1>11, <2>7 DEF Held
    <3>3. m.old \notin OnList
      BY <2>7 DEF OnList, Limbo
    <3> QED
      BY <1>7, <3>1, <3>2, <3>3
  <2> QED
    BY <1>4, <1>9, <2>2, <2>3, <2>4, <2>5, <2>6, <2>7 DEF ListLocals
<1>12. PageLocals'
  <2>1. PageLocals
    BY DEF MainRight
  <2> QED
    BY <1>3, <1>4, <1>7, <1>9, <2>1 DEF PageLocals, Fits, Room, Edge
<1> QED
  BY <1>9, <1>10, <1>11, <1>12 DEF MainRight, b, i

\* The block that is neither on the list nor in use is a block.
LEMMA LimboIsBlock ==
  ASSUME MemoryRight, MainRight
  PROVE  Limbo \subseteq DOMAIN hdr
<1>1. Pending \subseteq DOMAIN hdr
  BY DEF MemoryRight, Space, BlocksPlaced
<1>2. pc = "publish" => m.old \in DOMAIN hdr
  BY DEF MainRight, ListLocals
<1> QED
  BY <1>1, <1>2 DEF Limbo

\* A header is written.
LEMMA HeaderWritten ==
  ASSUME MemoryRight, NEW b \in Nat, NEW size \in Nat, hdr' = WithHeader(b, Header(size, NULL))
  PROVE  /\ Header(size, NULL) \in Headers /\ Header(size, NULL).actual = Aligned(size)
         /\ Written(hdr', hdr, b, Header(size, NULL))
         /\ DOMAIN hdr' = DOMAIN hdr \cup {b} /\ hdr'[b] = Header(size, NULL)
         /\ \A a \in DOMAIN hdr' : hdr'[a].next \in DOMAIN hdr' \cup {NULL}
<1> DEFINE x == Header(size, NULL)
<1>1. x \in Headers /\ x.actual = Aligned(size) /\ x.next = NULL
  BY RoundedUp DEF Header, Headers, NULL
<1> HIDE DEF x
<1>2. hdr' = [a \in DOMAIN hdr \cup {b} |-> IF a = b THEN x ELSE hdr[a]]
  BY DEF WithHeader, x
<1>3. hdr \in [DOMAIN hdr -> Headers] /\ \A a \in DOMAIN hdr : hdr[a].next \in DOMAIN hdr \cup {NULL}
  BY MemoryFacts
<1>4. /\ DOMAIN hdr' = DOMAIN hdr \cup {b} /\ hdr'[b] = x
      /\ \A a \in DOMAIN hdr : a # b => hdr'[a] = hdr[a]
  BY <1>2
<1>5. Written(hdr', hdr, b, x)
  BY <1>1, <1>2, <1>3 DEF Written
<1>6. \A a \in DOMAIN hdr' : hdr'[a].next \in DOMAIN hdr' \cup {NULL}
  BY <1>1, <1>3, <1>4
<1> QED
  BY <1>1, <1>4, <1>5, <1>6 DEF x

\* A new block that main knows nothing of leaves main right, when the room
\* main counts on is left.
LEMMA MainKept ==
  ASSUME MemoryRight, MainRight, DOMAIN hdr \subseteq DOMAIN hdr',
         \A a \in DOMAIN hdr : hdr'[a] = hdr[a],
         free_list' = free_list, OnList' = OnList, InUse \subseteq InUse', pc' = pc, m' = m,
         Len(pages') \in Nat, Len(pages) <= Len(pages'), PageLocals'
  PROVE  MainRight'
<1>1. Len(pages) \in Nat
  BY DEF MemoryRight, Space, PagesRight
<1>2. CallLocals'
  BY <1>1 DEF MainRight, CallLocals
<1>3. ListLocals'
  <2>1. ListLocals
    BY DEF MainRight
  <2>2. ASSUME pc \in {"pop", "popped"} PROVE m.blk \in DOMAIN hdr
    <3>1. m.blk = free_list /\ m.blk # NULL
      BY <2>1, <2>2 DEF ListLocals
    <3> QED
      BY <3>1, MemoryFacts
  <2>3. ASSUME pc \in {"walk", "found", "unlink"} PROVE m.blk \in OnList /\ m.blk \in DOMAIN hdr
    <3>1. m.blk \in OnList
      BY <2>1, <2>3 DEF ListLocals
    <3> QED
      BY <3>1 DEF OnList
  <2>4. ASSUME pc \in {"found", "unlink"}, hdr[m.blk].next # NULL
        PROVE  hdr[m.blk].next \in DOMAIN hdr
    BY <2>3, <2>4, MemoryFacts
  <2>5. pc = "publish" => m.old \in DOMAIN hdr
    BY <2>1 DEF ListLocals
  <2>6. pc \in {"pop", "popped"} =>
          m.blk = free_list' /\ m.blk # NULL /\ hdr'[m.blk].actual >= Aligned(m.size)
    BY <2>1, <2>2 DEF ListLocals
  <2>7. pc = "popped" => m.loaded = hdr'[m.blk].next
    BY <2>1, <2>2 DEF ListLocals
  <2>8. pc = "found" => hdr'[m.blk].next # NULL /\ hdr'[hdr'[m.blk].next].actual >= Aligned(m.size)
    BY <2>1, <2>3, <2>4 DEF ListLocals
  <2>9. pc = "unlink" =>
          /\ m.tmp = hdr'[m.blk].next /\ m.tmp # NULL /\ m.loaded = hdr'[m.tmp].next
          /\ hdr'[m.tmp].actual >= Aligned(m.size)
    BY <2>1, <2>3, <2>4 DEF ListLocals
  <2>10. pc = "publish" =>
           m.old \in DOMAIN hdr' /\ m.loaded = free_list' /\ hdr'[m.old].next = free_list'
    BY <2>1, <2>5 DEF ListLocals
  <2> QED
    BY <2>3, <2>6, <2>7, <2>8, <2>9, <2>10 DEF ListLocals
<1> QED
  BY <1>2, <1>3 DEF MainRight

\* A key that carves its block out of a page leaves all right when main does
\* not count on that room.
LEMMA KeyCarves ==
  ASSUME MemoryRight, MainRight, NEW p, p = PageFor(KeySize), p # 0,
         Carved(pages[p].base + pages[p].used, p, KeySize, "key"), UNCHANGED <<grown, pc, m>>
  PROVE  HeapTypeOK' /\ (~RoomHeld(p) => MemoryRight' /\ MainRight')
<1> DEFINE A == Aligned(KeySize)
           b == pages[p].base + pages[p].used
           x == Header(KeySize, NULL)
           k == pages[p].used + BlkHeader + A
<1>1. KeySize \in Nat \ {0} /\ KeySize <= A /\ A \in Nat
  BY RoundedUp DEF KeySize
<1>2. p \in 1 .. Len(pages) /\ Fits(p, KeySize)
  BY PageForFits
<1>3. /\ pages \in Seq(PageRecords) /\ Len(pages) \in Nat /\ DOMAIN pages = 1 .. Len(pages)
      /\ pages[p].base \in Nat /\ pages[p].size \in Nat /\ pages[p].used \in Nat
      /\ PageHeader <= pages[p].used /\ pages[p].used <= pages[p].size
      /\ b \in Nat /\ b = Edge(pages, p)
  BY <1>2, RoomFacts
<1>4. Room(p) = pages[p].size - pages[p].used /\ Room(p) >= A + BlkHeader
  BY <1>2 DEF Fits, Room
<1>5. pages' = WithUsed(pages, p, k) /\ free_list' = free_list
  BY DEF Carved, WithUsed
<1>6. hdr' = WithHeader(b, x) /\ live' = live \cup {Owned(b, KeySize, "key")}
  BY DEF Carved
<1>7. grown' = grown /\ pc' = pc /\ m' = m /\ Pending' = Pending /\ Limbo' = Limbo
  BY DEF Pending, Limbo
<1> HIDE DEF A, k, b, x
<1>8. k \in Nat /\ k = pages[p].used + (BlkHeader + A) /\ k <= pages[p].size /\ PageHeader <= k
  <2> DEFINE u == pages[p].used
             s == pages[p].size
  <2>1. u \in Nat /\ s \in Nat /\ PageHeader <= u /\ s - u >= A + BlkHeader /\ k = u + BlkHeader + A
    BY <1>3, <1>4 DEF k
  <2> HIDE DEF u, s
  <2>2. k \in Nat /\ k = u + (BlkHeader + A) /\ k <= s /\ PageHeader <= k
    BY <1>1, <2>1 DEF BlkHeader, PageHeader
  <2> QED
    BY <2>2 DEF u, s
<1>9. Advanced(pages', pages, p, BlkHeader + A)
  BY <1>2, <1>3, <1>5, <1>8, UsedSet
<1>10. /\ x \in Headers /\ x.actual = A /\ Written(hdr', hdr, b, x)
       /\ DOMAIN hdr' = DOMAIN hdr \cup {b} /\ hdr'[b] = x
       /\ \A a \in DOMAIN hdr' : hdr'[a].next \in DOMAIN hdr' \cup {NULL}
  BY <1>1, <1>3, <1>6, HeaderWritten DEF x, A
<1>11. InUse' = InUse \cup {b}
  BY <1>6, InUseGrows
<1>12. HeapTypeOK'
  <2>1. Len(pages') = Len(pages) /\ pages' \in Seq(PageRecords) /\ DOMAIN pages' = 1 .. Len(pages)
    BY <1>3, <1>9 DEF Advanced
  <2>2. ASSUME NEW q \in 1 .. Len(pages)
        PROVE  pages'[q].used \in PageHeader .. pages'[q].size /\ pages'[q].size % PAGE_SIZE = 0
    <3>1. pages[q].used \in PageHeader .. pages[q].size /\ pages[q].size % PAGE_SIZE = 0
      BY DEF MemoryRight, Space, PagesRight
    <3>2. pages'[q].size = pages[q].size /\ (q # p => pages'[q].used = pages[q].used)
      BY <1>9 DEF Advanced
    <3>3. pages'[p].used = k
      BY <1>8, <1>9, Zenon DEF Advanced
    <3>4. CASE q = p
      BY <1>3, <1>8, <3>1, <3>2, <3>3, <3>4 DEF PageHeader
    <3>5. CASE q # p
      BY <3>1, <3>2, <3>5
    <3> QED
      BY <3>4, <3>5
  <2>3. free_list' \in DOMAIN hdr' \cup {NULL}
    BY <1>5, <1>10, MemoryFacts
  <2>4. InUse \subseteq DOMAIN hdr /\ grown \subseteq InUse
    BY MemoryFacts DEF MemoryRight, LiveRight
  <2>5. InUse' \subseteq DOMAIN hdr' /\ grown' \subseteq InUse'
    BY <1>7, <1>10, <1>11, <2>4
  <2>6. InUse' = {y.at : y \in live'}
    BY DEF InUse
  <2>7. pc' \in {"idle", "first page", "list", "pop", "popped", "walk", "found", "unlink",
                 "room", "add page", "carve", "count", "counted", "free", "publish"}
    BY <1>7 DEF MainRight, CallLocals, InMalloc
  <2>8. m'.blk \in DOMAIN hdr' \cup {NULL} /\ m'.page \in 0 .. Len(pages')
    BY <1>7, <1>10, <2>1 DEF MainRight, CallLocals
  <2> QED
    BY <1>10, <2>1, <2>2, <2>3, <2>5, <2>6, <2>7, <2>8 DEF HeapTypeOK
<1>13. ASSUME ~RoomHeld(p) PROVE MemoryRight' /\ MainRight'
  <2>1. PageLocals
    BY DEF MainRight
  <2>2. b \notin Pending
    <3> SUFFICES ASSUME b \in Pending PROVE FALSE
      OBVIOUS
    <3>1. pc \in {"count", "counted"} /\ b = m.blk
      BY DEF Pending
    <3>2. m.page \in 1 .. Len(pages) /\ b = Edge(pages, m.page)
      BY <2>1, <3>1 DEF PageLocals
    <3>3. m.page # p
      BY <1>13, <3>1 DEF RoomHeld
    <3> QED
      BY <1>2, <1>3, <3>2, <3>3, EdgesDiffer DEF MemoryRight, Space
  <2>3. Space(pages, hdr, Pending)
    BY DEF MemoryRight
  <2>4. b + BlkHeader + A \in Nat /\ b + BlkHeader + A <= Bound(pages, p)
    <3>1. Edge(pages, p) + BlkHeader + Aligned(KeySize) <= Bound(pages, p)
      BY <1>1, <1>2, RoomFacts
    <3>2. b + BlkHeader + A <= Bound(pages, p)
      BY <1>3, <3>1, Zenon DEF A
    <3> QED
      BY <1>1, <1>3, <3>2 DEF BlkHeader
  <2>5. b \notin DOMAIN hdr /\ Space(pages', hdr', Pending)
    <3> DEFINE e == b + BlkHeader + A
    <3>1. e \in Nat /\ e <= Bound(pages, p) /\ e = b + BlkHeader + x.actual
      BY <1>10, <2>4
    <3>2. Advanced(pages', pages, p, BlkHeader + x.actual)
      BY <1>9, <1>10
    <3>3. b \in Nat /\ b = Edge(pages, p) /\ x \in Headers /\ Written(hdr', hdr, b, x)
      BY <1>3, <1>10
    <3> HIDE DEF e
    <3> QED
      BY <1>2, <2>2, <2>3, <3>1, <3>2, <3>3, SpaceTaken
  <2>6. /\ MemoryRight' /\ OnList' = OnList /\ InUse' = InUse \cup {b}
        /\ DOMAIN hdr' = DOMAIN hdr \cup {b} /\ \A a \in DOMAIN hdr : hdr'[a] = hdr[a]
    <3>1. Space(pages', hdr', Pending')
      BY <1>7, <2>5
    <3> QED
      BY <1>1, <1>3, <1>5, <1>6, <1>7, <2>5, <3>1, BlockAdded, LimboIsBlock DEF x
  <2>7. Len(pages') = Len(pages)
    BY <1>9 DEF Advanced
  <2>8. PageLocals'
    <3>1. \A q \in 1 .. Len(pages) : q # p => pages'[q] = pages[q]
      BY <1>9 DEF Advanced
    <3>2. ASSUME pc \in {"count", "counted"}
          PROVE  m.page # p /\ m.page \in 1 .. Len(pages) /\ pages'[m.page] = pages[m.page]
      BY <1>13, <2>1, <3>1, <3>2 DEF RoomHeld, PageLocals
    <3>3. ASSUME pc \in {"carve", "count", "counted"}
          PROVE  m.page \in 1 .. Len(pages') /\ Fits(m.page, m.size)'
      <4>1. m.page \in 1 .. Len(pages) /\ Fits(m.page, m.size) /\ m.size \in Nat
        BY <2>1, <3>3 DEF PageLocals, MainRight, CallLocals
      <4>2. CASE m.page # p
        BY <1>7, <2>7, <3>1, <4>1, <4>2 DEF Fits, Room
      <4>3. CASE m.page = p
        <5>1. Room(p) >= Aligned(m.size) + 2 * BlkHeader + A
          <6>1. pc = "carve"
            BY <3>2, <3>3, <4>3
          <6>2. ~(Room(p) < Aligned(m.size) + 2 * BlkHeader + A)
            BY <1>13, <4>3, <6>1 DEF RoomHeld, A
          <6>3. Aligned(m.size) \in Nat
            BY <4>1, RoundedUp
          <6>4. Room(p) \in Int
            BY <1>3, <1>4
          <6> QED
            BY <1>1, <6>2, <6>3, <6>4 DEF BlkHeader
        <5>2. pages'[p].size = pages[p].size /\ pages'[p].used = pages[p].used + (BlkHeader + A)
          BY <1>2, <1>9 DEF Advanced
        <5>3. pages'[p].size - pages'[p].used >= Aligned(m.size) + BlkHeader
          <6> DEFINE u == pages[p].used
                     s == pages[p].size
                     n == Aligned(m.size)
          <6>1. u \in Nat /\ s \in Nat /\ n \in Nat /\ s - u >= n + 2 * BlkHeader + A
            BY <1>3, <1>4, <4>1, <5>1, RoundedUp
          <6>2. pages'[p].size = s /\ pages'[p].used = u + (BlkHeader + A)
            BY <5>2
          <6> HIDE DEF u, s, n
          <6>3. s - (u + (BlkHeader + A)) >= n + BlkHeader
            BY <1>1, <6>1 DEF BlkHeader
          <6> QED
            BY <6>2, <6>3, Zenon DEF n
        <5> QED
          BY <1>7, <2>7, <4>1, <4>3, <5>3, Zenon DEF Fits, Room
      <4> QED
        BY <4>2, <4>3
    <3>4. ASSUME pc \in {"count", "counted"}
          PROVE  /\ m.blk \in DOMAIN hdr' /\ m.blk = Edge(pages', m.page)
                 /\ hdr'[m.blk].actual = Aligned(m.size)
      BY <2>1, <2>6, <3>2, <3>4 DEF PageLocals, Edge
    <3>5. pc = "counted" => m.loaded = pages'[m.page].used
      BY <2>1, <3>2 DEF PageLocals
    <3> QED
      BY <1>7, <3>3, <3>4, <3>5 DEF PageLocals
  <2> QED
    BY <1>3, <1>5, <1>7, <2>6, <2>7, <2>8, MainKept
<1> QED
  BY <1>12, <1>13

\* A key that adds a page leaves all right.
LEMMA KeyAdds ==
  ASSUME MemoryRight, MainRight,
         LET with == WithPage(Aligned(KeySize) + BlkHeader + PageHeader)
             b == with[Len(with)].base + PageHeader
         IN  /\ pages' = [with EXCEPT ![Len(with)].used = @ + BlkHeader + Aligned(KeySize)]
             /\ hdr' = WithHeader(b, Header(KeySize, NULL))
             /\ live' = live \cup {Owned(b, KeySize, "key")},
         free_list' = free_list, UNCHANGED <<grown, pc, m>>
  PROVE  MemoryRight' /\ MainRight'
<1> DEFINE A == Aligned(KeySize)
           size == A + BlkHeader + PageHeader
           with == WithPage(size)
           n == Len(pages) + 1
           b == with[n].base + PageHeader
           x == Header(KeySize, NULL)
           k == with[n].used + BlkHeader + A
           e == b + BlkHeader + A
<1>1. KeySize \in Nat \ {0} /\ KeySize <= A /\ A \in Nat
  BY RoundedUp DEF KeySize
<1>2. size \in Nat /\ size >= PageHeader
  BY <1>1 DEF BlkHeader, PageHeader
<1>3. /\ Space(with, hdr, Pending)
      /\ Len(with) = n /\ n \in Nat /\ n # 0
      /\ \A p \in 1 .. Len(pages) : with[p] = pages[p]
      /\ with[n] \in PageRecords /\ with[n].used = PageHeader /\ with[n].size >= size
      /\ with[n].base >= STARTING_PAGE
  BY <1>2, PageAdded
<1>4. /\ pages' = WithUsed(with, n, k) /\ hdr' = WithHeader(b, x)
      /\ live' = live \cup {Owned(b, KeySize, "key")}
  BY <1>3 DEF WithUsed
<1>5. grown' = grown /\ pc' = pc /\ m' = m /\ Pending' = Pending /\ Limbo' = Limbo
  BY DEF Pending, Limbo
<1>6. Len(pages) \in Nat /\ with \in Seq(PageRecords) /\ n \in 1 .. Len(with)
  <2> HIDE DEF with
  <2>1. Len(pages) \in Nat
    BY DEF MemoryRight, Space, PagesRight
  <2> QED
    BY <1>3, <2>1 DEF Space, PagesRight
<1> HIDE DEF with
<1>7. /\ b \in Nat /\ b = Edge(with, n)
      /\ k \in Nat /\ k = with[n].used + (BlkHeader + A)
      /\ e \in Nat /\ e <= Bound(with, n)
  <2> DEFINE base == with[n].base
             s == with[n].size
  <2>1. base \in Nat /\ s \in Nat /\ with[n].used = PageHeader
    BY <1>3 DEF PageRecords
  <2>2. s >= A + BlkHeader + PageHeader /\ Edge(with, n) = base + PageHeader /\ Bound(with, n) = base + s
    BY <1>3 DEF Edge, Bound
  <2>3. b = base + PageHeader /\ k = PageHeader + BlkHeader + A /\ e = b + BlkHeader + A
    BY <2>1
  <2> HIDE DEF base, s, A, b, k, e
  <2>4. b \in Nat /\ k \in Nat /\ k = with[n].used + (BlkHeader + A)
    <3>1. \A i \in Nat : i + PageHeader \in Nat
      BY DEF PageHeader
    <3>2. \A i \in Nat : PageHeader + BlkHeader + i \in Nat /\ PageHeader + BlkHeader + i = PageHeader + (BlkHeader + i)
      BY DEF BlkHeader, PageHeader
    <3> QED
      BY <1>1, <2>1, <2>3, <3>1, <3>2, Zenon
  <2>5. e \in Nat /\ e <= base + s
    <3>1. e = base + PageHeader + BlkHeader + A
      BY <2>3, Zenon
    <3>2. base + PageHeader + BlkHeader + A \in Nat /\ base + PageHeader + BlkHeader + A <= base + s
      BY <1>1, <2>1, <2>2 DEF BlkHeader, PageHeader
    <3> QED
      BY <3>1, <3>2, Zenon
  <2> QED
    BY <2>2, <2>3, <2>4, <2>5
<1> HIDE DEF A, size, b, x, k, e
<1>8. Advanced(pages', with, n, BlkHeader + A)
  BY <1>4, <1>6, <1>7, UsedSet
<1>9. /\ x \in Headers /\ x.actual = A /\ Written(hdr', hdr, b, x)
      /\ DOMAIN hdr' = DOMAIN hdr \cup {b}
  BY <1>1, <1>4, <1>7, HeaderWritten DEF x, A
<1>10. PageLocals
  BY DEF MainRight
<1>11. b \notin Pending
  <2> SUFFICES ASSUME b \in Pending PROVE FALSE
    OBVIOUS
  <2>1. pc \in {"count", "counted"} /\ b = m.blk
    BY DEF Pending
  <2>2. m.page \in 1 .. Len(pages) /\ b = Edge(pages, m.page)
    BY <1>10, <2>1 DEF PageLocals
  <2>3. m.page \in 1 .. Len(with) /\ m.page # n /\ Edge(with, m.page) = b
    BY <1>3, <1>6, <2>2 DEF Edge
  <2> QED
    BY <1>3, <1>6, <1>7, <2>3, EdgesDiffer DEF Space
<1>12. b \notin DOMAIN hdr /\ Space(pages', hdr', Pending)
  <2>1. Advanced(pages', with, n, BlkHeader + x.actual)
    BY <1>8, <1>9
  <2>2. e = b + BlkHeader + x.actual
    BY <1>9 DEF e
  <2>3. Space(with, hdr, Pending)
    BY <1>3
  <2> QED
    BY <1>6, <1>7, <1>9, <1>11, <2>1, <2>2, <2>3, SpaceTaken
<1>13. /\ MemoryRight' /\ OnList' = OnList /\ InUse' = InUse \cup {b}
       /\ DOMAIN hdr' = DOMAIN hdr \cup {b} /\ \A a \in DOMAIN hdr : hdr'[a] = hdr[a]
  <2>1. Space(pages', hdr', Pending')
    BY <1>5, <1>12
  <2> QED
    BY <1>1, <1>4, <1>5, <1>7, <1>12, <2>1, BlockAdded, LimboIsBlock DEF x
<1>14. /\ Len(pages') = n
       /\ \A q \in 1 .. Len(pages) : pages'[q] = pages[q] /\ q \in 1 .. Len(pages')
  BY <1>3, <1>6, <1>8 DEF Advanced
<1>15. PageLocals'
  <2>1. ASSUME pc \in {"carve", "count", "counted"}
        PROVE  /\ m.page \in 1 .. Len(pages') /\ pages'[m.page] = pages[m.page]
               /\ Fits(m.page, m.size)'
    <3>1. m.page \in 1 .. Len(pages) /\ Fits(m.page, m.size)
      BY <1>10, <2>1 DEF PageLocals
    <3> QED
      BY <1>5, <1>14, <3>1 DEF Fits, Room
  <2>2. ASSUME pc \in {"count", "counted"}
        PROVE  /\ m.blk \in DOMAIN hdr' /\ m.blk = Edge(pages', m.page)
               /\ hdr'[m.blk].actual = Aligned(m.size)
    BY <1>10, <1>13, <2>1, <2>2 DEF PageLocals, Edge
  <2>3. pc = "counted" => m.loaded = pages'[m.page].used
    BY <1>10, <2>1 DEF PageLocals
  <2> QED
    BY <1>5, <2>1, <2>2, <2>3 DEF PageLocals
<1> QED
  BY <1>5, <1>6, <1>13, <1>14, <1>15, MainKept

\* A key's malloc: types stay right, and the rest unless it is recorded.
LEMMA KeyKeeps ==
  ASSUME MemoryRight, MainRight, Key
  PROVE  HeapTypeOK' /\ (~spoiled' => MemoryRight' /\ MainRight')
<1>0. (MemoryRight /\ CallLocals => HeapTypeOK)'
  BY TypesFollow, PTL
<1>1. CASE Taken(KeySize) # 0
  <2>1. /\ TakenFromList(Taken(KeySize), KeySize, "key") /\ UNCHANGED <<grown, pc, m>>
        /\ spoiled' = (FreeList[Taken(KeySize)] \in Held)
    BY <1>1 DEF Key
  <2>2. /\ MemoryRight' /\ CallLocals'
        /\ FreeList[Taken(KeySize)] \notin Held => MainRight'
    BY <1>1, <2>1, KeyTakes
  <2> QED
    BY <1>0, <2>1, <2>2
<1>2. CASE Taken(KeySize) = 0 /\ PageFor(KeySize) # 0
  <2> DEFINE p == PageFor(KeySize)
  <2>1. /\ Carved(pages[p].base + pages[p].used, p, KeySize, "key") /\ UNCHANGED <<grown, pc, m>>
        /\ spoiled' = RoomHeld(p)
    BY <1>2 DEF Key
  <2> QED
    BY <1>2, <2>1, KeyCarves
<1>3. CASE Taken(KeySize) = 0 /\ PageFor(KeySize) = 0
  <2>1. /\ LET with == WithPage(Aligned(KeySize) + BlkHeader + PageHeader)
               b == with[Len(with)].base + PageHeader
           IN  /\ pages' = [with EXCEPT ![Len(with)].used = @ + BlkHeader + Aligned(KeySize)]
               /\ hdr' = WithHeader(b, Header(KeySize, NULL))
               /\ live' = live \cup {Owned(b, KeySize, "key")}
        /\ free_list' = free_list /\ UNCHANGED <<grown, pc, m>>
    BY <1>3 DEF Key
  <2>2. MemoryRight' /\ MainRight'
    BY <2>1, KeyAdds
  <2> QED
    BY <1>0, <2>2 DEF MainRight
<1> QED
  BY <1>1, <1>2, <1>3

-----------------------------------------------------------------------------
(* Main's malloc: the list                                                 *)

\* malloc returns: main is idle, or frees the block realloc moved.
LEMMA Returned ==
  ASSUME MainRight, pc \in InMalloc, InUse \subseteq Nat, InUse \subseteq InUse', Len(pages') \in Nat,
         pc' = IF m.old = NULL THEN "idle" ELSE "free",
         m' = [NoLocals EXCEPT !.old = m.old]
  PROVE  MainRight' /\ Limbo' = {} /\ Pending' = {}
<1>1. m.old \in InUse \cup {NULL} /\ m.old \in Nat
  BY DEF MainRight, CallLocals
<1>2. /\ m' \in [size : Nat, blk : DOMAIN hdr' \cup {NULL}, tmp : Nat, loaded : Nat,
                 page : 0 .. Len(pages'), old : Nat]
      /\ m'.old = m.old
  BY <1>1 DEF NoLocals, NULL
<1>3. pc' \in {"idle", "free"} /\ (pc' = "free" => m'.old \in InUse')
  BY <1>1, <1>2
<1>4. CallLocals'
  BY <1>2, <1>3 DEF CallLocals, InMalloc
<1>5. ListLocals' /\ PageLocals' /\ Limbo' = {} /\ Pending' = {}
  BY <1>3 DEF ListLocals, PageLocals, Limbo, Pending
<1> QED
  BY <1>4, <1>5 DEF MainRight

\* The parts of the invariant that say where main is.
LEMMA MainFacts ==
  ASSUME MemoryRight, MainRight
  PROVE  /\ Len(pages) \in Nat /\ DOMAIN pages = 1 .. Len(pages)
         /\ InUse \subseteq DOMAIN hdr /\ DOMAIN hdr \subseteq Nat
         /\ m \in [size : Nat, blk : DOMAIN hdr \cup {NULL}, tmp : Nat, loaded : Nat,
                   page : 0 .. Len(pages), old : Nat]
         /\ m.size \in Nat /\ Aligned(m.size) \in Nat /\ m.size <= Aligned(m.size)
         /\ pc \in InMalloc => m.size # 0 /\ m.old \in InUse \cup {NULL}
         /\ pc = "free" => m.old \in InUse
<1>1. Len(pages) \in Nat /\ DOMAIN pages = 1 .. Len(pages) /\ DOMAIN hdr \subseteq Nat
  BY DEF MemoryRight, Space, PagesRight
<1>2. /\ m \in [size : Nat, blk : DOMAIN hdr \cup {NULL}, tmp : Nat, loaded : Nat,
                page : 0 .. Len(pages), old : Nat]
      /\ pc \in InMalloc => m.size # 0 /\ m.old \in InUse \cup {NULL}
      /\ pc = "free" => m.old \in InUse
  BY DEF MainRight, CallLocals
<1>3. m.size \in Nat
  BY <1>2
<1> QED
  BY <1>1, <1>2, <1>3, RoundedUp, MemoryFacts

\* The request begins.
LEMMA MallocKeeps ==
  ASSUME MemoryRight, MainRight, Malloc
  PROVE  MemoryRight' /\ MainRight'
<1>1. /\ pc = "idle" /\ UNCHANGED heap /\ UNCHANGED grown
      /\ pc' \in {"first page", "list"}
  BY DEF Malloc, Main, Frame
<1>2. PICK size \in Sizes : m' = [NoLocals EXCEPT !.size = size]
  BY DEF Malloc
<1>3. size \in Nat \ {0}
  BY HeapAssumption
<1>4. Limbo = {} /\ Limbo' = {} /\ Pending = {} /\ Pending' = {}
  BY <1>1 DEF Limbo, Pending
<1>5. MemoryRight' /\ OnList' = OnList /\ InUse' = InUse
  BY <1>1, <1>4, MemoryKept
<1>6. pages' = pages /\ hdr' = hdr /\ free_list' = free_list
  BY <1>1 DEF heap
<1>7. /\ m' \in [size : Nat, blk : DOMAIN hdr \cup {NULL}, tmp : Nat, loaded : Nat,
                 page : 0 .. Len(pages), old : Nat]
      /\ m'.size = size /\ m'.old = NULL
  BY <1>2, <1>3, MainFacts DEF NoLocals, NULL
<1>8. CallLocals'
  BY <1>1, <1>3, <1>5, <1>6, <1>7 DEF CallLocals, InMalloc
<1>9. ListLocals' /\ PageLocals'
  BY <1>1 DEF ListLocals, PageLocals
<1> QED
  BY <1>5, <1>8, <1>9 DEF MainRight

\* A step of malloc that only moves main from place to place.
LEMMA WalkKeeps ==
  ASSUME MemoryRight, MainRight, pc \in InMalloc \ {"count", "counted"}, UNCHANGED heap, UNCHANGED grown,
         pc' \in InMalloc \ {"count", "counted"}, m'.size = m.size, m'.old = m.old,
         m' \in [size : Nat, blk : DOMAIN hdr \cup {NULL}, tmp : Nat, loaded : Nat,
                 page : 0 .. Len(pages), old : Nat],
         ListLocals', PageLocals'
  PROVE  MemoryRight' /\ MainRight'
<1>1. Limbo = {} /\ Limbo' = {} /\ Pending = {} /\ Pending' = {}
  BY DEF Limbo, Pending, InMalloc
<1>2. MemoryRight' /\ OnList' = OnList /\ InUse' = InUse
  BY <1>1, MemoryKept
<1>3. pages' = pages /\ hdr' = hdr
  BY DEF heap
<1>4. CallLocals'
  BY <1>2, <1>3, MainFacts DEF CallLocals, InMalloc
<1> QED
  BY <1>2, <1>4 DEF MainRight

\* find_free_blk loads the head: nothing there, large enough, or a walk.
LEMMA ListKeeps ==
  ASSUME MemoryRight, MainRight, List
  PROVE  MemoryRight' /\ MainRight'
<1>1. /\ pc = "list" /\ UNCHANGED heap /\ UNCHANGED grown
      /\ m' = [m EXCEPT !.blk = free_list]
      /\ pc' = CASE free_list = NULL -> "room"
                 [] free_list # NULL /\ hdr[free_list].actual > Aligned(m.size) -> "pop"
                 [] OTHER -> "walk"
  BY DEF List, Main, Frame
<1>2. pages' = pages /\ hdr' = hdr /\ free_list' = free_list /\ live' = live
  BY <1>1 DEF heap
<1>3. free_list \in OnList \cup {NULL} /\ OnList \subseteq DOMAIN hdr
  BY MemoryFacts
<1>4. /\ m' \in [size : Nat, blk : DOMAIN hdr \cup {NULL}, tmp : Nat, loaded : Nat,
                 page : 0 .. Len(pages), old : Nat]
      /\ m'.size = m.size /\ m'.old = m.old /\ m'.blk = free_list
  BY <1>1, <1>3, MainFacts
<1>5. /\ pc' \in {"room", "pop", "walk"}
      /\ pc' = "pop" => free_list # NULL /\ hdr[free_list].actual > Aligned(m.size)
      /\ pc' = "walk" => free_list # NULL
  BY <1>1
<1>6. pc' = "pop" => hdr[free_list].actual >= Aligned(m.size)
  <2> SUFFICES ASSUME pc' = "pop" PROVE hdr[free_list].actual >= Aligned(m.size)
    OBVIOUS
  <2>1. hdr[free_list].actual \in Nat /\ Aligned(m.size) \in Nat
    BY <1>3, <1>5, MemoryFacts, MainFacts
  <2> QED
    BY <1>5, <2>1
<1>7. OnList' = OnList
  BY <1>1, <1>2, <1>5 DEF OnList, InUse, Limbo, Pending
<1>8. ListLocals'
  BY <1>2, <1>3, <1>4, <1>5, <1>6, <1>7 DEF ListLocals
<1>9. PageLocals'
  BY <1>5 DEF PageLocals
<1> QED
  BY <1>1, <1>4, <1>5, <1>8, <1>9, WalkKeeps DEF InMalloc

\* The link behind the head is loaded; it stays so until the store.
LEMMA PopKeeps ==
  ASSUME MemoryRight, MainRight, Pop
  PROVE  MemoryRight' /\ MainRight'
<1>1. /\ pc = "pop" /\ pc' = "popped" /\ UNCHANGED heap /\ UNCHANGED grown
      /\ m' = [m EXCEPT !.loaded = hdr[m.blk].next]
  BY DEF Pop, Main, Frame
<1>2. pages' = pages /\ hdr' = hdr /\ free_list' = free_list
  BY <1>1 DEF heap
<1>3. m.blk = free_list /\ m.blk # NULL /\ hdr[m.blk].actual >= Aligned(m.size)
  BY <1>1 DEF MainRight, ListLocals
<1>4. hdr[m.blk].next \in Nat
  BY <1>3, MemoryFacts DEF NULL
<1>5. /\ m' \in [size : Nat, blk : DOMAIN hdr \cup {NULL}, tmp : Nat, loaded : Nat,
                 page : 0 .. Len(pages), old : Nat]
      /\ m'.size = m.size /\ m'.old = m.old /\ m'.blk = m.blk /\ m'.loaded = hdr[m.blk].next
  BY <1>1, <1>4, MainFacts
<1>6. ListLocals'
  BY <1>1, <1>2, <1>3, <1>5 DEF ListLocals
<1>7. PageLocals'
  BY <1>1 DEF PageLocals
<1> QED
  BY <1>1, <1>5, <1>6, <1>7, WalkKeeps DEF InMalloc

\* The head of the list is handed out.
LEMMA PoppedKeeps ==
  ASSUME MemoryRight, MainRight, Popped
  PROVE  MemoryRight' /\ MainRight'
<1> DEFINE b == m.blk
<1>1. /\ pc = "popped" /\ free_list' = m.loaded
      /\ hdr' = WithSize(hdr, b, m.size)
      /\ live' = live \cup {Owned(b, m.size, "main")}
      /\ pc' = IF m.old = NULL THEN "idle" ELSE "free"
      /\ m' = [NoLocals EXCEPT !.old = m.old]
      /\ pages' = pages /\ grown' = grown
  BY DEF Popped, Main, Frame, Return, WithSize
<1>2. b = free_list /\ b # NULL /\ hdr[b].actual >= Aligned(m.size) /\ m.loaded = hdr[b].next
  BY <1>1 DEF MainRight, ListLocals
<1>3. /\ b \in OnList /\ b \in DOMAIN hdr /\ hdr[b].actual \in Nat
      /\ hdr \in [DOMAIN hdr -> Headers] /\ \A a \in OnList : hdr[a].next # b
  BY <1>2, MemoryFacts
<1>4. m.size \in Nat \ {0} /\ m.size <= hdr[b].actual
  BY <1>1, <1>2, <1>3, MainFacts DEF InMalloc
<1>5. Limbo = {} /\ Pending = {}
  BY <1>1 DEF Limbo, Pending
<1>6. Limbo' = {} /\ Pending' = {}
  BY <1>1 DEF Limbo, Pending
<1> HIDE DEF b
<1>7. /\ hdr' \in [DOMAIN hdr -> Headers]
      /\ \A a \in DOMAIN hdr : hdr'[a].actual = hdr[a].actual /\ hdr'[a].next = hdr[a].next
  BY <1>1, <1>3, <1>4, Sized
<1>8. MemoryRight' /\ InUse' = InUse \cup {b}
  <2>1. \A a \in DOMAIN hdr :
          hdr'[a].next = IF a \in OnList \ {b} /\ hdr[a].next = b THEN hdr[b].next ELSE hdr[a].next
    BY <1>3, <1>7
  <2>2. free_list' = IF free_list = b THEN hdr[b].next ELSE free_list
    BY <1>1, <1>2
  <2>3. \A a \in DOMAIN hdr : hdr'[a].actual = hdr[a].actual
    BY <1>7
  <2> QED
    BY <1>1, <1>3, <1>4, <1>5, <1>6, <1>7, <2>1, <2>2, <2>3, BlockTaken
<1>9. MainRight'
  BY <1>1, <1>8, MainFacts, Returned DEF InMalloc
<1> QED
  BY <1>8, <1>9

\* A turn of the walk stays on the list, and stops where a block fits.
LEMMA TurnKeeps ==
  ASSUME MemoryRight, MainRight, Walk
  PROVE  MemoryRight' /\ MainRight'
<1> DEFINE next == hdr[m.blk].next
<1>1. /\ pc = "walk" /\ UNCHANGED heap /\ UNCHANGED grown
      /\ IF next # NULL /\ hdr[next].actual < Aligned(m.size)
         THEN m' = [m EXCEPT !.blk = next] /\ pc' = pc
         ELSE pc' = (IF next = NULL THEN "room" ELSE "found") /\ m' = m
  BY DEF Walk, Main, Frame
<1>2. pages' = pages /\ hdr' = hdr /\ free_list' = free_list /\ live' = live
  BY <1>1 DEF heap
<1>3. m.blk \in OnList
  BY <1>1 DEF MainRight, ListLocals
<1>4. /\ next \in OnList \cup {NULL} /\ OnList \subseteq DOMAIN hdr
      /\ \A a \in DOMAIN hdr : hdr[a].actual \in Nat
  BY <1>3, MemoryFacts
<1> HIDE DEF next
<1>5. CASE next # NULL /\ hdr[next].actual < Aligned(m.size)
  <2>1. pc' = "walk" /\ m' = [m EXCEPT !.blk = next]
    BY <1>1, <1>5
  <2>2. /\ m' \in [size : Nat, blk : DOMAIN hdr \cup {NULL}, tmp : Nat, loaded : Nat,
                   page : 0 .. Len(pages), old : Nat]
        /\ m'.size = m.size /\ m'.old = m.old /\ m'.blk = next
    BY <1>4, <2>1, MainFacts
  <2>3. OnList' = OnList
    BY <1>1, <1>2, <2>1 DEF OnList, InUse, Limbo, Pending
  <2>4. ListLocals' /\ PageLocals'
    BY <1>4, <1>5, <2>1, <2>2, <2>3 DEF ListLocals, PageLocals
  <2> QED
    BY <1>1, <2>1, <2>2, <2>4, WalkKeeps DEF InMalloc
<1>6. CASE ~(next # NULL /\ hdr[next].actual < Aligned(m.size))
  <2>1. pc' = (IF next = NULL THEN "room" ELSE "found") /\ m' = m
    BY <1>1, <1>6
  <2>2. pc' = "found" => next # NULL /\ hdr[next].actual >= Aligned(m.size)
    <3> SUFFICES ASSUME next # NULL PROVE hdr[next].actual >= Aligned(m.size)
      BY <2>1
    <3>1. hdr[next].actual \in Nat /\ Aligned(m.size) \in Nat
      BY <1>4, MainFacts
    <3> QED
      BY <1>6, <3>1
  <2>3. OnList' = OnList
    BY <1>1, <1>2, <2>1 DEF OnList, InUse, Limbo, Pending
  <2>4. ListLocals' /\ PageLocals'
    BY <1>2, <1>3, <2>1, <2>2, <2>3 DEF ListLocals, PageLocals, next
  <2> QED
    BY <1>1, <2>1, <2>4, WalkKeeps, MainFacts DEF InMalloc
<1> QED
  BY <1>5, <1>6

\* The block that fits is loaded again, with the link behind it.
LEMMA FoundKeeps ==
  ASSUME MemoryRight, MainRight, Found
  PROVE  MemoryRight' /\ MainRight'
<1> DEFINE next == hdr[m.blk].next
<1>1. m.blk \in OnList /\ next # NULL /\ hdr[next].actual >= Aligned(m.size)
  BY DEF MainRight, ListLocals, Found, Main
<1>2. /\ pc = "found" /\ pc' = "unlink" /\ UNCHANGED heap /\ UNCHANGED grown
      /\ m' = [m EXCEPT !.tmp = next, !.loaded = hdr[next].next]
  BY <1>1 DEF Found, Main, Frame
<1>3. pages' = pages /\ hdr' = hdr /\ free_list' = free_list /\ live' = live
  BY <1>2 DEF heap
<1>4. next \in OnList /\ next \in Nat /\ hdr[next].next \in Nat
  <2>1. next \in OnList /\ OnList \subseteq DOMAIN hdr
    BY <1>1, MemoryFacts
  <2> HIDE DEF next
  <2>2. next \in DOMAIN hdr
    BY <2>1
  <2>3. next \in Nat /\ hdr[next] \in Headers
    BY <2>2, MemoryFacts
  <2> QED
    BY <2>1, <2>3 DEF Headers
<1> HIDE DEF next
<1>5. /\ m' \in [size : Nat, blk : DOMAIN hdr \cup {NULL}, tmp : Nat, loaded : Nat,
                 page : 0 .. Len(pages), old : Nat]
      /\ m'.size = m.size /\ m'.old = m.old /\ m'.blk = m.blk
      /\ m'.tmp = next /\ m'.loaded = hdr[next].next
  BY <1>2, <1>4, MainFacts
<1>6. OnList' = OnList
  BY <1>2, <1>3 DEF OnList, InUse, Limbo, Pending
<1>7. ListLocals' /\ PageLocals'
  BY <1>1, <1>2, <1>3, <1>5, <1>6 DEF ListLocals, PageLocals, next
<1> QED
  BY <1>2, <1>5, <1>7, WalkKeeps DEF InMalloc

\* A block inside the list is handed out.
LEMMA UnlinkKeeps ==
  ASSUME MemoryRight, MainRight, Unlink
  PROVE  MemoryRight' /\ MainRight'
<1> DEFINE a == m.blk
           b == m.tmp
           linked == WithNext(hdr, a, m.loaded)
<1>1. /\ pc = "unlink" /\ free_list' = free_list
      /\ hdr' = WithSize(linked, b, m.size)
      /\ live' = live \cup {Owned(b, m.size, "main")}
      /\ pc' = IF m.old = NULL THEN "idle" ELSE "free"
      /\ m' = [NoLocals EXCEPT !.old = m.old]
      /\ pages' = pages /\ grown' = grown
  BY DEF Unlink, Main, Frame, Return, WithSize, WithNext
<1>2. /\ a \in OnList /\ b = hdr[a].next /\ b # NULL /\ m.loaded = hdr[b].next
      /\ hdr[b].actual >= Aligned(m.size)
  BY <1>1 DEF MainRight, ListLocals
<1> HIDE DEF a, b
<1>3. /\ a \in DOMAIN hdr /\ b \in OnList /\ b \in DOMAIN hdr /\ hdr[b].actual \in Nat
      /\ hdr \in [DOMAIN hdr -> Headers] /\ a # b /\ b # free_list
      /\ \A c \in OnList : hdr[c].next = b => c = a
  <2>1. b \in OnList /\ OnList \subseteq DOMAIN hdr
    BY <1>2, MemoryFacts
  <2> QED
    BY <1>2, <2>1, MemoryFacts
<1>4. m.size \in Nat \ {0} /\ m.size <= hdr[b].actual /\ m.loaded \in Nat
  BY <1>1, <1>2, <1>3, MainFacts DEF InMalloc
<1>5. Limbo = {} /\ Pending = {} /\ Limbo' = {} /\ Pending' = {}
  BY <1>1 DEF Limbo, Pending
<1>6. /\ linked \in [DOMAIN hdr -> Headers]
      /\ \A c \in DOMAIN hdr : /\ linked[c].actual = hdr[c].actual
                               /\ linked[c].next = IF c = a THEN m.loaded ELSE hdr[c].next
  BY <1>3, <1>4, Linked
<1> HIDE DEF linked
<1>7. /\ hdr' \in [DOMAIN hdr -> Headers]
      /\ \A c \in DOMAIN hdr : hdr'[c].actual = linked[c].actual /\ hdr'[c].next = linked[c].next
  <2>1. DOMAIN linked = DOMAIN hdr
    BY <1>6
  <2> QED
    BY <1>1, <1>3, <1>4, <1>6, <2>1, Sized
<1>8. MemoryRight' /\ InUse' = InUse \cup {b}
  <2>1. \A c \in DOMAIN hdr :
          hdr'[c].next = IF c \in OnList \ {b} /\ hdr[c].next = b THEN hdr[b].next ELSE hdr[c].next
    BY <1>2, <1>3, <1>6, <1>7
  <2>2. free_list' = IF free_list = b THEN hdr[b].next ELSE free_list
    BY <1>1, <1>3
  <2>3. \A c \in DOMAIN hdr : hdr'[c].actual = hdr[c].actual
    BY <1>6, <1>7
  <2> QED
    BY <1>1, <1>3, <1>4, <1>5, <1>7, <2>1, <2>2, <2>3, BlockTaken
<1>9. MainRight'
  BY <1>1, <1>8, MainFacts, Returned DEF InMalloc
<1> QED
  BY <1>8, <1>9

-----------------------------------------------------------------------------
(* Main's malloc: the pages                                                *)

\* The page that is chosen has room for the block.
LEMMA ChoosePageKeeps ==
  ASSUME MemoryRight, MainRight, ChoosePage
  PROVE  MemoryRight' /\ MainRight'
<1> DEFINE p == PageFor(m.size)
<1>1. /\ pc = "room" /\ UNCHANGED heap /\ UNCHANGED grown
      /\ pc' = IF p = 0 THEN "add page" ELSE "carve"
      /\ m' = [m EXCEPT !.page = p]
  BY DEF ChoosePage, Main, Frame
<1>2. pages' = pages /\ hdr' = hdr
  BY <1>1 DEF heap
<1>3. p \in 0 .. Len(pages) /\ (p # 0 => p \in 1 .. Len(pages) /\ Fits(p, m.size))
  BY PageForFits
<1> HIDE DEF p
<1>4. /\ m' \in [size : Nat, blk : DOMAIN hdr \cup {NULL}, tmp : Nat, loaded : Nat,
                 page : 0 .. Len(pages), old : Nat]
      /\ m'.size = m.size /\ m'.old = m.old /\ m'.page = p
  BY <1>1, <1>3, MainFacts
<1>5. ListLocals'
  BY <1>1 DEF ListLocals
<1>6. PageLocals'
  BY <1>1, <1>2, <1>3, <1>4 DEF PageLocals, Fits, Room
<1> QED
  BY <1>1, <1>4, <1>5, <1>6, WalkKeeps DEF InMalloc

\* malloc fails: nothing is changed.
LEMMA NoPageKeeps ==
  ASSUME MemoryRight, MainRight, pc \in {"first page", "add page"}, NoPage, UNCHANGED grown
  PROVE  MemoryRight' /\ MainRight'
<1>1. /\ UNCHANGED heap /\ pc' = IF m.old = NULL THEN "idle" ELSE "free"
      /\ m' = [NoLocals EXCEPT !.old = m.old]
  BY DEF NoPage
<1>2. Limbo = {} /\ Pending = {} /\ Limbo' = {} /\ Pending' = {}
  BY <1>1 DEF Limbo, Pending
<1>3. MemoryRight' /\ InUse' = InUse
  BY <1>1, <1>2, MemoryKept
<1>4. pages' = pages
  BY <1>1 DEF heap
<1>5. MainRight'
  BY <1>1, <1>3, <1>4, MainFacts, Returned DEF InMalloc
<1> QED
  BY <1>3, <1>5

\* A page is added.
LEMMA PageKept ==
  ASSUME MemoryRight, MainRight, pc \in {"first page", "add page"}, NEW size \in Nat, size >= PageHeader,
         pages' = WithPage(size), hdr' = hdr, free_list' = free_list, live' = live, grown' = grown,
         pc' \in {"list", "carve"}
  PROVE  /\ MemoryRight' /\ InUse' = InUse
         /\ Len(pages') = Len(pages) + 1 /\ Len(pages) \in Nat
         /\ pages'[Len(pages) + 1] \in PageRecords /\ pages'[Len(pages) + 1].used = PageHeader
         /\ pages'[Len(pages) + 1].size >= size
<1>1. /\ Space(pages', hdr, Pending)
      /\ Len(pages') = Len(pages) + 1 /\ Len(pages) \in Nat
      /\ pages'[Len(pages) + 1] \in PageRecords /\ pages'[Len(pages) + 1].used = PageHeader
      /\ pages'[Len(pages) + 1].size >= size
  BY PageAdded, MainFacts
<1>2. Limbo = {} /\ Pending = {} /\ Limbo' = {} /\ Pending' = {}
  BY DEF Limbo, Pending
<1>3. OnList' = OnList /\ InUse' = InUse
  BY <1>2 DEF OnList, InUse
<1>4. LiveRight'
  BY <1>2, <1>3 DEF MemoryRight, LiveRight
<1>5. Space(pages, hdr, Pending)'
  BY <1>1, <1>2
<1>6. FreeIs(hdr, free_list, OnList)'
  BY <1>3 DEF MemoryRight
<1> QED
  BY <1>1, <1>3, <1>4, <1>5, <1>6 DEF MemoryRight

\* The first page lies alone; without one malloc returns.
LEMMA FirstPageKeeps ==
  ASSUME MemoryRight, MainRight, FirstPage
  PROVE  MemoryRight' /\ MainRight'
<1>1. pc = "first page" /\ grown' = grown
  BY DEF FirstPage, Main, Frame
<1>2. CASE NoPage
  BY <1>1, <1>2, NoPageKeeps
<1>3. CASE pages' = WithPage(Aligned(m.size)) /\ pc' = "list" /\ UNCHANGED <<hdr, free_list, live, m>>
  <2>1. m.size # 0 /\ m.old \in InUse \cup {NULL}
    BY <1>1, MainFacts DEF InMalloc
  <2>2. Aligned(m.size) \in Nat /\ Aligned(m.size) >= PageHeader
    BY <2>1, MainFacts, RoundedUp
  <2>3. MemoryRight' /\ InUse' = InUse /\ Len(pages') = Len(pages) + 1 /\ Len(pages) \in Nat
    BY <1>1, <1>3, <2>2, PageKept
  <2>4. m' \in [size : Nat, blk : DOMAIN hdr' \cup {NULL}, tmp : Nat, loaded : Nat,
                page : 0 .. Len(pages'), old : Nat]
    <3>1. 0 .. Len(pages) \subseteq 0 .. Len(pages')
      BY <2>3
    <3> QED
      BY <1>3, <3>1, MainFacts
  <2>5. CallLocals'
    BY <1>3, <2>1, <2>3, <2>4 DEF CallLocals, InMalloc
  <2>6. ListLocals' /\ PageLocals'
    BY <1>3 DEF ListLocals, PageLocals
  <2> QED
    BY <2>3, <2>5, <2>6 DEF MainRight
<1> QED
  BY <1>2, <1>3 DEF FirstPage

\* A page behind the last one has room for the block, or malloc returns.
LEMMA AddPageKeeps ==
  ASSUME MemoryRight, MainRight, AddPage
  PROVE  MemoryRight' /\ MainRight'
<1>1. pc = "add page" /\ grown' = grown
  BY DEF AddPage, Main, Frame
<1>2. CASE NoPage
  BY <1>1, <1>2, NoPageKeeps
<1>3. CASE /\ pages' = WithPage(Aligned(m.size) + BlkHeader + PageHeader)
           /\ m' = [m EXCEPT !.page = Len(pages) + 1]
           /\ pc' = "carve"
           /\ UNCHANGED <<hdr, free_list, live>>
  <2> DEFINE n == Len(pages) + 1
             size == Aligned(m.size) + BlkHeader + PageHeader
  <2>1. m.size # 0 /\ m.old \in InUse \cup {NULL}
    BY <1>1, MainFacts DEF InMalloc
  <2>2. size \in Nat /\ size >= PageHeader
    BY MainFacts DEF BlkHeader, PageHeader
  <2>3. /\ MemoryRight' /\ InUse' = InUse /\ Len(pages') = n /\ Len(pages) \in Nat
        /\ pages'[n] \in PageRecords /\ pages'[n].used = PageHeader /\ pages'[n].size >= size
    <3> HIDE DEF size
    <3>1. pages' = WithPage(size)
      BY <1>3 DEF size
    <3> QED
      BY <1>1, <1>3, <2>2, <3>1, PageKept
  <2>4. /\ m' \in [size : Nat, blk : DOMAIN hdr' \cup {NULL}, tmp : Nat, loaded : Nat,
                   page : 0 .. Len(pages'), old : Nat]
        /\ m'.size = m.size /\ m'.old = m.old /\ m'.page = n
    <3>1. n \in 0 .. Len(pages')
      BY <2>3
    <3> HIDE DEF n
    <3>2. m' = [m EXCEPT !.page = n]
      BY <1>3 DEF n
    <3> QED
      BY <1>3, <3>1, <3>2, MainFacts
  <2>5. CallLocals'
    BY <1>3, <2>1, <2>3, <2>4 DEF CallLocals, InMalloc
  <2>6. ListLocals'
    BY <1>3 DEF ListLocals
  <2>7. Fits(m.page, m.size)' /\ m'.page \in 1 .. Len(pages')
    <3>1. pages'[n].size \in Nat
      BY <2>3 DEF PageRecords
    <3>2. pages'[n].size - pages'[n].used >= Aligned(m.size) + BlkHeader
      BY <2>3, <3>1, MainFacts DEF BlkHeader, PageHeader
    <3> QED
      BY <2>3, <2>4, <3>2 DEF Fits, Room
  <2>8. PageLocals'
    BY <1>3, <2>7 DEF PageLocals
  <2> QED
    BY <2>3, <2>5, <2>6, <2>8 DEF MainRight
<1> QED
  BY <1>2, <1>3 DEF AddPage

\* The header is written.
LEMMA CarveKeeps ==
  ASSUME MemoryRight, MainRight, Carve
  PROVE  MemoryRight' /\ MainRight'
<1> DEFINE p == m.page
           b == pages[p].base + pages[p].used
           x == Header(m.size, NULL)
           e == b + BlkHeader + Aligned(m.size)
<1>1. /\ pc = "carve" /\ pc' = "count" /\ hdr' = WithHeader(b, x) /\ m' = [m EXCEPT !.blk = b]
      /\ pages' = pages /\ free_list' = free_list /\ live' = live /\ grown' = grown
  BY DEF Carve, Main, Frame
<1>2. p \in 1 .. Len(pages) /\ Fits(p, m.size)
  BY <1>1 DEF MainRight, PageLocals
<1>3. m.size \in Nat /\ Aligned(m.size) \in Nat /\ m.size # 0 /\ m.old \in InUse \cup {NULL}
  BY <1>1, MainFacts DEF InMalloc
<1>4. b \in Nat /\ b = Edge(pages, p) /\ e \in Nat /\ e <= Bound(pages, p)
  <2>1. b \in Nat /\ b = Edge(pages, p)
    BY <1>2, RoomFacts
  <2>2. Edge(pages, p) + BlkHeader + Aligned(m.size) <= Bound(pages, p)
    BY <1>2, <1>3, RoomFacts
  <2>3. e <= Bound(pages, p)
    BY <2>1, <2>2, Zenon
  <2> HIDE DEF b
  <2>4. e \in Nat
    BY <1>3, <2>1 DEF BlkHeader
  <2> QED
    BY <2>1, <2>3, <2>4
<1> HIDE DEF b, x, e
<1>5. /\ x \in Headers /\ x.actual = Aligned(m.size) /\ Written(hdr', hdr, b, x)
      /\ DOMAIN hdr' = DOMAIN hdr \cup {b} /\ hdr'[b] = x
      /\ \A a \in DOMAIN hdr' : hdr'[a].next \in DOMAIN hdr' \cup {NULL}
  BY <1>1, <1>3, <1>4, HeaderWritten DEF x
<1>6. /\ m' \in [size : Nat, blk : DOMAIN hdr' \cup {NULL}, tmp : Nat, loaded : Nat,
                 page : 0 .. Len(pages), old : Nat]
      /\ m'.size = m.size /\ m'.old = m.old /\ m'.blk = b /\ m'.page = p
  BY <1>1, <1>5, MainFacts
<1>7. Limbo = {} /\ Pending = {} /\ Limbo' = {b} /\ Pending' = {b}
  BY <1>1, <1>6 DEF Limbo, Pending
<1>8. b \notin DOMAIN hdr /\ Space(pages, hdr', {b})
  <2>1. Space(pages, hdr, {}) /\ b \notin {} /\ {} \cup {b} = {b}
    BY <1>7 DEF MemoryRight
  <2>2. e = b + BlkHeader + x.actual
    BY <1>5 DEF e
  <2>3. b \notin DOMAIN hdr /\ Space(pages, hdr', {} \cup {b})
    BY <1>2, <1>4, <1>5, <2>1, <2>2, SpaceCarved
  <2> QED
    BY <2>1, <2>3
<1>9. \A a \in DOMAIN hdr : hdr'[a] = hdr[a]
  BY <1>5, <1>8 DEF Written
<1>10. InUse' = InUse /\ InUse \subseteq DOMAIN hdr
  BY <1>1, MemoryFacts DEF InUse
<1>11. OnList' = OnList
  BY <1>5, <1>7, <1>8, <1>10 DEF OnList
<1>12. FreeIs(hdr, free_list, OnList)'
  <2>1. FreeIs(hdr, free_list, OnList) /\ OnList \subseteq DOMAIN hdr
    BY MemoryFacts DEF MemoryRight
  <2>2. \A a \in OnList : a \in DOMAIN hdr' /\ hdr'[a].next = hdr[a].next
    BY <1>5, <1>9, <2>1
  <2>3. FreeIs(hdr', free_list, OnList)
    BY <2>1, <2>2, ListKept
  <2> QED
    BY <1>1, <1>11, <2>3
<1>13. LiveRight'
  <2>1. \A y \in live : y.at \in DOMAIN hdr
    BY DEF MemoryRight, LiveRight
  <2>2. live' \subseteq [at : DOMAIN hdr', size : Nat \ {0}, by : {"main", "key"}]
    BY <1>1, <1>5 DEF MemoryRight, LiveRight
  <2>3. \A y \in live' : y.size <= hdr'[y.at].actual \/ y.at \in grown'
    BY <1>1, <1>9, <2>1 DEF MemoryRight, LiveRight
  <2>4. Limbo' \cap InUse' = {}
    BY <1>7, <1>8, <1>10
  <2> QED
    BY <1>1, <1>10, <2>2, <2>3, <2>4 DEF MemoryRight, LiveRight
<1>14. MemoryRight'
  <2>1. IsFiniteSet(DOMAIN hdr')
    BY <1>5, FS_AddElement DEF MemoryRight
  <2>2. Space(pages, hdr, Pending)'
    BY <1>1, <1>7, <1>8
  <2> QED
    BY <1>5, <1>12, <1>13, <2>1, <2>2 DEF MemoryRight
<1>15. CallLocals'
  BY <1>1, <1>3, <1>6, <1>10 DEF CallLocals, InMalloc
<1>16. ListLocals'
  BY <1>1 DEF ListLocals
<1>17. PageLocals'
  <2>1. Fits(m.page, m.size)'
    BY <1>1, <1>2, <1>6 DEF Fits, Room
  <2> QED
    BY <1>1, <1>2, <1>4, <1>5, <1>6, <2>1 DEF PageLocals
<1> QED
  BY <1>14, <1>15, <1>16, <1>17 DEF MainRight

\* used_size is loaded: the block is still just behind what is counted.
LEMMA CountKeeps ==
  ASSUME MemoryRight, MainRight, Count
  PROVE  MemoryRight' /\ MainRight'
<1>1. /\ pc = "count" /\ pc' = "counted" /\ UNCHANGED heap /\ UNCHANGED grown
      /\ m' = [m EXCEPT !.loaded = pages[m.page].used]
  BY DEF Count, Main, Frame
<1>2. pages' = pages /\ hdr' = hdr
  BY <1>1 DEF heap
<1>3. /\ m.page \in 1 .. Len(pages) /\ Fits(m.page, m.size)
      /\ m.blk \in DOMAIN hdr /\ m.blk = Edge(pages, m.page)
      /\ hdr[m.blk].actual = Aligned(m.size)
  BY <1>1 DEF MainRight, PageLocals
<1>4. pages[m.page].used \in Nat
  BY <1>3, RoomFacts
<1>5. /\ m' \in [size : Nat, blk : DOMAIN hdr \cup {NULL}, tmp : Nat, loaded : Nat,
                 page : 0 .. Len(pages), old : Nat]
      /\ m'.size = m.size /\ m'.old = m.old /\ m'.page = m.page /\ m'.blk = m.blk
      /\ m'.loaded = pages[m.page].used
  BY <1>1, <1>4, MainFacts
<1>6. Limbo' = Limbo /\ Pending' = Pending
  BY <1>1, <1>5 DEF Limbo, Pending
<1>7. MemoryRight' /\ InUse' = InUse
  BY <1>1, <1>6, MemoryKept
<1>8. m.size # 0 /\ m.old \in InUse \cup {NULL}
  BY <1>1, MainFacts DEF InMalloc
<1>9. CallLocals'
  BY <1>1, <1>2, <1>5, <1>7, <1>8 DEF CallLocals, InMalloc
<1>10. ListLocals'
  BY <1>1 DEF ListLocals
<1>11. PageLocals'
  BY <1>1, <1>2, <1>3, <1>5 DEF PageLocals, Fits, Room
<1> QED
  BY <1>7, <1>9, <1>10, <1>11 DEF MainRight

\* The block is counted and handed out.
LEMMA CountedKeeps ==
  ASSUME MemoryRight, MainRight, Counted
  PROVE  MemoryRight' /\ MainRight'
<1> DEFINE p == m.page
           b == m.blk
           k == m.loaded + BlkHeader + Aligned(m.size)
           e == Behind(hdr, b)
<1>1. /\ pc = "counted" /\ pages' = WithUsed(pages, p, k)
      /\ live' = live \cup {Owned(b, m.size, "main")}
      /\ pc' = IF m.old = NULL THEN "idle" ELSE "free"
      /\ m' = [NoLocals EXCEPT !.old = m.old]
      /\ hdr' = hdr /\ free_list' = free_list /\ grown' = grown
  BY DEF Counted, Main, Frame, Return, WithUsed
<1>2. /\ p \in 1 .. Len(pages) /\ Fits(p, m.size) /\ b \in DOMAIN hdr /\ b = Edge(pages, p)
      /\ hdr[b].actual = Aligned(m.size) /\ m.loaded = pages[p].used
  BY <1>1 DEF MainRight, PageLocals
<1>3. /\ m.size \in Nat \ {0} /\ Aligned(m.size) \in Nat /\ m.size <= Aligned(m.size)
      /\ m.old \in InUse \cup {NULL}
  BY <1>1, MainFacts DEF InMalloc
<1>4. /\ pages \in Seq(PageRecords) /\ pages[p].used \in Nat
      /\ Edge(pages, p) + BlkHeader + Aligned(m.size) <= Bound(pages, p)
  BY <1>2, <1>3, RoomFacts
<1> HIDE DEF p, b, k
<1>5. k \in Nat /\ k = pages[p].used + (BlkHeader + Aligned(m.size))
  <2> DEFINE u == pages[p].used
             A == Aligned(m.size)
  <2>1. u \in Nat /\ A \in Nat /\ k = u + BlkHeader + A
    BY <1>2, <1>3, <1>4 DEF k
  <2> HIDE DEF u, A
  <2>2. k \in Nat /\ k = u + (BlkHeader + A)
    BY <2>1 DEF BlkHeader
  <2> QED
    BY <2>2 DEF u, A
<1>6. Advanced(pages', pages, p, BlkHeader + hdr[b].actual)
  <2>1. Advanced(pages', pages, p, BlkHeader + Aligned(m.size))
    BY <1>1, <1>2, <1>4, <1>5, UsedSet
  <2> QED
    BY <1>2, <2>1
<1>7. Limbo = {b} /\ Pending = {b} /\ Limbo' = {} /\ Pending' = {}
  BY <1>1 DEF Limbo, Pending, b
<1>8. Space(pages', hdr, {})
  <2>1. Space(pages, hdr, {b}) /\ b \in {b} /\ {b} \ {b} = {}
    BY <1>7 DEF MemoryRight
  <2>2. e \in Nat
    BY <1>2, <2>1, BlockFacts
  <2>3. e <= Bound(pages, p)
    <3>1. e = b + BlkHeader + hdr[b].actual
      BY DEF Behind
    <3>2. e = Edge(pages, p) + BlkHeader + Aligned(m.size)
      BY <1>2, <3>1, Zenon
    <3> QED
      BY <1>4, <3>2, Zenon
  <2>4. e = Behind(hdr, b)
    OBVIOUS
  <2> HIDE DEF e
  <2>5. Space(pages', hdr, {b} \ {b})
    BY <1>2, <1>6, <2>1, <2>2, <2>3, <2>4, SpaceCounted
  <2> QED
    BY <2>1, <2>5
<1>9. InUse' = InUse \cup {b}
  BY <1>1, InUseGrows
<1>10. OnList' = OnList
  BY <1>1, <1>7, <1>9 DEF OnList
<1>11. LiveRight'
  <2>1. \A y \in live : y.at # b
    BY <1>7 DEF MemoryRight, LiveRight, InUse
  <2>2. Owned(b, m.size, "main") \in [at : DOMAIN hdr, size : Nat \ {0}, by : {"main", "key"}]
    BY <1>2, <1>3 DEF Owned
  <2>3. live' \subseteq [at : DOMAIN hdr', size : Nat \ {0}, by : {"main", "key"}]
    BY <1>1, <2>2 DEF MemoryRight, LiveRight
  <2>4. \A y, z \in live' : y.at = z.at => y = z
    BY <1>1, <2>1 DEF MemoryRight, LiveRight, Owned
  <2>5. \A y \in live' : y.size <= hdr'[y.at].actual \/ y.at \in grown'
    BY <1>1, <1>2, <1>3 DEF MemoryRight, LiveRight, Owned
  <2>6. grown' \subseteq InUse' /\ Limbo' \cap InUse' = {}
    BY <1>1, <1>7, <1>9 DEF MemoryRight, LiveRight
  <2> QED
    BY <2>3, <2>4, <2>5, <2>6 DEF LiveRight
<1>12. MemoryRight'
  <2>1. Space(pages, hdr, Pending)'
    BY <1>1, <1>7, <1>8
  <2>2. FreeIs(hdr, free_list, OnList)'
    BY <1>1, <1>10 DEF MemoryRight
  <2>3. IsFiniteSet(DOMAIN hdr') /\ \A a \in DOMAIN hdr' : hdr'[a].next \in DOMAIN hdr' \cup {NULL}
    BY <1>1 DEF MemoryRight
  <2> QED
    BY <1>11, <2>1, <2>2, <2>3 DEF MemoryRight
<1>13. MainRight'
  <2>1. Len(pages') \in Nat
    BY <1>6 DEF Advanced
  <2> QED
    BY <1>1, <1>9, <2>1, MainFacts, Returned DEF InMalloc
<1> QED
  BY <1>12, <1>13

-----------------------------------------------------------------------------
(* free and realloc                                                        *)

\* free begins with a block that is in use.
LEMMA FreeKeeps ==
  ASSUME MemoryRight, MainRight, Free
  PROVE  MemoryRight' /\ MainRight'
<1>1. pc = "idle" /\ pc' = "free" /\ UNCHANGED heap /\ UNCHANGED grown
  BY DEF Free, Main, Frame
<1>2. PICK b \in live : m' = [NoLocals EXCEPT !.old = b.at]
  BY DEF Free
<1>3. b.at \in InUse /\ b.at \in Nat
  BY MainFacts DEF InUse
<1>4. Limbo = {} /\ Limbo' = {} /\ Pending = {} /\ Pending' = {}
  BY <1>1 DEF Limbo, Pending
<1>5. MemoryRight' /\ InUse' = InUse
  BY <1>1, <1>4, MemoryKept
<1>6. pages' = pages /\ hdr' = hdr
  BY <1>1 DEF heap
<1>7. /\ m' \in [size : Nat, blk : DOMAIN hdr \cup {NULL}, tmp : Nat, loaded : Nat,
                 page : 0 .. Len(pages), old : Nat]
      /\ m'.old = b.at
  BY <1>2, <1>3, MainFacts DEF NoLocals, NULL
<1>8. CallLocals'
  BY <1>1, <1>3, <1>5, <1>6, <1>7 DEF CallLocals, InMalloc
<1>9. ListLocals' /\ PageLocals'
  BY <1>1 DEF ListLocals, PageLocals
<1> QED
  BY <1>5, <1>8, <1>9 DEF MainRight

\* The block goes out of use and is linked to the list.
LEMMA LinkKeeps ==
  ASSUME MemoryRight, MainRight, Link
  PROVE  MemoryRight' /\ MainRight'
<1> DEFINE b == m.old
<1>1. /\ pc = "free" /\ pc' = "publish" /\ hdr' = WithNext(hdr, b, free_list)
      /\ m' = [m EXCEPT !.loaded = free_list]
      /\ live' = {y \in live : y.at # b} /\ grown' = grown \ {b}
      /\ pages' = pages /\ free_list' = free_list
  BY DEF Link, Main, WithNext
<1>2. /\ b \in InUse /\ b \in DOMAIN hdr /\ hdr \in [DOMAIN hdr -> Headers]
      /\ free_list \in OnList \cup {NULL} /\ free_list \in DOMAIN hdr \cup {NULL} /\ free_list \in Nat
  <2>1. b \in InUse /\ InUse \subseteq DOMAIN hdr /\ hdr \in [DOMAIN hdr -> Headers]
    BY <1>1, MainFacts, MemoryFacts
  <2>2. free_list \in OnList \cup {NULL} /\ free_list \in DOMAIN hdr \cup {NULL} /\ DOMAIN hdr \subseteq Nat
    BY MemoryFacts
  <2> QED
    BY <2>1, <2>2 DEF NULL
<1>3. /\ hdr' \in [DOMAIN hdr -> Headers]
      /\ \A a \in DOMAIN hdr : /\ hdr'[a].actual = hdr[a].actual
                               /\ hdr'[a].next = IF a = b THEN free_list ELSE hdr[a].next
  BY <1>1, <1>2, Linked
<1>4. DOMAIN hdr' = DOMAIN hdr
  BY <1>3
<1>5. /\ m' \in [size : Nat, blk : DOMAIN hdr \cup {NULL}, tmp : Nat, loaded : Nat,
                 page : 0 .. Len(pages), old : Nat]
      /\ m'.old = b /\ m'.loaded = free_list
  BY <1>1, <1>2, MainFacts
<1> HIDE DEF b
<1>6. Limbo = {} /\ Pending = {} /\ Limbo' = {b} /\ Pending' = {}
  BY <1>1, <1>5 DEF Limbo, Pending
<1>7. InUse' = InUse \ {b}
  BY <1>1 DEF InUse
<1>8. OnList' = OnList /\ b \notin OnList
  BY <1>2, <1>4, <1>6, <1>7 DEF OnList
<1>9. FreeIs(hdr, free_list, OnList)'
  <2>1. FreeIs(hdr, free_list, OnList) /\ OnList \subseteq DOMAIN hdr
    BY MemoryFacts DEF MemoryRight
  <2>2. \A a \in OnList : a \in DOMAIN hdr' /\ hdr'[a].next = hdr[a].next
    BY <1>3, <1>4, <1>8, <2>1
  <2>3. FreeIs(hdr', free_list, OnList)
    BY <2>1, <2>2, ListKept
  <2> QED
    BY <1>1, <1>8, <2>3
<1>10. Space(pages, hdr, Pending)'
  <2>1. Space(pages, hdr, {})
    BY <1>6 DEF MemoryRight
  <2>2. Space(pages, hdr', {})
    BY <1>3, <2>1, SpaceKept
  <2> QED
    BY <1>1, <1>6, <2>2
<1>11. LiveRight'
  <2>1. \A y \in live' : y \in live /\ y.at # b /\ y.at \in DOMAIN hdr
    BY <1>1 DEF MemoryRight, LiveRight
  <2>2. \A y \in live' : y.size <= hdr'[y.at].actual \/ y.at \in grown'
    BY <1>1, <1>3, <2>1 DEF MemoryRight, LiveRight
  <2>3. live' \subseteq [at : DOMAIN hdr', size : Nat \ {0}, by : {"main", "key"}]
    BY <1>4, <2>1 DEF MemoryRight, LiveRight
  <2>4. grown' \subseteq InUse' /\ Limbo' \cap InUse' = {}
    BY <1>1, <1>6, <1>7 DEF MemoryRight, LiveRight
  <2> QED
    BY <2>1, <2>2, <2>3, <2>4 DEF MemoryRight, LiveRight
<1>12. MemoryRight'
  <2>1. \A a \in DOMAIN hdr' : hdr'[a].next \in DOMAIN hdr' \cup {NULL}
    BY <1>2, <1>3, <1>4 DEF MemoryRight
  <2>2. IsFiniteSet(DOMAIN hdr')
    BY <1>4 DEF MemoryRight
  <2> QED
    BY <1>9, <1>10, <1>11, <2>1, <2>2 DEF MemoryRight
<1>13. CallLocals'
  BY <1>1, <1>4, <1>5 DEF CallLocals, InMalloc
<1>14. ListLocals' /\ PageLocals'
  BY <1>1, <1>2, <1>3, <1>4, <1>5 DEF ListLocals, PageLocals
<1> QED
  BY <1>12, <1>13, <1>14 DEF MainRight

\* It becomes the head of the list.
LEMMA PublishKeeps ==
  ASSUME MemoryRight, MainRight, Publish
  PROVE  MemoryRight' /\ MainRight'
<1> DEFINE b == m.old
<1>1. /\ pc = "publish" /\ pc' = "idle" /\ free_list' = b /\ m' = NoLocals
      /\ pages' = pages /\ hdr' = hdr /\ live' = live /\ grown' = grown
  BY DEF Publish, Main, Frame
<1>2. b \in DOMAIN hdr /\ hdr[b].next = free_list
  BY <1>1 DEF MainRight, ListLocals
<1>3. Limbo = {b} /\ Pending = {} /\ Limbo' = {} /\ Pending' = {}
  BY <1>1 DEF Limbo, Pending
<1> HIDE DEF b
<1>4. InUse' = InUse /\ b \notin InUse /\ b \notin OnList
  BY <1>1, <1>3 DEF InUse, OnList, MemoryRight, LiveRight
<1>5. OnList' = OnList \cup {b}
  BY <1>1, <1>2, <1>3, <1>4 DEF OnList
<1>6. FreeIs(hdr, free_list, OnList)'
  <2>1. FreeIs(hdr, free_list, OnList) /\ NULL \notin DOMAIN hdr /\ OnList \subseteq DOMAIN hdr
    BY MemoryFacts DEF MemoryRight
  <2>2. FreeIs(hdr, b, OnList \cup {b})
    BY <1>2, <1>4, <2>1, ListPushed
  <2> QED
    BY <1>1, <1>5, <2>2
<1>7. LiveRight'
  BY <1>1, <1>3, <1>4 DEF MemoryRight, LiveRight
<1>8. MemoryRight'
  BY <1>1, <1>3, <1>6, <1>7 DEF MemoryRight
<1>9. m' \in [size : Nat, blk : DOMAIN hdr \cup {NULL}, tmp : Nat, loaded : Nat,
              page : 0 .. Len(pages), old : Nat]
  BY <1>1, MainFacts DEF NoLocals, NULL
<1>10. CallLocals'
  BY <1>1, <1>9 DEF CallLocals, InMalloc
<1>11. ListLocals' /\ PageLocals'
  BY <1>1 DEF ListLocals, PageLocals
<1> QED
  BY <1>8, <1>10, <1>11 DEF MainRight

\* realloc: a block that is too small stays where it is and is recorded as
\* grown; one that is large enough is left to malloc and free.
LEMMA ReallocKeeps ==
  ASSUME MemoryRight, MainRight, Realloc
  PROVE  MemoryRight' /\ MainRight'
<1>1. PICK b \in live, size \in Sizes :
        IF hdr[b.at].actual < size
        THEN /\ hdr' = [hdr EXCEPT ![b.at].size = size]
             /\ live' = (live \ {b}) \cup {[b EXCEPT !.size = size]}
             /\ grown' = grown \cup {b.at}
             /\ UNCHANGED <<pages, free_list, pc, m>>
        ELSE /\ Cardinality(live) < MaxLive
             /\ m' = [NoLocals EXCEPT !.size = size, !.old = b.at]
             /\ pc' = "list"
             /\ UNCHANGED <<heap, grown>>
  BY DEF Realloc
<1>2. pc = "idle" /\ Limbo = {} /\ Pending = {}
  BY DEF Realloc, Main, Limbo, Pending
<1>3. size \in Nat \ {0}
  BY HeapAssumption
<1>4. b.at \in InUse /\ b.at \in DOMAIN hdr /\ b.at \in Nat
  BY MainFacts DEF InUse
<1>5. CASE hdr[b.at].actual < size
  <2> DEFINE c == [b EXCEPT !.size = size]
  <2>1. /\ hdr' = WithSize(hdr, b.at, size) /\ live' = (live \ {b}) \cup {c}
        /\ grown' = grown \cup {b.at}
        /\ pages' = pages /\ free_list' = free_list /\ pc' = pc /\ m' = m
    BY <1>1, <1>5 DEF WithSize
  <2>2. /\ c \in [at : DOMAIN hdr, size : Nat \ {0}, by : {"main", "key"}]
        /\ c.at = b.at
    <3>1. b \in [at : DOMAIN hdr, size : Nat \ {0}, by : {"main", "key"}]
      BY DEF MemoryRight, LiveRight
    <3> QED
      BY <1>3, <3>1
  <2> HIDE DEF c
  <2>3. /\ hdr' \in [DOMAIN hdr -> Headers]
        /\ \A a \in DOMAIN hdr : hdr'[a].actual = hdr[a].actual /\ hdr'[a].next = hdr[a].next
    BY <1>3, <1>4, <2>1, Sized, MemoryFacts
  <2>4. DOMAIN hdr' = DOMAIN hdr /\ Limbo' = {} /\ Pending' = {}
    BY <1>2, <2>1, <2>3 DEF Limbo, Pending
  <2>5. InUse' = InUse
    <3>1. \A x \in live' : x.at \in InUse
      BY <1>4, <2>1, <2>2 DEF InUse
    <3>2. \A x \in live : \E y \in live' : y.at = x.at
      BY <2>1, <2>2
    <3> QED
      BY <3>1, <3>2 DEF InUse
  <2>6. OnList' = OnList
    BY <1>2, <2>4, <2>5 DEF OnList
  <2>7. Space(pages, hdr, Pending)'
    <3>1. Space(pages, hdr, {})
      BY <1>2 DEF MemoryRight
    <3>2. Space(pages, hdr', {})
      BY <2>3, <3>1, SpaceKept
    <3> QED
      BY <2>1, <2>4, <3>2
  <2>8. FreeIs(hdr, free_list, OnList)'
    <3>1. FreeIs(hdr, free_list, OnList) /\ OnList \subseteq DOMAIN hdr
      BY MemoryFacts DEF MemoryRight
    <3>2. FreeIs(hdr', free_list, OnList)
      BY <2>3, <2>4, <3>1, ListKept
    <3> QED
      BY <2>1, <2>6, <3>2
  <2>9. LiveRight'
    <3>1. \A x \in live' : x = c \/ (x \in live /\ x # b)
      BY <2>1
    <3>2. \A x, y \in live : x.at = y.at => x = y
      BY DEF MemoryRight, LiveRight
    <3>3. \A x, y \in live' : x.at = y.at => x = y
      BY <2>2, <3>1, <3>2
    <3>4. \A x \in live : x \in [at : DOMAIN hdr, size : Nat \ {0}, by : {"main", "key"}]
      BY DEF MemoryRight, LiveRight
    <3>5. live' \subseteq [at : DOMAIN hdr', size : Nat \ {0}, by : {"main", "key"}]
      BY <2>2, <2>4, <3>1, <3>4
    <3>6. \A x \in live' : x.size <= hdr'[x.at].actual \/ x.at \in grown'
      <4>1. \A x \in live : x.at \in DOMAIN hdr /\ (x.size <= hdr[x.at].actual \/ x.at \in grown)
        BY <3>4 DEF MemoryRight, LiveRight
      <4> QED
        BY <2>1, <2>2, <2>3, <3>1, <4>1
    <3>7. grown' \subseteq InUse' /\ Limbo' \cap InUse' = {}
      BY <1>4, <2>1, <2>4, <2>5 DEF MemoryRight, LiveRight
    <3> QED
      BY <3>3, <3>5, <3>6, <3>7 DEF LiveRight
  <2>10. MemoryRight'
    <3>1. \A a \in DOMAIN hdr' : hdr'[a].next \in DOMAIN hdr' \cup {NULL}
      BY <2>3, <2>4 DEF MemoryRight
    <3>2. IsFiniteSet(DOMAIN hdr')
      BY <2>4 DEF MemoryRight
    <3> QED
      BY <2>7, <2>8, <2>9, <3>1, <3>2 DEF MemoryRight
  <2>11. CallLocals'
    BY <1>2, <2>1, <2>4, <2>5 DEF MainRight, CallLocals, InMalloc
  <2>12. ListLocals' /\ PageLocals'
    BY <1>2, <2>1 DEF ListLocals, PageLocals
  <2> QED
    BY <2>10, <2>11, <2>12 DEF MainRight
<1>6. CASE ~(hdr[b.at].actual < size)
  <2>1. /\ m' = [NoLocals EXCEPT !.size = size, !.old = b.at]
        /\ pc' = "list" /\ UNCHANGED heap /\ UNCHANGED grown
    BY <1>1, <1>6
  <2>2. Limbo' = Limbo /\ Pending' = Pending
    BY <1>2, <2>1 DEF Limbo, Pending
  <2>3. MemoryRight' /\ InUse' = InUse
    BY <2>1, <2>2, MemoryKept
  <2>4. pages' = pages /\ hdr' = hdr
    BY <2>1 DEF heap
  <2>5. /\ m' \in [size : Nat, blk : DOMAIN hdr \cup {NULL}, tmp : Nat, loaded : Nat,
                   page : 0 .. Len(pages), old : Nat]
        /\ m'.size = size /\ m'.old = b.at
    <3>1. m' = [size |-> size, blk |-> NULL, tmp |-> NULL, loaded |-> NULL,
                page |-> 0, old |-> b.at]
      BY <2>1 DEF NoLocals
    <3> QED
      BY <1>3, <1>4, <3>1, MainFacts DEF NULL
  <2>6. CallLocals'
    BY <1>3, <1>4, <2>1, <2>3, <2>4, <2>5 DEF CallLocals, InMalloc
  <2>7. ListLocals' /\ PageLocals'
    BY <2>1 DEF ListLocals, PageLocals
  <2> QED
    BY <2>3, <2>6, <2>7 DEF MainRight
<1> QED
  BY <1>5, <1>6

-----------------------------------------------------------------------------
(* The invariant                                                           *)

\* The heap as the kernel starts: no page, no block, no call.
LEMMA HeapStarts == Init => IInv
<1> SUFFICES ASSUME Init
             PROVE  IInv
  OBVIOUS
<1>1. /\ pages = << >> /\ hdr = << >> /\ free_list = NULL /\ live = {} /\ grown = {}
      /\ pc = "idle" /\ m = NoLocals
  BY DEF Init
<1>2. DOMAIN hdr = {} /\ Len(pages) = 0
  BY <1>1
<1>3. InUse = {} /\ Limbo = {} /\ Pending = {} /\ OnList = {}
  BY <1>1, <1>2 DEF InUse, Limbo, Pending, OnList
<1>4. Space(pages, hdr, Pending)
  <2>1. PagesRight(pages)
    BY <1>1, <1>2 DEF PagesRight
  <2>2. DOMAIN hdr \subseteq Nat /\ hdr \in [DOMAIN hdr -> Headers]
    BY <1>1, <1>2
  <2>3. BlocksPlaced(pages, hdr, Pending)
    BY <1>2, <1>3 DEF BlocksPlaced
  <2> QED
    BY <1>2, <2>1, <2>2, <2>3 DEF Space
<1>5. FreeIs(hdr, free_list, OnList)
  <2> DEFINE list == [i \in 1 .. 0 |-> NULL]
  <2>1. list \in [1 .. 0 -> DOMAIN hdr]
    OBVIOUS
  <2>2. Chained(hdr, free_list, list, 0)
    BY <1>1, <2>1 DEF Chained, At
  <2>3. OnList = {list[i] : i \in 1 .. 0}
    BY <1>3
  <2> QED
    BY <2>1, <2>2, <2>3 DEF FreeIs
<1>6. LiveRight
  BY <1>1, <1>3 DEF LiveRight
<1>7. IsFiniteSet(DOMAIN hdr)
  BY <1>2, FS_EmptySet
<1>8. MemoryRight
  BY <1>2, <1>4, <1>5, <1>6, <1>7 DEF MemoryRight
<1>9. CallLocals
  BY <1>1, <1>2 DEF CallLocals, InMalloc, NoLocals, NULL
<1>10. ListLocals /\ PageLocals
  BY <1>1 DEF ListLocals, PageLocals
<1> QED
  BY <1>8, <1>9, <1>10, TypesFollow DEF IInv, MainRight

\* A step of main leaves memory and its own place right.
LEMMA MainStep ==
  ASSUME MemoryRight, MainRight, MainNext
  PROVE  MemoryRight' /\ MainRight'
<1>1. CASE Malloc
  BY <1>1, MallocKeeps
<1>2. CASE FirstPage
  BY <1>2, FirstPageKeeps
<1>3. CASE List
  BY <1>3, ListKeeps
<1>4. CASE Pop
  BY <1>4, PopKeeps
<1>5. CASE Popped
  BY <1>5, PoppedKeeps
<1>6. CASE Walk
  BY <1>6, TurnKeeps
<1>7. CASE Found
  BY <1>7, FoundKeeps
<1>8. CASE Unlink
  BY <1>8, UnlinkKeeps
<1>9. CASE ChoosePage
  BY <1>9, ChoosePageKeeps
<1>10. CASE AddPage
  BY <1>10, AddPageKeeps
<1>11. CASE Carve
  BY <1>11, CarveKeeps
<1>12. CASE Count
  BY <1>12, CountKeeps
<1>13. CASE Counted
  BY <1>13, CountedKeeps
<1>14. CASE Free
  BY <1>14, FreeKeeps
<1>15. CASE Link
  BY <1>15, LinkKeeps
<1>16. CASE Publish
  BY <1>16, PublishKeeps
<1>17. CASE Realloc
  BY <1>17, ReallocKeeps
<1> QED
  BY <1>1, <1>2, <1>3, <1>4, <1>5, <1>6, <1>7, <1>8, <1>9, <1>10, <1>11, <1>12, <1>13,
     <1>14, <1>15, <1>16, <1>17 DEF MainNext, Mallocs

\* The step that leaves everything as it is.
LEMMA NothingHappens == IInv /\ UNCHANGED vars => IInv'
<1> SUFFICES ASSUME IInv, UNCHANGED vars
             PROVE  IInv'
  OBVIOUS
<1>1. /\ pages' = pages /\ hdr' = hdr /\ free_list' = free_list /\ live' = live
      /\ grown' = grown /\ pc' = pc /\ m' = m /\ spoiled' = spoiled
  BY DEF vars, heap
<1>2. HeapTypeOK'
  BY <1>1 DEF IInv, HeapTypeOK
<1>3. ASSUME ~spoiled
      PROVE  MemoryRight' /\ MainRight'
  <2>1. MemoryRight /\ MainRight
    BY <1>3 DEF IInv
  <2>2. Pending' = Pending /\ Limbo' = Limbo
    BY <1>1 DEF Pending, Limbo
  <2>3. MemoryRight' /\ OnList' = OnList /\ InUse' = InUse
    BY <1>1, <2>1, <2>2, MemoryKept DEF heap
  <2>4. CallLocals'
    BY <1>1, <2>1, <2>3 DEF MainRight, CallLocals
  <2>5. ListLocals'
    BY <1>1, <2>1, <2>3 DEF MainRight, ListLocals
  <2>6. PageLocals'
    BY <1>1, <2>1 DEF MainRight, PageLocals, Fits, Room, Edge
  <2> QED
    BY <2>3, <2>4, <2>5, <2>6 DEF MainRight
<1> QED
  BY <1>1, <1>2, <1>3 DEF IInv

\* Once a key has taken what main was about to use, no step follows.
LEMMA HeapStep == IInv /\ [Next]_vars => IInv'
<1> SUFFICES ASSUME IInv, [Next]_vars
             PROVE  IInv'
  OBVIOUS
<1>1. (MemoryRight /\ CallLocals => HeapTypeOK)'
  BY TypesFollow, PTL
<1>2. CASE MainNext
  <2>1. ~spoiled
    BY <1>2 DEF MainNext, Mallocs, Malloc, FirstPage, List, Pop, Popped, Walk, Found, Unlink,
                ChoosePage, AddPage, Carve, Count, Counted, Free, Link, Publish, Realloc, Main
  <2>2. MemoryRight' /\ MainRight'
    BY <1>2, <2>1, MainStep DEF IInv
  <2> QED
    BY <1>1, <2>2 DEF IInv, MainRight
<1>3. CASE Key
  <2>1. ~spoiled
    BY <1>3 DEF Key
  <2> QED
    BY <1>3, <2>1, KeyKeeps DEF IInv
<1>4. CASE UNCHANGED vars
  BY <1>4, NothingHappens
<1> QED
  BY <1>2, <1>3, <1>4 DEF Next

\* The invariant of the heap.
LEMMA HeapInvariant == Spec => []IInv
  BY HeapStarts, HeapStep, PTL DEF Spec

\* HeapTypeOK: every address malloc, free and realloc follow is that of a
\* header that was written, and no page counts more than its size.
THEOREM HeapTypes == Spec => []HeapTypeOK
<1>1. IInv => HeapTypeOK
  BY DEF IInv
<1> QED
  BY <1>1, HeapInvariant, PTL

\* BlocksApart: what malloc gave to main and to the keyboard interrupt never
\* overlaps, and is as large as was asked for unless realloc grew it.
THEOREM BlocksStayApart == Spec => []BlocksApart
<1>1. IInv => BlocksApart
  <2> SUFFICES ASSUME IInv, ~spoiled
               PROVE  /\ \A x, y \in live : x # y => EndOf(x.at) <= y.at \/ EndOf(y.at) <= x.at
                      /\ \A x \in live : x.size <= hdr[x.at].actual \/ x.at \in grown
    BY DEF BlocksApart
  <2>1. MemoryRight
    BY DEF IInv
  <2>2. \A x, y \in DOMAIN hdr : x # y => Behind(hdr, x) <= y \/ Behind(hdr, y) <= x
    BY <2>1 DEF MemoryRight, Space, BlocksPlaced
  <2>3. \A x \in live : x.at \in DOMAIN hdr /\ EndOf(x.at) = Behind(hdr, x.at)
    BY <2>1 DEF MemoryRight, LiveRight, EndOf, Behind
  <2>4. \A x, y \in live : x # y => x.at # y.at
    BY <2>1 DEF MemoryRight, LiveRight
  <2>5. \A x \in live : x.size <= hdr[x.at].actual \/ x.at \in grown
    BY <2>1 DEF MemoryRight, LiveRight
  <2> QED
    BY <2>2, <2>3, <2>4, <2>5
<1> QED
  BY <1>1, HeapInvariant, PTL

\* PagesTiled: the blocks malloc carves fill every page from its header to
\* used_size, without a gap and without counting one twice.
THEOREM PagesStayTiled == Spec => []PagesTiled
<1>1. IInv => PagesTiled
  <2> SUFFICES ASSUME IInv, ~spoiled, NEW p \in DOMAIN pages
               PROVE  LET start == pages[p].base + PageHeader
                          end == pages[p].base + pages[p].used
                          blocks == {b \in DOMAIN hdr : b \in start .. end - 1}
                      IN  {start} \cup {EndOf(b) : b \in blocks} = blocks \cup {end}
    BY DEF PagesTiled
  <2>1. MemoryRight
    BY DEF IInv
  <2>2. p \in 1 .. Len(pages) /\ Tiled(pages, hdr, p)
    BY <2>1 DEF MemoryRight, Space, PagesRight
  <2> QED
    BY <2>2, Zenon DEF Tiled, Start, Edge, Behind, EndOf
<1> QED
  BY <1>1, HeapInvariant, PTL

\* NothingLost: between two calls a block is in use or once on the free list.
THEOREM NothingIsLost == Spec => []NothingLost
<1>1. IInv => NothingLost
  <2> SUFFICES ASSUME IInv, pc = "idle", ~spoiled
               PROVE  LET used == {b.at : b \in live}
                          free == {FreeList[i] : i \in DOMAIN FreeList}
                      IN  /\ used \cup free = DOMAIN hdr /\ used \cap free = {}
                          /\ Cardinality(free) = Len(FreeList)
    BY DEF NothingLost
  <2>1. MemoryRight /\ Limbo = {}
    BY DEF IInv, Limbo, Pending
  <2>2. PICK len \in Nat : \E l \in [1 .. len -> DOMAIN hdr] :
                              Chained(hdr, free_list, l, len) /\ OnList = {l[i] : i \in 1 .. len}
    BY <2>1 DEF MemoryRight, FreeIs
  <2>3. PICK list \in [1 .. len -> DOMAIN hdr] :
          Chained(hdr, free_list, list, len) /\ OnList = {list[i] : i \in 1 .. len}
    BY <2>2
  <2>4. FreeList = list
    <3>1. IsFiniteSet(DOMAIN hdr) /\ NULL \notin DOMAIN hdr
      BY <2>1, MemoryFacts DEF MemoryRight
    <3> QED
      BY <2>3, <3>1, WalkFinds
  <2>5. DOMAIN FreeList = 1 .. len /\ {FreeList[i] : i \in DOMAIN FreeList} = OnList
    BY <2>3, <2>4
  <2>6. Len(FreeList) = len
    <3>1. list \in Seq(DOMAIN hdr)
      BY <2>3
    <3> QED
      BY <2>4, <2>5, <3>1, LenProperties
  <2>7. Cardinality(OnList) = len
    <3>1. \A i, j \in 1 .. len : list[i] = list[j] => i = j
      BY <2>3 DEF Chained
    <3>2. list \in [1 .. len -> OnList] /\ \A x \in OnList : \E i \in 1 .. len : list[i] = x
      BY <2>3
    <3>3. list \in Surjection(1 .. len, OnList) /\ list \in Injection(1 .. len, OnList)
      BY <3>1, <3>2 DEF Injection, IsInjective, Surjection
    <3>4. IsFiniteSet(1 .. len) /\ Cardinality(1 .. len) = len
      BY FS_Interval
    <3> QED
      BY <3>3, <3>4, FS_Surjection
  <2>8. InUse \cup OnList = DOMAIN hdr /\ InUse \cap OnList = {}
    BY <2>1, MemoryFacts DEF OnList
  <2> QED
    BY <2>5, <2>6, <2>7, <2>8, Zenon DEF InUse
<1> QED
  BY <1>1, HeapInvariant, PTL
=============================================================================
