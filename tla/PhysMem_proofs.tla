--------------------------- MODULE PhysMem_proofs ---------------------------
(***************************************************************************)
(* Proofs about the physical memory manager, for every word size, every    *)
(* machine and every length of request.                                    *)
(***************************************************************************)
EXTENDS PhysMem, FiniteSetTheorems, TLAPS

\* x % UintMod is a uint32_t.
LEMMA U32Type ==
  ASSUME NEW x \in Int
  PROVE  U32(x) \in 0 .. UintMod - 1
BY UnitsAssumption DEF U32

\* Rounding down to a multiple never goes up.
LEMMA RoundDown ==
  ASSUME NEW a \in Nat, NEW w \in Nat \ {0}
  PROVE  /\ a \div w \in Nat
         /\ (a \div w) * w \in Nat
         /\ (a \div w) * w <= a
OBVIOUS

\* The size of a machine in blocks is a natural number.
LEMMA BlockCountType ==
  ASSUME NEW l \in Layouts
  PROVE  /\ TotalMemory(l) \in Nat
         /\ BlockCount(l) \in Nat
         /\ MapBytes(l) \in Nat
<1> DEFINE last == l.regions[Len(l.regions)]
<1>1. last \in [begin : Nat, length : Nat, type : Nat]
  <2> DEFINE S == [begin : Nat, length : Nat, type : Nat]
  <2>1. l.regions \in Seq(S) /\ l.regions # << >>
    BY LayoutsAssumption
  <2> HIDE DEF S
  <2>2. Len(l.regions) \in DOMAIN l.regions /\ l.regions \in [DOMAIN l.regions -> S]
    BY <2>1
  <2>3. l.regions[Len(l.regions)] \in S
    BY <2>2
  <2> QED
    BY <2>3 DEF S
<1>2. TotalMemory(l) \in Nat
  BY <1>1, UnitsAssumption DEF TotalMemory, U32
<1>3. BlockCount(l) \in Nat
  BY <1>2, UnitsAssumption, RoundDown DEF BlockCount
<1>4. MapBytes(l) \in Nat
  BY <1>3, UnitsAssumption, RoundDown DEF MapBytes
<1> QED
  BY <1>2, <1>3, <1>4

\* What the scan returns: a block past the first word and inside the bitmap,
\* with as many 0 bits from there on as were asked for.
LEMMA CandidateFacts ==
  ASSUME NEW map, NEW max \in Nat, NEW n, NEW b \in Candidates(map, max, n)
  PROVE  /\ b \in Nat
         /\ WordBits <= b
         /\ b < max
         /\ n > 0
         /\ Run(b, n) \cap map = {}
<1> DEFINE top == (max \div WordBits) * WordBits
<1>1. top \in Nat /\ top <= max
  BY RoundDown, WordBitsAssumption
<1>2. b \in WordBits .. top - 1 /\ n > 0 /\ Run(b, n) \cap map = {}
  BY DEF Candidates
<1> QED
  BY <1>1, <1>2, WordBitsAssumption

-----------------------------------------------------------------------------
(* The inductive invariant: types, exclusive ownership, and the fact that  *)
(* the runs stay within the bits the scan can see.                         *)

RunsInside == \A r \in held : r[1] >= WordBits /\ r[1] < max_blocks

IInv == /\ TypeOK
        /\ max_blocks = BlockCount(layout)
        /\ RunsInside
        /\ HeldExclusively

\* Boot leaves a counter that is a uint32_t.
LEMMA BootUsedType ==
  ASSUME NEW l \in Layouts
  PROVE  BootUsed(l) \in 0 .. UintMod - 1
<1> DEFINE avail == AvailableRegions(l)
           range == 0 .. 2 * UintMod
           unset == {p \in avail \X range :
                       p[2] \in BlocksOf(l.regions[p[1]].begin, l.regions[p[1]].length)}
           set   == {p \in (1 .. 3) \X range : p[2] \in ReservedCalls(l)[p[1]]}
<1>1. IsFiniteSet(avail)
  <2>1. DOMAIN l.regions = 1 .. Len(l.regions) /\ Len(l.regions) \in Nat
    BY LayoutsAssumption
  <2>2. IsFiniteSet(1 .. Len(l.regions))
    BY <2>1, FS_Interval
  <2> QED
    BY <2>1, <2>2, FS_Subset DEF AvailableRegions
<1>2. IsFiniteSet(range) /\ IsFiniteSet(1 .. 3)
  <2>1. 0 \in Int /\ 1 \in Int /\ 3 \in Int /\ 2 * UintMod \in Int
    BY UnitsAssumption
  <2> QED
    BY <2>1, FS_Interval
<1>3. IsFiniteSet(unset)
  BY <1>1, <1>2, FS_Product, FS_Subset
<1>4. IsFiniteSet(set)
  BY <1>2, FS_Product, FS_Subset
<1>5. /\ Cardinality(avail) \in Nat
      /\ Cardinality(unset) \in Nat
      /\ Cardinality(set) \in Nat
  BY <1>1, <1>3, <1>4, FS_CardinalityType
<1>6. BootUsed(l) = U32(BlockCount(l) - Cardinality(unset) - Cardinality(avail)
                          - Cardinality(set))
  BY DEF BootUsed
<1> HIDE DEF avail, unset, set
<1> QED
  BY <1>5, <1>6, BlockCountType, U32Type

\* At boot no run is out.
LEMMA InitIInv == Init => IInv
<1> SUFFICES ASSUME Init PROVE IInv
  OBVIOUS
<1>1. layout \in Layouts /\ max_blocks = BlockCount(layout) /\ held = {}
  BY DEF Init
<1>2. max_blocks \in Nat /\ used_blocks \in 0 .. UintMod - 1
  BY <1>1, BlockCountType, BootUsedType DEF Init
<1>3. memory_map \in SUBSET Int
  <2>1. PICK rest \in SUBSET {b \in Bits : b >= max_blocks - ByteBits} :
              memory_map = BootMap(layout, rest)
    BY DEF Init
  <2>2. Reserved(layout) \subseteq Int
    <3>1. \A x, y : BlocksOf(x, y) \subseteq Int
      BY DEF BlocksOf, Run
    <3>2. \A i \in 1 .. 3 : ReservedCalls(layout)[i] \subseteq Int
      BY <3>1 DEF ReservedCalls
    <3> QED
      BY <3>2 DEF Reserved
  <2>3. rest \subseteq Int
    BY DEF Bits
  <2> DEFINE set == MapBytes(layout) * ByteBits
  <2>4. memory_map = (((0 .. set - 1) \cup {b \in rest : b >= set})
                        \ Available(layout)) \cup Reserved(layout)
    BY <2>1 DEF BootMap
  <2>5. (0 .. set - 1) \subseteq Int
    OBVIOUS
  <2> QED
    BY <2>2, <2>3, <2>4, <2>5, Zenon
<1>4. reply \in [asked : 0 .. MaxRequest, base : Nat]
  BY MaxRequestAssumption DEF Init, NULL
<1>5. HeldBlocks = {}
  BY <1>1 DEF HeldBlocks
<1> QED
  BY <1>1, <1>2, <1>3, <1>4, <1>5 DEF IInv, TypeOK, RunsInside, HeldExclusively

\* allocate_blocks hands out nothing that anybody has.
LEMMA AllocateIInv ==
  ASSUME IInv, NEW n \in 0 .. MaxRequest, AllocateBlocks(n)
  PROVE  IInv'
<1>1. PICK b \in Candidates(memory_map, max_blocks, n) :
        /\ memory_map' = memory_map \cup Run(b, n)
        /\ used_blocks' = U32(used_blocks + n)
        /\ held' = held \cup {<<b, n>>}
        /\ reply' = [asked |-> n, base |-> b]
  BY DEF AllocateBlocks
<1>2. layout' = layout /\ max_blocks' = max_blocks
  BY DEF AllocateBlocks
<1>3. /\ b \in Nat /\ WordBits <= b /\ b < max_blocks /\ n > 0
      /\ Run(b, n) \cap memory_map = {}
  BY CandidateFacts DEF IInv, TypeOK
<1>4. TypeOK'
  <2>1. memory_map' \in SUBSET Int
    <3>1. Run(b, n) \subseteq Int
      BY DEF Run
    <3>2. memory_map \subseteq Int
      BY DEF IInv, TypeOK
    <3> QED
      BY <1>1, <3>1, <3>2
  <2>2. used_blocks' \in 0 .. UintMod - 1
    BY <1>1, U32Type, UnitsAssumption, MaxRequestAssumption DEF IInv, TypeOK
  <2>3. held' \subseteq Nat \X (1 .. MaxRequest)
    BY <1>1, <1>3, MaxRequestAssumption DEF IInv, TypeOK
  <2> QED
    BY <1>1, <1>2, <1>3, <2>1, <2>2, <2>3 DEF IInv, TypeOK
<1>5. RunsInside'
  BY <1>1, <1>2, <1>3 DEF IInv, RunsInside
<1>6. HeldBlocks' = HeldBlocks \cup Run(b, n)
  <2>1. HeldBlocks' = UNION {Run(r[1], r[2]) : r \in held \cup {<<b, n>>}}
    BY <1>1 DEF HeldBlocks
  <2>2. <<b, n>>[1] = b /\ <<b, n>>[2] = n
    OBVIOUS
  <2> QED
    BY <2>1, <2>2, Zenon DEF HeldBlocks
<1>7. HeldExclusively'
  <2>1. \A r \in held : Run(r[1], r[2]) \cap Run(b, n) = {}
    BY <1>3 DEF IInv, HeldExclusively, HeldBlocks
  <2>2. \A r, s \in held' : r # s => Run(r[1], r[2]) \cap Run(s[1], s[2]) = {}
    BY <1>1, <2>1 DEF IInv, HeldExclusively
  <2>3. HeldBlocks' \subseteq memory_map'
    BY <1>1, <1>6 DEF IInv, HeldExclusively
  <2> QED
    BY <2>2, <2>3 DEF HeldExclusively
<1> QED
  BY <1>2, <1>4, <1>5, <1>7 DEF IInv

\* free_blocks gives up the blocks of one run and no others.
LEMMA FreeIInv ==
  ASSUME IInv, NEW r \in held, FreeBlocks(r)
  PROVE  IInv'
<1>1. /\ memory_map' = (memory_map \ Run(r[1], r[2])) \cup {0}
      /\ used_blocks' = U32(used_blocks - r[2])
      /\ held' = held \ {r}
      /\ reply' = [asked |-> 0, base |-> NULL]
      /\ layout' = layout /\ max_blocks' = max_blocks
  BY DEF FreeBlocks
<1>2. r[2] \in Int
  BY DEF IInv, TypeOK
<1>3. TypeOK'
  <2>1. used_blocks' \in 0 .. UintMod - 1
    BY <1>1, <1>2, U32Type, UnitsAssumption DEF IInv, TypeOK
  <2>2. memory_map' \subseteq Int
    <3>1. memory_map \subseteq Int /\ {0} \subseteq Int
      BY DEF IInv, TypeOK
    <3> QED
      BY <1>1, <3>1
  <2>4. held' \subseteq Nat \X (1 .. MaxRequest)
    BY <1>1 DEF IInv, TypeOK
  <2>3. reply' \in [asked : 0 .. MaxRequest, base : Nat]
    BY <1>1, MaxRequestAssumption DEF NULL
  <2> QED
    BY <1>1, <2>1, <2>2, <2>3, <2>4 DEF IInv, TypeOK
<1>4. RunsInside'
  BY <1>1 DEF IInv, RunsInside
<1>5. HeldExclusively'
  <2>1. \A s, t \in held' : s # t => Run(s[1], s[2]) \cap Run(t[1], t[2]) = {}
    BY <1>1 DEF IInv, HeldExclusively
  <2>2. \A s \in held' : Run(s[1], s[2]) \subseteq memory_map'
    <3> SUFFICES ASSUME NEW s \in held'
                 PROVE  Run(s[1], s[2]) \subseteq memory_map'
      OBVIOUS
    <3>1. s \in held /\ s # r
      BY <1>1
    <3>2. Run(s[1], s[2]) \subseteq memory_map
      BY <3>1 DEF IInv, HeldExclusively, HeldBlocks
    <3>3. Run(s[1], s[2]) \cap Run(r[1], r[2]) = {}
      BY <3>1 DEF IInv, HeldExclusively
    <3> QED
      BY <1>1, <3>2, <3>3
  <2> QED
    BY <2>1, <2>2 DEF HeldExclusively, HeldBlocks
<1> QED
  BY <1>1, <1>3, <1>4, <1>5 DEF IInv

\* Every call keeps the invariant.
LEMMA StepIInv == IInv /\ [Next]_vars => IInv'
<1> SUFFICES ASSUME IInv, [Next]_vars PROVE IInv'
  OBVIOUS
<1>1. CASE \E n \in 0 .. MaxRequest : AllocateBlocks(n)
  BY <1>1, AllocateIInv
<1>2. ASSUME NEW n \in 0 .. MaxRequest, AllocateBlocksFails(n) PROVE IInv'
  <2>1. UNCHANGED <<layout, max_blocks, memory_map, used_blocks, held>>
        /\ reply' = [asked |-> n, base |-> NULL]
    BY <1>2 DEF AllocateBlocksFails
  <2>2. reply' \in [asked : 0 .. MaxRequest, base : Nat]
    BY <2>1 DEF NULL
  <2> QED
    BY <2>1, <2>2 DEF IInv, TypeOK, RunsInside, HeldExclusively, HeldBlocks
<1>3. CASE \E r \in held : FreeBlocks(r)
  BY <1>3, FreeIInv
<1>4. CASE UNCHANGED vars
  BY <1>4 DEF vars, IInv, TypeOK, RunsInside, HeldExclusively, HeldBlocks
<1> QED
  BY <1>1, <1>2, <1>3, <1>4 DEF Next

\* Every variable keeps its type: in particular the counter stays a uint32_t
\* and what callers hold are runs of 1 .. MaxRequest blocks.
THEOREM TypeCorrect == Spec => []TypeOK
<1>1. IInv => TypeOK
  BY DEF IInv
<1> QED
  BY <1>1, InitIInv, StepIInv, PTL DEF Spec

\* allocate_blocks never gives two callers the same block, and a block that
\* a caller has is marked in the bitmap, whatever was allocated and freed in
\* between and whatever the filter of the scan skipped.
THEOREM ExclusiveOwnership == Spec => []HeldExclusively
<1>1. IInv => HeldExclusively
  BY DEF IInv
<1> QED
  BY <1>1, InitIInv, StepIInv, PTL DEF Spec

-----------------------------------------------------------------------------
(* The manager implements the pool of blocks.                              *)

\* Block 0 is marked at boot and every free_blocks marks it again.
LEMMA ZeroMarked == Spec => [](0 \in memory_map)
<1>1. Init => 0 \in memory_map
  <2> SUFFICES ASSUME Init PROVE 0 \in memory_map
    OBVIOUS
  <2>1. U32(0) = 0 /\ U32(BlockSize) = BlockSize
    BY UnitsAssumption DEF U32
  <2>2. 0 \div BlockSize = 0 /\ BlockSize \div BlockSize = 1
    BY UnitsAssumption
  <2>3. 0 \in BlocksOf(0, BlockSize)
    BY <2>1, <2>2 DEF BlocksOf, Run
  <2>4. 0 \in Reserved(layout)
    BY <2>3 DEF Reserved, ReservedCalls
  <2> QED
    BY <2>4 DEF Init, BootMap
<1>2. 0 \in memory_map /\ [Next]_vars => (0 \in memory_map)'
  BY DEF Next, AllocateBlocks, AllocateBlocksFails, FreeBlocks, vars
<1> QED
  BY <1>1, <1>2, PTL DEF Spec

\* A run that lies where the scan stops, or that somebody has, is among Bits.
LEMMA RunInBits ==
  ASSUME IInv, NEW b \in Nat, NEW n \in 1 .. MaxRequest, b < max_blocks
  PROVE  Run(b, n) \subseteq Bits
<1>1. max_blocks + MaxRequest <= MapBits /\ max_blocks \in Nat /\ MapBits \in Nat
  BY MapBitsAssumption DEF IInv, TypeOK
<1> QED
  BY <1>1, MaxRequestAssumption DEF Run, Bits

\* A call is an acquire, a release or a stutter of the pool.
LEMMA StepImplementsPool ==
  IInv /\ 0 \in memory_map /\ [Next]_vars => [Pool!PoolNext]_<<Bits \ memory_map, held>>
<1> SUFFICES ASSUME IInv, 0 \in memory_map, [Next]_vars
             PROVE  [Pool!PoolNext]_<<Bits \ memory_map, held>>
  OBVIOUS
<1>1. ASSUME NEW n \in 0 .. MaxRequest, AllocateBlocks(n) PROVE Pool!PoolNext
  <2>1. PICK b \in Candidates(memory_map, max_blocks, n) :
          /\ memory_map' = memory_map \cup Run(b, n)
          /\ held' = held \cup {<<b, n>>}
    BY <1>1 DEF AllocateBlocks
  <2>2. /\ b \in Nat /\ b < max_blocks /\ n \in 1 .. MaxRequest
        /\ Run(b, n) \cap memory_map = {}
    BY CandidateFacts, MaxRequestAssumption DEF IInv, TypeOK
  <2>3. Run(b, n) \subseteq Bits
    BY <2>2, RunInBits
  <2>4. b \in Bits /\ Pool!Span(<<b, n>>) = Run(b, n)
    BY <2>2, <2>3 DEF Run, Pool!Span
  <2>5. Pool!Acquire(n)
    BY <2>1, <2>2, <2>3, <2>4 DEF Pool!Acquire
  <2> QED
    BY <2>2, <2>5 DEF Pool!PoolNext
<1>2. ASSUME NEW n \in 0 .. MaxRequest, AllocateBlocksFails(n)
      PROVE  UNCHANGED <<Bits \ memory_map, held>>
  BY <1>2 DEF AllocateBlocksFails
<1>3. ASSUME NEW r \in held, FreeBlocks(r) PROVE Pool!PoolNext
  <2>1. memory_map' = (memory_map \ Run(r[1], r[2])) \cup {0} /\ held' = held \ {r}
    BY <1>3 DEF FreeBlocks
  <2>2. /\ r[1] \in Nat /\ r[2] \in 1 .. MaxRequest
        /\ r[1] >= WordBits /\ r[1] < max_blocks
    BY DEF IInv, TypeOK, RunsInside
  <2>3. Run(r[1], r[2]) \subseteq Bits /\ 0 \notin Run(r[1], r[2])
    BY <2>2, RunInBits, WordBitsAssumption DEF Run
  <2>4. Pool!Span(r) = Run(r[1], r[2])
    BY DEF Run, Pool!Span
  <2>5. Pool!Release(r)
    BY <2>1, <2>3, <2>4 DEF Pool!Release
  <2> QED
    BY <2>5 DEF Pool!PoolNext
<1>4. CASE UNCHANGED vars
  BY <1>4 DEF vars
<1> QED
  BY <1>1, <1>2, <1>3, <1>4 DEF Next

\* Every behaviour of the bitmap, the counter and the scan is a behaviour of
\* the pool: what a call takes is free, what a call gives back becomes free,
\* a failed call takes nothing, and nothing is lost or invented.
THEOREM BitmapImplementsPool == Spec => ImplementsPool
<1>1. Init => Pool!PoolInit
  BY DEF Init, Pool!PoolInit
<1> QED
  BY <1>1, InitIInv, StepIInv, ZeroMarked, StepImplementsPool, PTL
     DEF Spec, ImplementsPool, Pool!PoolSpec, Pool!poolVars

-----------------------------------------------------------------------------
(* Only available memory is handed out.                                    *)

\* The last bit that memset sets, and the blocks callers may have.
Top == MapBytes(layout) * ByteBits - 1
Usable == Available(layout) \ Reserved(layout)

MarkedUnlessUsable == \A b \in 0 .. Top : b \notin Usable => b \in memory_map

\* The whole words of a bitmap end where its whole bytes end, or before.
LEMMA WordsWithinBytes ==
  ASSUME NEW max \in Nat
  PROVE  (max \div WordBits) * WordBits <= (max \div ByteBits) * ByteBits
<1>1. PICK k \in 1 .. WordBits : WordBits = k * ByteBits
  BY MachineAssumption
<1> DEFINE p == (max \div WordBits) * k
           m == max \div ByteBits
<1>2. max \div WordBits \in Nat /\ ByteBits \in Nat \ {0} /\ k \in Nat
      /\ (max \div WordBits) * WordBits <= max
  BY WordBitsAssumption, UnitsAssumption, RoundDown
<1>3. m \in Nat /\ p \in Nat
  BY <1>2, UnitsAssumption, RoundDown
<1>4. (max \div WordBits) * WordBits = p * ByteBits
  BY <1>1, <1>2
<1>5. max < (m + 1) * ByteBits
  BY <1>2
<1>6. p * ByteBits <= max
  BY <1>2, <1>4
<1> HIDE DEF p, m
<1>7. p <= m
  <2> SUFFICES ASSUME p >= m + 1 PROVE FALSE
    BY <1>3
  <2>1. p * ByteBits >= (m + 1) * ByteBits
    BY <1>2, <1>3
  <2> QED
    BY <1>2, <1>3, <1>5, <1>6, <2>1
<1>8. p * ByteBits <= m * ByteBits
  BY <1>2, <1>3, <1>7
<1> QED
  BY <1>4, <1>8 DEF m

\* At boot whatever is not usable is marked.
LEMMA InitAvailable == Init => HandedOutIsAvailable /\ MarkedUnlessUsable
<1> SUFFICES ASSUME Init PROVE HandedOutIsAvailable /\ MarkedUnlessUsable
  OBVIOUS
<1>1. PICK rest : memory_map = BootMap(layout, rest)
  BY DEF Init
<1>2. MarkedUnlessUsable
  BY <1>1 DEF BootMap, MarkedUnlessUsable, Usable, Top
<1> QED
  BY <1>2 DEF Init, HandedOutIsAvailable, HeldBlocks

\* A run of 0 bits that starts in the whole words cannot get past Top, which
\* is marked, so all of it is usable.
LEMMA RunIsUsable ==
  ASSUME IInv, MarkedUnlessUsable, NEW n \in Nat,
         NEW b \in Candidates(memory_map, max_blocks, n)
  PROVE  Run(b, n) \subseteq Usable
<1>1. max_blocks \in Nat /\ max_blocks = BlockCount(layout) /\ layout \in Layouts
  BY DEF IInv, TypeOK
<1>2. b \in Nat /\ n > 0 /\ Run(b, n) \cap memory_map = {}
  BY <1>1, CandidateFacts
<1>3. Top \in Int
  BY <1>1, BlockCountType, UnitsAssumption DEF Top
<1>4. b <= Top
  <2>1. b < (max_blocks \div WordBits) * WordBits
    <3>1. (max_blocks \div WordBits) * WordBits \in Nat
      BY <1>1, RoundDown, WordBitsAssumption
    <3>2. b \in WordBits .. (max_blocks \div WordBits) * WordBits - 1
      BY DEF Candidates
    <3> QED
      BY <1>2, <3>1, <3>2, WordBitsAssumption
  <2>2. (max_blocks \div WordBits) * WordBits <= Top + 1
    <3>1. Top + 1 = (max_blocks \div ByteBits) * ByteBits
      BY <1>1, <1>3, BlockCountType, UnitsAssumption DEF Top, MapBytes
    <3> QED
      BY <1>1, <3>1, WordsWithinBytes
  <2>3. (max_blocks \div WordBits) * WordBits \in Nat
    BY <1>1, RoundDown, WordBitsAssumption
  <2> QED
    BY <1>2, <1>3, <2>1, <2>2, <2>3
<1>5. Top \notin Run(b, n)
  <2>1. Top \notin Usable
    BY <1>1, MachineAssumption DEF Top, Usable
  <2>2. Top \in 0 .. Top
    BY <1>2, <1>3, <1>4
  <2> QED
    BY <1>2, <2>1, <2>2 DEF MarkedUnlessUsable
<1>6. Run(b, n) \subseteq 0 .. Top
  BY <1>2, <1>3, <1>4, <1>5 DEF Run
<1> QED
  BY <1>2, <1>6 DEF MarkedUnlessUsable

\* No call hands out a block that is not available, or unmarks one.
LEMMA StepAvailable ==
  IInv /\ HandedOutIsAvailable /\ MarkedUnlessUsable /\ [Next]_vars
    => HandedOutIsAvailable' /\ MarkedUnlessUsable'
<1> SUFFICES ASSUME IInv, HandedOutIsAvailable, MarkedUnlessUsable, [Next]_vars
             PROVE  HandedOutIsAvailable' /\ MarkedUnlessUsable'
  OBVIOUS
<1> USE DEF HandedOutIsAvailable
<1>1. layout' = layout
  BY DEF Next, AllocateBlocks, AllocateBlocksFails, FreeBlocks, vars
<1>2. Usable' = Usable /\ Top' = Top /\ HeldBlocks \subseteq Usable
  BY <1>1 DEF Usable, Top
<1>3. ASSUME NEW n \in 0 .. MaxRequest, AllocateBlocks(n)
      PROVE  HandedOutIsAvailable' /\ MarkedUnlessUsable'
  <2>1. PICK b \in Candidates(memory_map, max_blocks, n) :
          /\ memory_map' = memory_map \cup Run(b, n)
          /\ held' = held \cup {<<b, n>>}
    BY <1>3 DEF AllocateBlocks
  <2>2. Run(b, n) \subseteq Usable
    BY RunIsUsable, MaxRequestAssumption
  <2>3. \A r \in held' : Run(r[1], r[2]) \subseteq Usable
    BY <1>2, <2>1, <2>2 DEF HeldBlocks
  <2> QED
    BY <1>1, <1>2, <2>1, <2>3 DEF MarkedUnlessUsable, HeldBlocks, Usable
<1>4. ASSUME NEW n \in 0 .. MaxRequest, AllocateBlocksFails(n)
      PROVE  HandedOutIsAvailable' /\ MarkedUnlessUsable'
  BY <1>1, <1>2, <1>4
     DEF AllocateBlocksFails, MarkedUnlessUsable, HeldBlocks, Usable
<1>5. ASSUME NEW r \in held, FreeBlocks(r)
      PROVE  HandedOutIsAvailable' /\ MarkedUnlessUsable'
  <2>1. memory_map' = (memory_map \ Run(r[1], r[2])) \cup {0} /\ held' = held \ {r}
    BY <1>5 DEF FreeBlocks
  <2>2. Run(r[1], r[2]) \subseteq Usable
    BY <1>2 DEF HeldBlocks
  <2>3. MarkedUnlessUsable'
    BY <1>2, <2>1, <2>2 DEF MarkedUnlessUsable
  <2>4. HeldBlocks' \subseteq HeldBlocks
    BY <2>1 DEF HeldBlocks
  <2> QED
    BY <1>1, <1>2, <2>3, <2>4 DEF Usable
<1>6. CASE UNCHANGED vars
  BY <1>1, <1>2, <1>6 DEF vars, MarkedUnlessUsable, HeldBlocks, Usable
<1> QED
  BY <1>3, <1>4, <1>5, <1>6 DEF Next

\* No caller ever gets a block outside the regions the boot loader called
\* available, or one boot reserved (the first block, so never NULL; the kernel;
\* the bitmap's whole blocks), even when the scan runs past the last word.
THEOREM OnlyAvailableHandedOut == Spec => []HandedOutIsAvailable
<1> QED
  BY InitIInv, StepIInv, InitAvailable, StepAvailable, PTL DEF Spec

-----------------------------------------------------------------------------
(* The counter moves with the blocks that are out.                         *)

\* Adding multiples of the modulus does not change a remainder.
LEMMA ModAddMultiple ==
  ASSUME NEW m \in Nat \ {0}, NEW a \in Int, NEW k \in Int
  PROVE  (a + k * m) % m = a % m
<1> DEFINE q == a \div m
           s == (a + k * m) \div m
           r == a % m
           t == (a + k * m) % m
<1>1. k * m \in Int /\ a + k * m \in Int
  OBVIOUS
<1>2. a = m * q + r /\ q \in Int /\ r \in 0 .. m - 1
  OBVIOUS
<1>3. a + k * m = m * s + t /\ s \in Int /\ t \in 0 .. m - 1
  BY <1>1
<1> HIDE DEF q, s, r, t
<1> DEFINE d == s - q - k
<1>4. m * d = r - t
  BY <1>2, <1>3
<1>5. d \in Int
  BY <1>2, <1>3
<1>6. d < 1
  <2> SUFFICES ASSUME d >= 1 PROVE FALSE
    BY <1>5
  <2> HIDE DEF d
  <2>1. m * d >= m
    BY <1>5
  <2> QED
    BY <1>2, <1>3, <1>4, <2>1
<1>7. d > -1
  <2> SUFFICES ASSUME d <= -1 PROVE FALSE
    BY <1>5
  <2> HIDE DEF d
  <2>1. m * d <= -m
    BY <1>5
  <2> QED
    BY <1>2, <1>3, <1>4, <2>1
<1>8. d = 0
  BY <1>5, <1>6, <1>7
<1>9. r = t
  <2> HIDE DEF d
  <2> QED BY <1>2, <1>3, <1>4, <1>8
<1> QED
  BY <1>9 DEF r, t

\* A uint32_t sum may be reduced early or late.
LEMMA U32Absorbs ==
  ASSUME NEW x \in Int, NEW y \in Int
  PROVE  U32(U32(x) - y) = U32(x - y)
<1> DEFINE k == -(x \div UintMod)
<1>1. UintMod \in Nat \ {0}
  BY UnitsAssumption
<1>2. k \in Int /\ x % UintMod \in Int /\ x = UintMod * (x \div UintMod) + (x % UintMod)
  BY <1>1
<1>3. (x % UintMod) - y = (x - y) + k * UintMod
  BY <1>1, <1>2
<1> HIDE DEF k
<1>4. x - y \in Int
  OBVIOUS
<1>5. ((x - y) + k * UintMod) % UintMod = (x - y) % UintMod
  BY <1>1, <1>2, <1>4, ModAddMultiple
<1> QED
  BY <1>3, <1>5 DEF U32

\* The blocks that are out can be counted.
LEMMA HeldIsFinite ==
  ASSUME IInv
  PROVE  IsFiniteSet(HeldBlocks) /\ Cardinality(HeldBlocks) \in Nat
<1>1. \A r \in held : Run(r[1], r[2]) \subseteq Bits
  BY RunInBits DEF IInv, TypeOK, RunsInside
<1>2. HeldBlocks \subseteq Bits
  BY <1>1 DEF HeldBlocks
<1>3. IsFiniteSet(Bits)
  BY FS_Interval, MapBitsAssumption DEF Bits
<1> QED
  BY <1>2, <1>3, FS_Subset, FS_CardinalityType

\* A run has as many blocks as it is long.
LEMMA RunIsFinite ==
  ASSUME NEW b \in Nat, NEW n \in Nat
  PROVE  IsFiniteSet(Run(b, n)) /\ Cardinality(Run(b, n)) = n
<1>1. b + n - 1 \in Int
  OBVIOUS
<1>2. IsFiniteSet(b .. b + n - 1)
      /\ Cardinality(b .. b + n - 1) = IF b > b + n - 1 THEN 0 ELSE (b + n - 1) - b + 1
  BY <1>1, FS_Interval
<1> QED
  BY <1>2 DEF Run

\* The counter moves with the blocks that are out.
LEMMA StepDrift ==
  IInv /\ [Next]_vars =>
    [U32(used_blocks' - Cardinality(HeldBlocks'))
       = U32(used_blocks - Cardinality(HeldBlocks))]_vars
<1> DEFINE Kept == U32(used_blocks' - Cardinality(HeldBlocks'))
                     = U32(used_blocks - Cardinality(HeldBlocks))
<1> SUFFICES ASSUME IInv, [Next]_vars, vars' # vars PROVE Kept
  OBVIOUS
<1>0. /\ used_blocks \in Int
      /\ IsFiniteSet(HeldBlocks) /\ Cardinality(HeldBlocks) \in Nat
  BY HeldIsFinite, UnitsAssumption DEF IInv, TypeOK
<1>1. ASSUME NEW n \in 0 .. MaxRequest, AllocateBlocks(n) PROVE Kept
  <2>1. PICK b \in Candidates(memory_map, max_blocks, n) :
          /\ used_blocks' = U32(used_blocks + n)
          /\ held' = held \cup {<<b, n>>}
    BY <1>1 DEF AllocateBlocks
  <2>2. n \in Nat /\ b \in Nat /\ Run(b, n) \cap memory_map = {}
    BY CandidateFacts, MaxRequestAssumption DEF IInv, TypeOK
  <2>3. HeldBlocks' = HeldBlocks \cup Run(b, n)
    <3>1. HeldBlocks' = UNION {Run(r[1], r[2]) : r \in held \cup {<<b, n>>}}
      BY <2>1 DEF HeldBlocks
    <3>2. <<b, n>>[1] = b /\ <<b, n>>[2] = n
      OBVIOUS
    <3> QED
      BY <3>1, <3>2, Zenon DEF HeldBlocks
  <2>4. HeldBlocks \cap Run(b, n) = {}
    BY <2>2 DEF IInv, HeldExclusively
  <2>5. Cardinality(HeldBlocks') = Cardinality(HeldBlocks) + n
    <3>1. IsFiniteSet(Run(b, n)) /\ Cardinality(Run(b, n)) = n
      BY <2>2, RunIsFinite
    <3>2. Cardinality(HeldBlocks \cup Run(b, n)) = Cardinality(HeldBlocks) + n
            - Cardinality(HeldBlocks \cap Run(b, n))
      BY <1>0, <3>1, FS_Union
    <3> QED
      BY <1>0, <2>2, <2>3, <2>4, <3>2, FS_EmptySet
  <2>6. Kept <=> U32(U32(used_blocks + n) - (Cardinality(HeldBlocks) + n))
                   = U32(used_blocks - Cardinality(HeldBlocks))
    BY <2>1, <2>5
  <2>7. U32(U32(used_blocks + n) - (Cardinality(HeldBlocks) + n))
          = U32((used_blocks + n) - (Cardinality(HeldBlocks) + n))
    BY <1>0, <2>2, U32Absorbs
  <2>8. (used_blocks + n) - (Cardinality(HeldBlocks) + n)
          = used_blocks - Cardinality(HeldBlocks)
    BY <1>0, <2>2
  <2> QED
    BY <2>6, <2>7, <2>8
<1>2. ASSUME NEW n \in 0 .. MaxRequest, AllocateBlocksFails(n) PROVE Kept
  BY <1>2 DEF AllocateBlocksFails, HeldBlocks
<1>3. ASSUME NEW r \in held, FreeBlocks(r) PROVE Kept
  <2>1. used_blocks' = U32(used_blocks - r[2]) /\ held' = held \ {r}
    BY <1>3 DEF FreeBlocks
  <2>2. r[1] \in Nat /\ r[2] \in Nat
    BY DEF IInv, TypeOK
  <2>3. HeldBlocks' = HeldBlocks \ Run(r[1], r[2])
    <3>1. \A s \in held \ {r} : Run(s[1], s[2]) \cap Run(r[1], r[2]) = {}
      BY DEF IInv, HeldExclusively
    <3>2. HeldBlocks' = UNION {Run(s[1], s[2]) : s \in held \ {r}}
      BY <2>1 DEF HeldBlocks
    <3> QED
      BY <3>1, <3>2 DEF HeldBlocks
  <2>4. HeldBlocks \cap Run(r[1], r[2]) = Run(r[1], r[2])
    BY DEF HeldBlocks
  <2>5. Cardinality(HeldBlocks') = Cardinality(HeldBlocks) - r[2]
    <3>1. Cardinality(Run(r[1], r[2])) = r[2]
      BY <2>2, RunIsFinite
    <3>2. Cardinality(HeldBlocks \ Run(r[1], r[2])) = Cardinality(HeldBlocks)
            - Cardinality(HeldBlocks \cap Run(r[1], r[2]))
      BY <1>0, FS_Difference
    <3> QED
      BY <2>3, <2>4, <3>1, <3>2
  <2>6. U32(U32(used_blocks - r[2]) - (Cardinality(HeldBlocks) - r[2]))
          = U32((used_blocks - r[2]) - (Cardinality(HeldBlocks) - r[2]))
    <3>1. used_blocks - r[2] \in Int /\ Cardinality(HeldBlocks) - r[2] \in Int
      BY <1>0, <2>2
    <3> QED
      BY <3>1, U32Absorbs
  <2>7. (used_blocks - r[2]) - (Cardinality(HeldBlocks) - r[2])
          = used_blocks - Cardinality(HeldBlocks)
    BY <1>0, <2>2
  <2> QED
    BY <2>1, <2>5, <2>6, <2>7
<1> QED
  BY <1>1, <1>2, <1>3 DEF Next

\* used_blocks starts wrong, because delete_physical_memory_region counts it
\* down, but allocate_blocks and free_blocks never make it any more wrong,
\* across every wrap-around of the uint32_t.
THEOREM CounterKeepsItsError == Spec => DriftConserved
<1> QED
  BY InitIInv, StepIInv, StepDrift, PTL DEF Spec, DriftConserved
=============================================================================
