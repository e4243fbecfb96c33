------------------------------ MODULE PhysMem ------------------------------
(***************************************************************************)
(* The physical memory manager after boot                                  *)
(*   src/kernel/memory/management/physique/physical_memory_manager.c       *)
(*   src/kernel/memory/management/memory_management.c:15-33                *)
(*                                                                         *)
(* Init is the state init_memory_management leaves for one of the machines *)
(* in Layouts; the actions are allocate_blocks and free_blocks, called by  *)
(* callers that give back exactly the runs they were given.  Addresses are *)
(* integers in units that BlockSize makes as coarse as a run needs.        *)
(***************************************************************************)
EXTENDS BlockMap, Sequences, FiniteSets

CONSTANTS
  ByteBits,      \* bits of a byte of the bitmap; 8 in the code
  BlockSize,     \* addresses in a block; 4096 in the code
  UintMod,       \* 2^32: addresses and counters are uint32_t
  MapLocation,   \* MEMORY_MAP_LOCATION
  KernelSize,    \* ARBITRARY_KERNEL_SIZE
  MapBits,       \* bound: bits of the bitmap and of the memory after it
  MaxRequest,    \* bound: the longest run a caller asks for
  Layouts        \* the machines: [regions, kernel_location]

ASSUME UnitsAssumption ==
  /\ ByteBits \in Nat \ {0}
  /\ BlockSize \in Nat \ {0}
  /\ UintMod \in Nat
  /\ BlockSize < UintMod
  /\ MapLocation \in Nat
  /\ KernelSize \in Nat
ASSUME MaxRequestAssumption == MaxRequest \in Nat \ {0}
ASSUME LayoutsAssumption ==
  \A l \in Layouts :
    /\ l.regions \in Seq([begin : Nat, length : Nat, type : Nat])
    /\ l.regions # << >>
    /\ l.kernel_location \in Nat

VARIABLES
  layout,        \* the boot parameters: never written after boot
  max_blocks,    \* static uint32_t max_blocks
  memory_map,    \* the blocks whose bit is 1
  used_blocks,   \* static uint32_t used_blocks
  held,          \* the runs the callers have, as <<first block, length>>
  reply          \* the last call's reply: [asked, base], base 0 being NULL

vars == <<layout, max_blocks, memory_map, used_blocks, held, reply>>

Bits == 0 .. MapBits - 1
NULL == 0

\* Mistake: the counters are not reduced to 32 bits.
U32_Unbounded(x) == x

U32(x) == x % UintMod

-----------------------------------------------------------------------------
(* init_memory_management, up to the call that turns paging on.            *)

\* The loop of init_physical_memory_region and delete_physical_memory_region.
BlocksOf(address, size) ==
  Run(U32(address) \div BlockSize, U32(size) \div BlockSize)

\* Regions of type 1 are available.
AvailableRegions(l) == {i \in DOMAIN l.regions : l.regions[i].type = 1}

TotalMemory(l) ==
  LET last == l.regions[Len(l.regions)] IN U32(last.begin + last.length - 1)

BlockCount(l) == TotalMemory(l) \div BlockSize

\* Every bit the scan can read is one of Bits.
ASSUME MapBitsAssumption ==
  /\ MapBits \in Nat
  /\ \A l \in Layouts : BlockCount(l) + MaxRequest <= MapBits

\* MEMORY_MAP_SIZE; also the bytes that memset sets.
MapBytes(l) == BlockCount(l) \div ByteBits

\* The three delete_physical_memory_region calls after the regions.
ReservedCalls(l) ==
  << BlocksOf(l.kernel_location, KernelSize),
     BlocksOf(MapLocation, MapBytes(l)),
     BlocksOf(0, BlockSize) >>

Reserved(l) == UNION {ReservedCalls(l)[i] : i \in 1 .. 3}

Available(l) ==
  UNION {BlocksOf(l.regions[i].begin, l.regions[i].length) :
           i \in AvailableRegions(l)}

\* Mistake: boot forgets to mark what it reserves.
BootMap_NoReserve(l, rest) ==
  ((0 .. MapBytes(l) * ByteBits - 1) \cup rest) \ Available(l)

\* memset sets whole bytes; `rest' is what memory held after them.
BootMap(l, rest) ==
  LET set == MapBytes(l) * ByteBits
  IN  (((0 .. set - 1) \cup {b \in rest : b >= set}) \ Available(l))
        \cup Reserved(l)

\* used_blocks counts down once per block in init_physical_memory_region and,
\* as the code is written, in delete_physical_memory_region too, which every
\* region calls once more for the first block.
BootUsed(l) ==
  LET unset == {p \in AvailableRegions(l) \X (0 .. 2 * UintMod) :
                  p[2] \in BlocksOf(l.regions[p[1]].begin, l.regions[p[1]].length)}
      set   == {p \in (1 .. 3) \X (0 .. 2 * UintMod) : p[2] \in ReservedCalls(l)[p[1]]}
  IN  U32(BlockCount(l) - Cardinality(unset) - Cardinality(AvailableRegions(l))
            - Cardinality(set))

Init ==
  /\ layout \in Layouts
  /\ max_blocks = BlockCount(layout)
  /\ \E rest \in SUBSET {b \in Bits : b >= max_blocks - ByteBits} :
        memory_map = BootMap(layout, rest)
  /\ used_blocks = BootUsed(layout)
  /\ held = {}
  /\ reply = [asked |-> 0, base |-> NULL]

\* The machines considered: bytes divide words, and the last whole byte of the
\* bitmap ends with a block that is not available, as on a PC, whose memory
\* map ends with a reserved region.
ASSUME MachineAssumption ==
  /\ \E k \in 1 .. WordBits : WordBits = k * ByteBits
  /\ \A l \in Layouts : MapBytes(l) * ByteBits - 1 \notin Available(l)

-----------------------------------------------------------------------------

\* max_blocks - used_blocks, the number of blocks the manager takes for free.
Headroom == U32(max_blocks - used_blocks)

\* Mistake: the marking loop stops one block early.
AllocateBlocks_MarksShort(num_blocks) ==
  /\ Headroom > num_blocks
  /\ \E b \in Candidates(memory_map, max_blocks, num_blocks) :
       /\ FindsFirst(memory_map, max_blocks, num_blocks, b)
       /\ memory_map' = memory_map \cup Run(b, num_blocks - 1)
       /\ used_blocks' = U32(used_blocks + num_blocks)
       /\ held' = held \cup {<<b, num_blocks>>}
       /\ reply' = [asked |-> num_blocks, base |-> b]
  /\ UNCHANGED <<layout, max_blocks>>

\* allocate_blocks when it returns an address.
AllocateBlocks(num_blocks) ==
  /\ Headroom > num_blocks
  /\ \E b \in Candidates(memory_map, max_blocks, num_blocks) :
       /\ FindsFirst(memory_map, max_blocks, num_blocks, b)
       /\ memory_map' = memory_map \cup Run(b, num_blocks)
       /\ used_blocks' = U32(used_blocks + num_blocks)
       /\ held' = held \cup {<<b, num_blocks>>}
       /\ reply' = [asked |-> num_blocks, base |-> b]
  /\ UNCHANGED <<layout, max_blocks>>

\* allocate_blocks when it returns NULL.
CannotAllocate(num_blocks) ==
  \/ Headroom <= num_blocks
  \/ FindsNone(memory_map, max_blocks, num_blocks)

AllocateBlocksFails(num_blocks) ==
  /\ CannotAllocate(num_blocks)
  /\ reply' = [asked |-> num_blocks, base |-> NULL]
  /\ UNCHANGED <<layout, max_blocks, memory_map, used_blocks, held>>

\* Mistakes: free_blocks clears one block too many, or does not count.
FreeBlocks_OneMore(r) ==
  /\ r \in held
  /\ memory_map' = (memory_map \ Run(r[1], r[2] + 1)) \cup {0}
  /\ used_blocks' = U32(used_blocks - r[2])
  /\ held' = held \ {r}
  /\ reply' = [asked |-> 0, base |-> NULL]
  /\ UNCHANGED <<layout, max_blocks>>

FreeBlocks_NoCount(r) ==
  /\ r \in held
  /\ memory_map' = (memory_map \ Run(r[1], r[2])) \cup {0}
  /\ held' = held \ {r}
  /\ reply' = [asked |-> 0, base |-> NULL]
  /\ UNCHANGED <<layout, max_blocks, used_blocks>>

\* free_blocks, of a run its caller holds.
FreeBlocks(r) ==
  /\ r \in held
  /\ memory_map' = (memory_map \ Run(r[1], r[2])) \cup {0}
  /\ used_blocks' = U32(used_blocks - r[2])
  /\ held' = held \ {r}
  /\ reply' = [asked |-> 0, base |-> NULL]
  /\ UNCHANGED <<layout, max_blocks>>

Next ==
  \/ \E n \in 0 .. MaxRequest : AllocateBlocks(n) \/ AllocateBlocksFails(n)
  \/ \E r \in held : FreeBlocks(r)

Spec == Init /\ [][Next]_vars

-----------------------------------------------------------------------------

TypeOK ==
  /\ layout \in Layouts
  /\ max_blocks \in Nat
  /\ memory_map \in SUBSET Int
  /\ used_blocks \in 0 .. UintMod - 1
  /\ held \subseteq Nat \X (1 .. MaxRequest)
  /\ reply \in [asked : 0 .. MaxRequest, base : Nat]

HeldBlocks == UNION {Run(r[1], r[2]) : r \in held}

\* No block is in two callers' hands, and every block somebody has is marked
\* in the bitmap: allocate_blocks takes only runs of 0 bits, sets all of
\* them, and free_blocks clears the run given back and nothing else.
HeldExclusively ==
  /\ \A r, s \in held : r # s => Run(r[1], r[2]) \cap Run(s[1], s[2]) = {}
  /\ HeldBlocks \subseteq memory_map

\* Only memory the boot loader called available and boot did not reserve is
\* handed out, although the scan may run over the end of the bitmap; block 0
\* is reserved, so the address 0 that allocate_blocks returns means failure.
HandedOutIsAvailable == HeldBlocks \subseteq Available(layout) \ Reserved(layout)

\* The counter is wrong from boot on (it also went down for reserved blocks),
\* but by a constant: it moves with the blocks that are really out.
DriftConserved ==
  [][U32(used_blocks' - Cardinality(HeldBlocks'))
       = U32(used_blocks - Cardinality(HeldBlocks))]_vars

\* The manager implements the pool, what is 0 in the bitmap being free: no
\* sequence of calls hands out a block twice, loses one or invents one.
Pool == INSTANCE BlockPool WITH Blocks <- Bits, free <- Bits \ memory_map
ImplementsPool == Pool!PoolSpec

-----------------------------------------------------------------------------
(* What comments of the code say and the code does not do.                 *)

\* physical_memory_manager.c:82, `return -1; // Not enough memory': NULL is
\* the answer only when no run of that many free blocks is left (outside
\* the first word, which the scan leaves out on purpose).
NullMeansOutOfMemory ==
  reply.asked > 0 /\ reply.base = NULL =>
    \A b \in WordBits .. max_blocks - reply.asked :
      Run(b, reply.asked) \cap memory_map # {}

\* memory_management.c:29, `Set certain regions/blocks as used or reserved',
\* over the call for the bitmap: the blocks the bitmap lies in are reserved.
MapBlocks ==
  LET bytes == max_blocks \div ByteBits
  IN  {a \div BlockSize : a \in MapLocation .. MapLocation + bytes - 1}
BitmapNeverHandedOut == MapBlocks \cap HeldBlocks = {}
=============================================================================
