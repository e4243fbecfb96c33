------------------------------ MODULE BlockMap ------------------------------
(***************************************************************************)
(* The block bitmap of the physical memory manager, as pure operators:     *)
(*   src/kernel/memory/management/physique/physical_memory_manager.c       *)
(*                                                                         *)
(* memory_map is an array of 32-bit words with one bit per 4 KiB block, 1  *)
(* meaning used.  Here a bitmap is the set of the block numbers whose bit  *)
(* is 1, so set_block, unset_block and test_block are \cup, \ and \in.     *)
(* The words survive as far as find_first_free_blocks looks at them.       *)
(***************************************************************************)
EXTENDS Integers

CONSTANT WordBits    \* bits of one memory_map[i]; 32 in the code

ASSUME WordBitsAssumption == WordBits \in Nat \ {0}

\* The n blocks that start at block b.
Run(b, n) == b .. b + n - 1

\* The positions of the bits that are 1 in memory_map[i].
Word(map, i) == {k \in 0 .. WordBits - 1 : i * WordBits + k \in map}

\* The positions of the bits that are 1 in the integer j.
OneBits(j) == {k \in 0 .. WordBits - 1 : (j \div 2^k) % 2 = 1}

\* `if (!(memory_map[i] & j))': the filter the scan puts before it tests bit j
\* of word i.  It masks the word with j itself, not with 1 << j.
PassesFilter(map, i, j) == Word(map, i) \cap OneBits(j) = {}

\* The blocks the scan can stop at: it starts at word 1, takes whole words
\* only, skips full words, and accepts a block when the num_blocks bits from
\* there on are 0, wherever they lie.
Candidates(map, max_blocks, num_blocks) ==
  {b \in WordBits .. (max_blocks \div WordBits) * WordBits - 1 :
     /\ num_blocks > 0
     /\ Word(map, b \div WordBits) # 0 .. WordBits - 1
     /\ PassesFilter(map, b \div WordBits, b % WordBits)
     /\ Run(b, num_blocks) \cap map = {}}

\* find_first_free_blocks returns b: the first block of the scan's order.
FindsFirst(map, max_blocks, num_blocks, b) ==
  /\ b \in Candidates(map, max_blocks, num_blocks)
  /\ \A c \in Candidates(map, max_blocks, num_blocks) : b <= c

\* find_first_free_blocks returns -1.
FindsNone(map, max_blocks, num_blocks) ==
  Candidates(map, max_blocks, num_blocks) = {}
=============================================================================
