----------------------------- MODULE MCPhysMem -----------------------------
(***************************************************************************)
(* Small machines for PhysMem: words of 8 bits, bytes of 4, blocks of two  *)
(* addresses, so that 24 blocks make three words and a bitmap of 6 bytes   *)
(* that fills exactly the three blocks boot reserves for it.               *)
(***************************************************************************)
EXTENDS PhysMem

Region(begin, end, type) ==
  [begin |-> begin, length |-> end - begin, type |-> type]

\* Two machines whose last region is reserved, as a PC's is, the kernel in a
\* word the scan allocates from or below it.
MCLayouts ==
  { [regions |-> <<Region(0, 18, 1), Region(18, 20, 2),
                   Region(20, 44, 1), Region(44, 49, 2)>>,
     kernel_location |-> k] : k \in {12, 24} }

\* A machine of 24 blocks of 8 addresses: its bitmap of 5 bytes is less than
\* one block, as the 4095 bytes of a 128 MB machine are, and boot reserves
\* none for it.
SmallLayouts ==
  { [regions |-> <<Region(0, 152, 1), Region(152, 192, 2)>>,
     kernel_location |-> 32] }
=============================================================================
