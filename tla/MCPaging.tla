------------------------------ MODULE MCPaging ------------------------------
(***************************************************************************)
(* A machine of 22 blocks and words of 4 bits for Paging, and one too      *)
(* small to boot.  Entry 0 of the directory is the identity map, of blocks *)
(* 0 to 18, and the last one the kernel's.  The pages of the two entries   *)
(* between are the callers': they name four on both sides of the border,   *)
(* and mmap gives pages from 19 on, the numbers of the blocks from 19 on.  *)
(***************************************************************************)
EXTENDS Paging

Region(begin, end, type) ==
  [begin |-> begin, length |-> end - begin, type |-> type]

MCLayouts ==
  { [regions |-> <<Region(0, 44, 1), Region(44, 49, 2)>>, kernel_location |-> 14],
    [regions |-> <<Region(0, 18, 1), Region(18, 49, 2)>>, kernel_location |-> 14] }

MCUserPages == 36 .. 39
=============================================================================
