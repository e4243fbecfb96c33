----------------------------- MODULE MCMachine -----------------------------
(***************************************************************************)
(* A drive of eight sectors and a partition that starts at the second: a   *)
(* sector of it, and an address past the last one.  The program has two    *)
(* segments.                                                               *)
(***************************************************************************)
EXTENDS Machine

MCPrograms == {<<{1}, {2, 3}>>}
=============================================================================
