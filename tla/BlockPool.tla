----------------------------- MODULE BlockPool -----------------------------
(***************************************************************************)
(* What the physical memory manager promises its callers (the pager, the   *)
(* DMA allocator), with no bitmap, counter or scan order: a pool of blocks *)
(* from which runs are taken and to which they are given back.             *)
(***************************************************************************)
EXTENDS Integers

CONSTANTS Blocks,      \* the block numbers
          MaxRequest   \* bound: the longest run a caller asks for or returns

VARIABLES free,        \* the blocks nobody has
          held         \* the runs out with callers, as <<first block, length>>

poolVars == <<free, held>>

Span(r) == r[1] .. r[1] + r[2] - 1

PoolInit == free \in SUBSET Blocks /\ held = {}

\* A caller gets a run of free blocks; which one is not promised.
Acquire(n) ==
  \E b \in Blocks :
    /\ Span(<<b, n>>) \subseteq free
    /\ free' = free \ Span(<<b, n>>)
    /\ held' = held \cup {<<b, n>>}

\* A caller gives back a run it holds.
Release(r) ==
  /\ r \in held
  /\ free' = free \cup Span(r)
  /\ held' = held \ {r}

PoolNext == \/ \E n \in 1 .. MaxRequest : Acquire(n)
            \/ \E r \in held : Release(r)

PoolSpec == PoolInit /\ [][PoolNext]_poolVars
=============================================================================
