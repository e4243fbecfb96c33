------------------------------- MODULE Paging -------------------------------
(***************************************************************************)
(* The pager on top of the physical memory manager                         *)
(*   src/kernel/memory/management/virtual/virtual_memory_manager.c         *)
(*   src/kernel/memory/management/memory_management.c:43-84                *)
(*                                                                         *)
(* Blocks come from PhysMem's allocate_blocks.  Page tables live in blocks *)
(* and `mem' is keyed by block: two directory entries with one block share *)
(* one table.  The code knows a table by its block's address and uses that *)
(* address as a virtual one, which is right while the page of that number  *)
(* is mapped to the block of that number (TablesReachable): so it is for   *)
(* the first table's pages, the identity map.  A call of allocate_new_page *)
(* or mmap is a sequence of steps, one per allocate_blocks it makes;       *)
(* nothing else runs meanwhile.                                            *)
(* Bounds: no call is made after the first deallocate_page, which leaves a *)
(* table in use whose block is free (PresentTablesAllocated), nor after a  *)
(* boot that could not turn paging on, nor after a new table was cleared   *)
(* through a page that maps another block (TableClobbers).                 *)
(***************************************************************************)
EXTENDS PhysMem

CONSTANTS
  TablesPerDirectory,   \* 1024 in the code
  PagesPerTable,        \* 1024 in the code
  KernelEntry,          \* PD_INDEX(0xC0000000)
  UserPages,            \* bound: the virtual pages that callers name, neither
                        \*   in the first 4 MB nor in the kernel's
  MaxMmap               \* bound: the pages asked of mmap; 1 in the code, and
                        \*   find_free_page vouches for two

ASSUME PagingAssumption ==
  /\ TablesPerDirectory \in Nat \ {0}
  /\ PagesPerTable \in Nat \ {0}
  /\ KernelEntry \in 1 .. TablesPerDirectory - 1
  /\ MapBits <= TablesPerDirectory * PagesPerTable
  /\ UserPages \subseteq Nat
  /\ \A v \in UserPages : v \div PagesPerTable \in (1 .. TablesPerDirectory - 1) \ {KernelEntry}
  /\ MaxRequest >= 3
  /\ MaxMmap \in 1 .. 2

VARIABLES
  current_page_dir,  \* the first block of the directory; 0 before boot
  pd,                \* the directory: per entry the table's block, or NotPresent
  mem,               \* per block, its entries when it is used as a table
  call,              \* the call in progress: [op, addr, n, base, i, mmap]
  granted,           \* what callers were given: <<virtual page, block>>
  unloaded           \* deallocate_page has been called

pagerVars == <<current_page_dir, pd, mem, call, granted, unloaded>>
allVars == <<vars, pagerVars>>

NotPresent == -1
Entries == 0 .. TablesPerDirectory - 1
Slots == 0 .. PagesPerTable - 1
EmptyTable == [k \in Slots |-> NotPresent]
PD_INDEX(v) == v \div PagesPerTable
PT_INDEX(v) == v % PagesPerTable

\* No call in progress.
Idle == [op |-> "idle", addr |-> 0, n |-> 0, base |-> NULL, i |-> 0, mmap |-> FALSE]
Panic == [Idle EXCEPT !.op = "panic"]
NoPaging == [Idle EXCEPT !.op = "nopaging"]
Clobbered == [Idle EXCEPT !.op = "clobbered"]

\* PAGE_PHYS_ADDR of a directory entry: an entry that is not present holds no
\* address, and the code then finds its `table' in block 0.
TableOf(v) == IF pd[PD_INDEX(v)] = NotPresent THEN 0 ELSE pd[PD_INDEX(v)]

\* The block a virtual page is mapped to.
Translation(v) ==
  IF pd[PD_INDEX(v)] = NotPresent THEN NotPresent ELSE mem[TableOf(v)][PT_INDEX(v)]

\* map_page and find_free_page clear and fill a new table t through the page of
\* its number: right when that page is mapped to the table itself ...
Reached(t) == Translation(t) = t

\* ... a page fault when it is not mapped; else another block is cleared.
Faults(t) == Translation(t) = NotPresent

\* unmap_page of the pages from addr on, n of them.
Unmapped(addr, n) ==
  [f \in Bits |-> [k \in Slots |->
     IF \E v \in addr .. addr + n - 1 : TableOf(v) = f /\ PT_INDEX(v) = k
       THEN NotPresent ELSE mem[f][k]]]

Ready == call = Idle /\ ~unloaded

-----------------------------------------------------------------------------
(* init_virtual_memory_manager                                             *)

PagingInit ==
  /\ Init
  /\ current_page_dir = NULL
  /\ pd = [e \in Entries |-> NotPresent]
  /\ mem = [f \in Bits |-> EmptyTable]
  /\ call = [Idle EXCEPT !.op = "boot"]
  /\ granted = {}
  /\ unloaded = FALSE

\* allocate_blocks(3) for the directory, then one block for the kernel's table.
BootDirectory ==
  /\ call.op = "boot" /\ call.i = 0
  /\ AllocateBlocks(3)
  /\ call' = [call EXCEPT !.i = 1, !.addr = reply'.base]
  /\ UNCHANGED <<current_page_dir, pd, mem, granted, unloaded>>

BootKernelTable ==
  /\ call.op = "boot" /\ call.i = 1
  /\ AllocateBlocks(1)
  /\ call' = [call EXCEPT !.i = 2, !.base = reply'.base]
  /\ UNCHANGED <<current_page_dir, pd, mem, granted, unloaded>>

\* The last block, for the identity map; then both tables are filled and
\* entered, and paging is turned on.  The code goes on through the identity
\* map: if it does not hold the directory and the tables, their next use
\* faults.
BootIdentityTable ==
  /\ call.op = "boot" /\ call.i = 2
  /\ AllocateBlocks(1)
  /\ mem' = [mem EXCEPT
               ![call.base]   = [k \in Slots |-> layout.kernel_location \div BlockSize + k],
               ![reply'.base] = [k \in Slots |-> k]]
  /\ pd' = [pd EXCEPT ![KernelEntry] = call.base, ![0] = reply'.base]
  /\ current_page_dir' = call.addr
  /\ call' = IF {call.addr, call.base, reply'.base} \subseteq Slots THEN Idle ELSE Panic
  /\ UNCHANGED <<granted, unloaded>>

\* An allocation fails: the manager returns 0, which the boot code ignores;
\* paging stays off and nothing below is called.
BootFails ==
  /\ call.op = "boot"
  /\ AllocateBlocksFails(IF call.i = 0 THEN 3 ELSE 1)
  /\ call' = NoPaging
  /\ UNCHANGED <<current_page_dir, pd, mem, granted, unloaded>>

-----------------------------------------------------------------------------
(* allocate_new_page                                                       *)

\* A caller (malloc, the ELF loader) asks for n pages at addr.
Request(addr, n) ==
  /\ Ready
  /\ call' = [Idle EXCEPT !.op = "enter", !.addr = addr, !.n = n]
  /\ UNCHANGED <<vars, current_page_dir, pd, mem, granted, unloaded>>

AllocateData ==
  /\ call.op = "enter"
  /\ AllocateBlocks(call.n)
  /\ call' = [call EXCEPT !.op = "map", !.base = reply'.base]
  /\ UNCHANGED <<current_page_dir, pd, mem, granted, unloaded>>

AllocateDataFails ==
  /\ call.op = "enter"
  /\ AllocateBlocksFails(call.n)
  /\ call' = Idle
  /\ UNCHANGED <<current_page_dir, pd, mem, granted, unloaded>>

Mapping == call.op = "map" /\ call.i < call.n

Page == call.addr + call.i

EntryMissing == pd[PD_INDEX(Page)] = NotPresent

\* Whoever had the page before has it no more.
Replaced == {g \in granted : g[1] # Page}

\* Mistake: the physical address does not advance with the page.
MapPage_SameBlock ==
  /\ Mapping /\ ~EntryMissing
  /\ mem' = [mem EXCEPT ![TableOf(Page)][PT_INDEX(Page)] = call.base]
  /\ call' = [call EXCEPT !.i = @ + 1]
  /\ granted' = Replaced
  /\ UNCHANGED <<vars, current_page_dir, pd, unloaded>>

\* map_page when the directory entry is present.
MapPage ==
  /\ Mapping /\ ~EntryMissing
  /\ mem' = [mem EXCEPT ![TableOf(Page)][PT_INDEX(Page)] = call.base + call.i]
  /\ call' = [call EXCEPT !.i = @ + 1]
  /\ granted' = Replaced
  /\ UNCHANGED <<vars, current_page_dir, pd, unloaded>>

\* map_page when a table must be allocated.
MapPageNewTable ==
  /\ Mapping /\ EntryMissing
  /\ AllocateBlocks(1)
  /\ Reached(reply'.base)
  /\ pd' = [pd EXCEPT ![PD_INDEX(Page)] = reply'.base]
  /\ mem' = [mem EXCEPT ![reply'.base] =
               [EmptyTable EXCEPT ![PT_INDEX(Page)] = call.base + call.i]]
  /\ call' = [call EXCEPT !.i = @ + 1]
  /\ granted' = Replaced
  /\ UNCHANGED <<current_page_dir, unloaded>>

\* Mistake: the pages mapped so far stay mapped.
Rollback_KeepsPages ==
  /\ Mapping /\ EntryMissing
  /\ CannotAllocate(1)
  /\ FreeBlocks(<<call.base, call.n>>)
  /\ call' = Idle
  /\ UNCHANGED <<current_page_dir, pd, mem, granted, unloaded>>

\* map_page fails: the data blocks go back, the pages mapped so far go away.
Rollback ==
  /\ Mapping /\ EntryMissing
  /\ CannotAllocate(1)
  /\ FreeBlocks(<<call.base, call.n>>)
  /\ mem' = Unmapped(call.addr, call.i)
  /\ call' = Idle
  /\ UNCHANGED <<current_page_dir, pd, granted, unloaded>>

Return ==
  /\ call.op = "map" /\ call.i = call.n
  /\ granted' = granted \cup {<<call.addr + j, call.base + j>> : j \in 0 .. call.n - 1}
  /\ call' = Idle
  /\ UNCHANGED <<vars, current_page_dir, pd, mem, unloaded>>

-----------------------------------------------------------------------------
(* mmap and find_free_page                                                 *)

\* mmap(NULL, len): find_free_page(1), whatever the length.
Mmap(n) ==
  /\ Ready
  /\ call' = [Idle EXCEPT !.op = "scan", !.n = n, !.mmap = TRUE]
  /\ UNCHANGED <<vars, current_page_dir, pd, mem, granted, unloaded>>

Scanning == call.op = "scan"

\* The scan allocates every table that is missing on its way.
ScanNewTable ==
  /\ Scanning /\ pd[call.i] = NotPresent
  /\ AllocateBlocks(1)
  /\ Reached(reply'.base)
  /\ pd' = [pd EXCEPT ![call.i] = reply'.base]
  /\ mem' = [mem EXCEPT ![reply'.base] = EmptyTable]
  /\ UNCHANGED <<current_page_dir, call, granted, unloaded>>

ScanFails ==
  /\ Scanning /\ pd[call.i] = NotPresent
  /\ AllocateBlocksFails(1)
  /\ call' = Idle
  /\ UNCHANGED <<current_page_dir, pd, mem, granted, unloaded>>

\* Mistake: a present page does not start the count anew.
FreePages_LastOnly(e, nb_page) ==
  {b \in 0 .. (e + 1) * PagesPerTable - 1 - nb_page :
     Translation(b + nb_page) = NotPresent}

\* The pages at which the scan, having read the entries up to e, may stop:
\* the first of nb_page + 1 pages in a row that are not present.
FreePages(e, nb_page) ==
  {b \in 0 .. (e + 1) * PagesPerTable - 1 - nb_page :
     \A v \in b .. b + nb_page : Translation(v) = NotPresent}

ScanFinds ==
  /\ Scanning /\ pd[call.i] # NotPresent
  /\ \E b \in FreePages(call.i, 1) :
       /\ \A c \in FreePages(call.i, 1) : b <= c
       /\ call' = [call EXCEPT !.op = "enter", !.addr = b, !.i = 0]
  /\ UNCHANGED <<vars, current_page_dir, pd, mem, granted, unloaded>>

\* Bound: the code's scan would go on over the two blocks after the
\* directory's 1024 entries, once 4 GB of pages are all mapped.
ScanGoesOn ==
  /\ Scanning /\ pd[call.i] # NotPresent
  /\ FreePages(call.i, 1) = {}
  /\ call' = IF call.i + 1 \in Entries THEN [call EXCEPT !.i = @ + 1] ELSE Idle
  /\ UNCHANGED <<vars, current_page_dir, pd, mem, granted, unloaded>>

-----------------------------------------------------------------------------
(* A new table out of reach, in map_page or find_free_page                 *)

\* The call in progress needs a table for entry e.
TableNeeded(e) ==
  /\ pd[e] = NotPresent
  /\ (Mapping /\ e = PD_INDEX(Page)) \/ (Scanning /\ e = call.i)

TableFaults ==
  /\ \E e \in Entries : TableNeeded(e)
  /\ AllocateBlocks(1)
  /\ Faults(reply'.base)
  /\ call' = Panic
  /\ UNCHANGED <<current_page_dir, pd, mem, granted, unloaded>>

\* What is cleared, and gets map_page's entry, is the block that the page of
\* the table's number is mapped to: a caller's, or the kernel's.  The table
\* itself is left as memory was (bound: one value throughout).
TableClobbers ==
  \E e \in Entries, stale \in {NotPresent, 0} :
    /\ TableNeeded(e)
    /\ AllocateBlocks(1)
    /\ ~Reached(reply'.base) /\ ~Faults(reply'.base)
    /\ pd' = [pd EXCEPT ![e] = reply'.base]
    /\ mem' = [mem EXCEPT
                 ![reply'.base] = [k \in Slots |-> stale],
                 ![Translation(reply'.base)] =
                    IF Mapping THEN [EmptyTable EXCEPT ![PT_INDEX(Page)] = call.base + call.i]
                    ELSE EmptyTable]
    /\ call' = Clobbered
    /\ UNCHANGED <<current_page_dir, granted, unloaded>>

-----------------------------------------------------------------------------
(* deallocate_page, of pages that one allocate_new_page gave its caller.   *)

\* What free_blocks is given is get_page(address), the address of the page's
\* entry in its table: the blocks freed start with the table's.
DeallocatePage(addr, n) ==
  /\ Ready
  /\ \E f \in Bits :
       /\ <<f, n>> \in held
       /\ \A j \in 0 .. n - 1 : <<addr + j, f + j>> \in granted
       /\ held' = held \ {<<f, n>>}
       /\ granted' = granted \ {<<addr + j, f + j>> : j \in 0 .. n - 1}
  /\ memory_map' = (memory_map \ Run(TableOf(addr), n)) \cup {0}
  /\ used_blocks' = U32(used_blocks - n)
  /\ mem' = Unmapped(addr, n)
  /\ unloaded' = TRUE
  /\ UNCHANGED <<layout, max_blocks, reply, current_page_dir, pd, call>>

\* i686_panic stops the machine; the bounds stop the model.
Halted == (call \in {Panic, NoPaging, Clobbered} \/ unloaded) /\ UNCHANGED allVars

PagingNext ==
  \/ BootDirectory \/ BootKernelTable \/ BootIdentityTable \/ BootFails
  \/ \E addr \in UserPages, n \in 1 .. MaxRequest :
       addr .. addr + n - 1 \subseteq UserPages /\ (Request(addr, n) \/ DeallocatePage(addr, n))
  \/ AllocateData \/ AllocateDataFails
  \/ MapPage \/ MapPageNewTable \/ Rollback \/ Return
  \/ \E n \in 1 .. MaxMmap : Mmap(n)
  \/ ScanNewTable \/ ScanFails \/ ScanFinds \/ ScanGoesOn
  \/ TableFaults \/ TableClobbers
  \/ Halted

PagingSpec == PagingInit /\ [][PagingNext]_allVars

-----------------------------------------------------------------------------

PagingTypeOK ==
  /\ TypeOK
  /\ current_page_dir \in Nat
  /\ pd \in [Entries -> Bits \cup {NotPresent}]
  /\ mem \in [Bits -> [Slots -> Nat \cup {NotPresent}]]
  /\ call \in [op : {"boot", "idle", "enter", "map", "scan", "panic", "nopaging",
                     "clobbered"},
               addr : Nat, n : 0 .. MaxRequest, base : Nat,
               i : Entries \cup 0 .. MaxRequest, mmap : BOOLEAN]
  /\ granted \subseteq Nat \X Bits
  /\ unloaded \in BOOLEAN

\* No page table is in doubt: none was freed under the pager, and none cleared
\* through somebody else's page.
TablesSound == ~unloaded /\ call # Clobbered

\* A page that a caller was given keeps its translation, to a block that is
\* marked used and that backs no other page, through every later call:
\* successful, rolled back, scanning or faulting (map_page, unmap_page).  Not
\* so after TableClobbers: the table then in use is not the one that was
\* filled.
GrantsIntact ==
  TablesSound =>
    /\ \A g \in granted : Translation(g[1]) = g[2] /\ g[2] \in memory_map
    /\ \A g, h \in granted : g # h => g[1] # h[1] /\ g[2] # h[2]

PresentEntries == {e \in Entries : pd[e] # NotPresent}

\* The blocks of the page tables and of the directory are marked used, are not
\* shared by two entries and are not data.
TablesPrivate ==
  TablesSound =>
    /\ \A e \in PresentEntries :
         /\ pd[e] \in memory_map
         /\ pd[e] \notin {g[2] : g \in granted}
         /\ pd[e] \notin Run(current_page_dir, 3)
    /\ \A d, e \in PresentEntries : d # e => pd[d] # pd[e]

\* What map_page, unmap_page and find_free_page take for a table, the memory
\* at its block's address, is the table the processor walks: the page of each
\* table's number stays mapped to the table's block, whatever is mapped and
\* unmapped later.
TablesReachable ==
  TablesSound /\ call # Panic => \A e \in PresentEntries : Reached(pd[e])

\* Between calls nothing is mapped but by boot and for callers: a call that
\* failed half way through its pages left none of them behind.
NoStrayMapping ==
  call = Idle /\ ~unloaded =>
    \A v \in 0 .. TablesPerDirectory * PagesPerTable - 1 :
      PD_INDEX(v) \notin {0, KernelEntry} /\ Translation(v) # NotPresent
        => <<v, Translation(v)>> \in granted

\* mmap(NULL) takes pages nobody has, although find_free_page only looks at
\* present bits and allocate_new_page overwrites whatever it finds.
MmapTakesFreePages == [][call.mmap /\ ~unloaded => granted \subseteq granted']_allVars

-----------------------------------------------------------------------------
(* What a comment of the code says and the code does not do.               *)

\* virtual_memory_manager.c:87, `Page not present so we are allocating it':
\* a table that an entry holds is a block that is allocated.
PresentTablesAllocated == \A e \in Entries : pd[e] # NotPresent => pd[e] \in memory_map
=============================================================================
