---------------------------- MODULE Paging_proofs ----------------------------
(***************************************************************************)
(* Theorems about Paging, for directories, tables and machines of every    *)
(* size: the pager's tables and the pages it gave its callers stay intact  *)
(* until the first deallocate_page, or until a new table is cleared        *)
(* through a page that maps another block.  What the pager takes from      *)
(* allocate_blocks it knows through the invariant of PhysMem_proofs.       *)
(***************************************************************************)
EXTENDS Paging, PhysMem_proofs

Present(e) == pd[e] # NotPresent

\* The call in progress and the blocks it has.
CallRight ==
  /\ call.op \in {"boot", "nopaging"} => granted = {} /\ \A e \in Entries : ~Present(e)
  /\ call.op \notin {"boot", "nopaging"} => <<current_page_dir, 3>> \in held
  /\ call.op = "boot" =>
       /\ call.i \in 0 .. 2
       /\ call.i >= 1 => <<call.addr, 3>> \in held
       /\ call.i = 2 => <<call.base, 1>> \in held
  /\ call.op \in {"enter", "map"} =>
       /\ call.n > 0 /\ call.i \in 0 .. call.n
       /\ \A j \in 0 .. call.n - 1 :
            PD_INDEX(call.addr + j) \in Entries \ {0, KernelEntry}
  /\ call.op = "enter" => call.i = 0
  /\ call.op = "map" => <<call.base, call.n>> \in held
  /\ call.op = "scan" => call.i \in Entries /\ call.n \in 1 .. MaxMmap
  /\ call.mmap => call.op \in {"scan", "enter", "map"}

\* The run of the data blocks that the call in progress has.
CallRun == <<call.base, call.n>>

\* Every table is in a block of its own.
TablesOwned ==
  /\ \A e \in Entries : Present(e) => <<pd[e], 1>> \in held
  /\ \A d, e \in Entries : Present(d) /\ Present(e) /\ d # e => pd[d] # pd[e]
  /\ call.op = "map" => CallRun # <<current_page_dir, 3>>
  /\ call.op = "map" => \A e \in Entries : CallRun # <<pd[e], 1>>

\* A run that is neither the directory, nor a table, nor the call's.
DataRun(r) ==
  /\ r \in held
  /\ r # <<current_page_dir, 3>>
  /\ \A e \in Entries : r # <<pd[e], 1>>
  /\ call.op = "map" => r # CallRun

\* What callers have lies in such runs, and each block of it backs one page.
DataOwned ==
  /\ \A g \in granted : \E r \in held : DataRun(r) /\ g[2] \in Run(r[1], r[2])
  /\ \A g, h \in granted : g # h => g[1] # h[1] /\ g[2] # h[2]

\* Pages are mapped to the blocks that callers have ...
GrantsMapped ==
  \A g \in granted : PD_INDEX(g[1]) \in Entries /\ Translation(g[1]) = g[2]

\* ... and those that the call has mapped so far, to its own.
CallMapped ==
  call.op = "map" =>
    \A j \in 0 .. call.i - 1 :
      /\ Translation(call.addr + j) = call.base + j
      /\ \A g \in granted : g[1] # call.addr + j

\* But for those that boot mapped no others are mapped.
NothingElse ==
  call.op # "panic" =>
    \A v \in Nat :
      PD_INDEX(v) \in Entries \ {0, KernelEntry} /\ Translation(v) # NotPresent =>
        \/ <<v, Translation(v)>> \in granted
        \/ call.op = "map" /\ v \in call.addr .. call.addr + call.i - 1

\* The pages that mmap has still to map are free.
FreeForMmap ==
  call.mmap /\ call.op \in {"enter", "map"} =>
    \A j \in call.i .. call.n - 1 : Translation(call.addr + j) = NotPresent

\* Boot's two tables stay full ...
BootTables ==
  call.op \notin {"boot", "nopaging"} =>
    \A v \in Nat : PD_INDEX(v) \in {0, KernelEntry} => Translation(v) # NotPresent

\* ... and map every table's block to itself.
TablesReached ==
  call # Panic =>
    \A e \in Entries, t \in Bits :
      pd[e] = t => PD_INDEX(t) \in {0, KernelEntry} /\ Translation(t) = t

\* The inductive invariant.
PagingIInv ==
  /\ PagingTypeOK
  /\ unloaded => call = Idle
  /\ TablesSound =>
       /\ IInv /\ BootTables /\ TablesReached /\ CallRight /\ TablesOwned /\ DataOwned
       /\ GrantsMapped /\ CallMapped /\ NothingElse /\ FreeForMmap

-----------------------------------------------------------------------------
(* Lemmas                                                                  *)

\* A page is given by its entry in the directory and its slot in the table.
LEMMA PageIndex ==
  ASSUME NEW v \in Nat
  PROVE  /\ PD_INDEX(v) \in Nat /\ PT_INDEX(v) \in Slots
         /\ v = PagesPerTable * PD_INDEX(v) + PT_INDEX(v)
BY PagingAssumption DEF PD_INDEX, PT_INDEX, Slots

\* Division by a positive number is monotone.
LEMMA DivMonotone ==
  ASSUME NEW p \in Nat \ {0}, NEW a \in Nat, NEW b \in Nat, a <= b
  PROVE  a \div p <= b \div p
<1>1. /\ a \div p \in Nat /\ b \div p \in Nat
      /\ a % p \in 0 .. p - 1 /\ b % p \in 0 .. p - 1
  OBVIOUS
<1>2. a = p * (a \div p) + (a % p)
  OBVIOUS
<1>3. b = p * (b \div p) + (b % p)
  OBVIOUS
<1> SUFFICES ASSUME a \div p >= b \div p + 1 PROVE FALSE
  BY <1>1
<1>4. p * (a \div p) >= p * (b \div p + 1)
  BY <1>1
<1>5. p * (b \div p + 1) = p * (b \div p) + p
  BY <1>1
<1> QED
  BY <1>1, <1>2, <1>3, <1>4, <1>5

\* The two indices determine the page.
LEMMA SamePage ==
  ASSUME NEW v \in Nat, NEW w \in Nat, PD_INDEX(v) = PD_INDEX(w), PT_INDEX(v) = PT_INDEX(w)
  PROVE  v = w
BY PageIndex

\* The callers' pages are in the directory.
LEMMA UserPageEntry ==
  ASSUME NEW v \in UserPages
  PROVE  v \in Nat /\ PD_INDEX(v) \in Entries \ {0, KernelEntry}
BY PagingAssumption DEF PD_INDEX, Entries

\* What the pager learns from a successful allocate_blocks.
LEMMA Allocated ==
  ASSUME IInv, NEW n \in 1 .. MaxRequest, AllocateBlocks(n)
  PROVE  /\ IInv'
         /\ reply'.base \in Nat
         /\ held' = held \cup {<<reply'.base, n>>}
         /\ Run(reply'.base, n) \subseteq Bits
         /\ reply'.base \in Bits
         /\ \A r \in held : Run(r[1], r[2]) \cap Run(reply'.base, n) = {}
         /\ \A r \in held : r # <<reply'.base, n>> /\ r[1] # reply'.base
<1>1. PICK b \in Candidates(memory_map, max_blocks, n) :
        /\ held' = held \cup {<<b, n>>}
        /\ reply' = [asked |-> n, base |-> b]
  BY DEF AllocateBlocks
<1>2. b \in Nat /\ b < max_blocks /\ Run(b, n) \cap memory_map = {}
  BY CandidateFacts DEF IInv, TypeOK
<1>3. Run(b, n) \subseteq Bits
  BY <1>2, RunInBits
<1>4. b \in Run(b, n)
  BY <1>2 DEF Run
<1>5. \A r \in held : Run(r[1], r[2]) \cap Run(b, n) = {}
  BY <1>2 DEF IInv, HeldExclusively, HeldBlocks
<1>6. \A r \in held : r[1] \in Run(r[1], r[2])
  BY DEF IInv, TypeOK, Run
<1>7. IInv'
  BY AllocateIInv
<1> QED
  BY <1>1, <1>2, <1>3, <1>4, <1>5, <1>6, <1>7

\* A request that fails leaves the manager's state as it was.
LEMMA NotAllocated ==
  ASSUME IInv, NEW n \in 0 .. MaxRequest, AllocateBlocksFails(n)
  PROVE  IInv' /\ held' = held
BY StepIInv DEF Next, AllocateBlocksFails

\* So does a step of the pager that allocates nothing.
LEMMA Untouched ==
  ASSUME IInv, UNCHANGED vars
  PROVE  IInv' /\ held' = held
BY StepIInv DEF vars

\* A block belongs to one run.
LEMMA OneRun ==
  ASSUME IInv, NEW r \in held, NEW s \in held, NEW b,
         b \in Run(r[1], r[2]), b \in Run(s[1], s[2])
  PROVE  r = s
BY DEF IInv, HeldExclusively

-----------------------------------------------------------------------------
(* Types                                                                   *)

CallType ==
  [op : {"boot", "idle", "enter", "map", "scan", "panic", "nopaging", "clobbered"},
   addr : Nat, n : 0 .. MaxRequest, base : Nat,
   i : Entries \cup 0 .. MaxRequest, mmap : BOOLEAN]

\* No call in progress is a call of the right type.
LEMMA IdleType == Idle \in CallType
<1>1. 0 \in 0 .. MaxRequest
  BY MaxRequestAssumption
<1> QED
  BY <1>1 DEF Idle, NULL, CallType

\* Before paging is set up nothing is owned or mapped.
LEMMA PagingInitIInv == PagingInit => PagingIInv
<1> SUFFICES ASSUME PagingInit PROVE PagingIInv
  OBVIOUS
<1>1. IInv
  BY InitIInv DEF PagingInit
<1>2. call.op = "boot" /\ call.i = 0 /\ ~call.mmap /\ ~unloaded
  BY DEF PagingInit, Idle
<1>3. PagingTypeOK
  <2>1. TypeOK
    BY <1>1 DEF IInv
  <2>2. call \in CallType
    BY IdleType DEF PagingInit, CallType
  <2> QED
    BY <2>1, <2>2 DEF PagingInit, PagingTypeOK, NULL, EmptyTable, CallType
<1>4. \A e \in Entries : ~Present(e)
  BY DEF PagingInit, Present
<1>5. CallRight /\ TablesOwned /\ CallMapped /\ FreeForMmap
  BY <1>2, <1>4 DEF PagingInit, CallRight, TablesOwned, CallMapped, FreeForMmap
<1>6. DataOwned /\ GrantsMapped
  BY DEF PagingInit, DataOwned, GrantsMapped
<1>7. NothingElse /\ BootTables
  BY <1>2, <1>4 DEF NothingElse, BootTables, Translation, Present
<1>8. TablesReached
  BY <1>4 DEF TablesReached, Present, Bits, NotPresent
<1> QED
  BY <1>1, <1>2, <1>3, <1>5, <1>6, <1>7, <1>8 DEF PagingIInv

-----------------------------------------------------------------------------
(* Steps that change no table                                              *)

\* They keep the invariant, whatever they get from allocate_blocks.
LEMMA Quiet ==
  ASSUME PagingIInv, TablesSound,
         UNCHANGED <<current_page_dir, pd, mem, granted, unloaded>>,
         IInv', held \subseteq held', call' \in CallType, CallRight', FreeForMmap',
         call'.op = "map" => call.op = "enter" /\ call'.i = 0 /\ CallRun' \notin held,
         call.op # "panic", call.op = "map" => call'.op = "panic",
         call.op \in {"boot", "nopaging"} => call'.op \in {"boot", "nopaging"}
  PROVE  PagingIInv'
<1> USE DEF PagingIInv, TablesSound
<1>1. PagingTypeOK'
  BY DEF PagingTypeOK, CallType, IInv
<1>2. \A v : Translation(v)' = Translation(v)
  BY DEF Translation, TableOf
<1>3. call'.op = "map" => /\ CallRun' # <<current_page_dir, 3>>
                          /\ \A e \in Entries : CallRun' # <<pd[e], 1>>
  <2> SUFFICES ASSUME call'.op = "map" PROVE /\ CallRun' # <<current_page_dir, 3>>
                                             /\ \A e \in Entries : CallRun' # <<pd[e], 1>>
    OBVIOUS
  <2>1. CallRun' = <<call'.base, call'.n>> /\ call'.base \in Nat
    BY DEF CallRun, CallType
  <2>2. \A e \in Entries : ~Present(e) => CallRun' # <<pd[e], 1>>
    BY <2>1 DEF Present, NotPresent
  <2> QED
    BY <2>2 DEF CallRight, TablesOwned
<1>4. TablesOwned'
  BY <1>3 DEF TablesOwned, Present
<1>5. DataOwned'
  <2>1. \A r \in held : DataRun(r) => r \in held' /\ DataRun(r)'
    BY DEF DataRun
  <2> QED
    BY <2>1 DEF DataOwned
<1>6. GrantsMapped' /\ CallMapped'
  BY <1>2 DEF GrantsMapped, CallMapped
<1>7. NothingElse' /\ BootTables'
  BY <1>2 DEF NothingElse, BootTables
<1>8. TablesReached'
  <2>1. call # Panic
    BY DEF Panic, Idle
  <2> QED
    BY <1>2, <2>1 DEF TablesReached
<1> QED
  BY <1>1, <1>4, <1>5, <1>6, <1>7, <1>8

\* Boot, until the tables are filled.
LEMMA BootKeeps ==
  ASSUME PagingIInv, TablesSound, BootDirectory \/ BootKernelTable \/ BootFails
  PROVE  PagingIInv'
<1> USE DEF PagingIInv, TablesSound
<1>0. call \in CallType /\ 1 \in 0 .. MaxRequest /\ 2 \in 0 .. MaxRequest /\ 1 \in 1 .. MaxRequest
      /\ 3 \in 1 .. MaxRequest
  BY PagingAssumption, MaxRequestAssumption DEF PagingTypeOK, CallType
<1>1. CASE BootDirectory
  <2>1. /\ AllocateBlocks(3)
        /\ UNCHANGED <<current_page_dir, pd, mem, granted, unloaded>>
        /\ call.op = "boot" /\ call' = [call EXCEPT !.i = 1, !.addr = reply'.base]
    BY <1>1 DEF BootDirectory
  <2>2. IInv' /\ reply'.base \in Nat /\ held' = held \cup {<<reply'.base, 3>>}
    BY <2>1, <1>0, Allocated
  <2>3. /\ call' \in CallType /\ call'.op = "boot" /\ call'.i = 1
        /\ call'.addr = reply'.base /\ call'.mmap = call.mmap
    BY <2>1, <2>2, <1>0 DEF CallType
  <2>4. CallRight' /\ FreeForMmap'
    BY <2>1, <2>2, <2>3 DEF CallRight, FreeForMmap, Present
  <2> QED
    BY <2>1, <2>2, <2>3, <2>4, Quiet
<1>2. CASE BootKernelTable
  <2>1. /\ AllocateBlocks(1) /\ call.i = 1
        /\ UNCHANGED <<current_page_dir, pd, mem, granted, unloaded>>
        /\ call.op = "boot" /\ call' = [call EXCEPT !.i = 2, !.base = reply'.base]
    BY <1>2 DEF BootKernelTable
  <2>2. IInv' /\ reply'.base \in Nat /\ held' = held \cup {<<reply'.base, 1>>}
    BY <2>1, <1>0, Allocated
  <2>3. /\ call' \in CallType /\ call'.op = "boot" /\ call'.i = 2
        /\ call'.addr = call.addr /\ call'.base = reply'.base /\ call'.mmap = call.mmap
    BY <2>1, <2>2, <1>0 DEF CallType
  <2>4. CallRight' /\ FreeForMmap'
    BY <2>1, <2>2, <2>3 DEF CallRight, FreeForMmap, Present
  <2> QED
    BY <2>1, <2>2, <2>3, <2>4, Quiet
<1>3. CASE BootFails
  <2>1. /\ \E n \in 0 .. MaxRequest : AllocateBlocksFails(n)
        /\ UNCHANGED <<current_page_dir, pd, mem, granted, unloaded>>
        /\ call.op = "boot" /\ call' = NoPaging
    BY <1>3, <1>0 DEF BootFails
  <2>2. IInv' /\ held' = held
    BY <2>1, NotAllocated
  <2>3. call' \in CallType /\ call'.op = "nopaging" /\ ~call'.mmap
    BY <2>1, IdleType DEF NoPaging, Idle, CallType
  <2>4. CallRight' /\ FreeForMmap'
    BY <2>1, <2>2, <2>3 DEF CallRight, FreeForMmap, Present
  <2> QED
    BY <2>1, <2>2, <2>3, <2>4, Quiet
<1> QED
  BY <1>1, <1>2, <1>3

\* A call begins, gets its blocks or is refused them.
LEMMA RequestKeeps ==
  ASSUME PagingIInv, TablesSound,
         \/ \E addr \in UserPages, n \in 1 .. MaxRequest :
              addr .. addr + n - 1 \subseteq UserPages /\ Request(addr, n)
         \/ AllocateData \/ AllocateDataFails
  PROVE  PagingIInv'
<1> USE DEF PagingIInv, TablesSound
<1>0. call \in CallType /\ MaxRequest \in Nat
  BY MaxRequestAssumption DEF PagingTypeOK, CallType
<1>1. ASSUME NEW addr \in UserPages, NEW n \in 1 .. MaxRequest,
             addr .. addr + n - 1 \subseteq UserPages, Request(addr, n)
      PROVE  PagingIInv'
  <2>1. /\ UNCHANGED <<current_page_dir, pd, mem, granted, unloaded>> /\ UNCHANGED vars
        /\ call = Idle
        /\ call' = [op |-> "enter", addr |-> addr, n |-> n, base |-> NULL, i |-> 0, mmap |-> FALSE]
    BY <1>1 DEF Request, Ready, Idle
  <2>2. IInv' /\ held' = held
    BY <2>1, Untouched
  <2>3. addr \in Nat
    BY UserPageEntry
  <2>4. /\ call' \in CallType /\ call'.op = "enter" /\ call'.i = 0 /\ call'.addr = addr
        /\ call'.n = n /\ ~call'.mmap /\ call.op = "idle"
    BY <2>1, <2>3, <1>0 DEF Idle, CallType, NULL
  <2>5. \A j \in 0 .. n - 1 : PD_INDEX(addr + j) \in Entries \ {0, KernelEntry}
    <3>1. \A j \in 0 .. n - 1 : addr + j \in UserPages
      BY <1>1, <2>3, <1>0
    <3> QED
      BY <3>1, UserPageEntry
  <2>6. CallRight' /\ FreeForMmap'
    BY <2>1, <2>2, <2>4, <2>5 DEF CallRight, FreeForMmap, Present
  <2> QED
    BY <2>1, <2>2, <2>4, <2>6, Quiet
<1>2. CASE AllocateData
  <2>1. /\ AllocateBlocks(call.n) /\ call.op = "enter"
        /\ UNCHANGED <<current_page_dir, pd, mem, granted, unloaded>>
        /\ call' = [call EXCEPT !.op = "map", !.base = reply'.base]
    BY <1>2 DEF AllocateData
  <2>2. call.n \in 1 .. MaxRequest /\ call.i = 0
    BY <2>1, <1>0 DEF CallRight, CallType
  <2>3. /\ IInv' /\ reply'.base \in Nat /\ held' = held \cup {<<reply'.base, call.n>>}
        /\ \A r \in held : r # <<reply'.base, call.n>>
    BY <2>1, <2>2, Allocated
  <2>4. /\ call' \in CallType /\ call'.op = "map" /\ call'.i = 0 /\ call'.addr = call.addr
        /\ call'.n = call.n /\ call'.base = reply'.base /\ call'.mmap = call.mmap
    BY <2>1, <2>2, <2>3, <1>0 DEF CallType
  <2>5. CallRight' /\ CallRun' \notin held
    BY <2>1, <2>2, <2>3, <2>4 DEF CallRight, CallRun, Present
  <2>6. FreeForMmap'
    BY <2>1, <2>4 DEF FreeForMmap, Translation, TableOf
  <2> QED
    BY <2>1, <2>2, <2>3, <2>4, <2>5, <2>6, Quiet
<1>3. CASE AllocateDataFails
  <2>1. /\ AllocateBlocksFails(call.n) /\ call.op = "enter" /\ call.n \in 0 .. MaxRequest
        /\ UNCHANGED <<current_page_dir, pd, mem, granted, unloaded>>
        /\ call' = Idle
    BY <1>3, <1>0 DEF AllocateDataFails, CallType
  <2>2. IInv' /\ held' = held
    BY <2>1, NotAllocated
  <2>3. call' \in CallType /\ call'.op = "idle" /\ ~call'.mmap
    BY <2>1, IdleType DEF Idle
  <2>4. CallRight' /\ FreeForMmap'
    BY <2>1, <2>2, <2>3 DEF CallRight, FreeForMmap, Present
  <2> QED
    BY <2>1, <2>2, <2>3, <2>4, Quiet
<1> QED
  BY <1>1, <1>2, <1>3

\* The pages below the end of entry e are in entries up to e.
LEMMA EntryOfPage ==
  ASSUME NEW v \in Nat, NEW e \in Nat, v < (e + 1) * PagesPerTable
  PROVE  PD_INDEX(v) <= e
<1> DEFINE q == PD_INDEX(v)
<1>1. q \in Nat /\ PT_INDEX(v) \in Nat /\ v = PagesPerTable * q + PT_INDEX(v)
  BY PageIndex DEF Slots
<1>2. PagesPerTable \in Nat
  BY PagingAssumption
<1> HIDE DEF q
<1> SUFFICES ASSUME q >= e + 1 PROVE FALSE
  BY <1>1 DEF q
<1>3. PagesPerTable * q >= PagesPerTable * (e + 1)
  BY <1>1, <1>2
<1>4. PagesPerTable * (e + 1) = (e + 1) * PagesPerTable
  BY <1>2
<1> QED
  BY <1>1, <1>2, <1>3, <1>4

\* mmap's scan, but for the tables it makes; and a table that faults.
LEMMA ScanKeeps ==
  ASSUME PagingIInv, TablesSound,
         \/ \E n \in 1 .. MaxMmap : Mmap(n)
         \/ ScanFails \/ ScanFinds \/ ScanGoesOn \/ TableFaults
  PROVE  PagingIInv'
<1> USE DEF PagingIInv, TablesSound
<1>0. /\ call \in CallType /\ 1 \in 0 .. MaxRequest /\ 0 \in 0 .. MaxRequest /\ 0 \in Entries
      /\ 1 \in 1 .. MaxRequest /\ \A n \in 1 .. MaxMmap : n \in 1 .. 2 /\ n \in 0 .. MaxRequest
  <2>1. /\ MaxRequest \in Nat /\ MaxRequest >= 3 /\ MaxMmap \in 1 .. 2
        /\ TablesPerDirectory \in Nat \ {0}
    BY PagingAssumption, MaxRequestAssumption
  <2>2. call \in CallType
    BY DEF PagingTypeOK, CallType
  <2>3. 0 \in Entries
    BY <2>1 DEF Entries
  <2>4. \A n \in 1 .. MaxMmap : n \in 1 .. 2 /\ n \in 0 .. MaxRequest
    BY <2>1
  <2> QED
    BY <2>1, <2>2, <2>3, <2>4
<1>1. ASSUME NEW n \in 1 .. MaxMmap, Mmap(n) PROVE PagingIInv'
  <2>1. /\ UNCHANGED <<current_page_dir, pd, mem, granted, unloaded>> /\ UNCHANGED vars
        /\ call = Idle
        /\ call' = [op |-> "scan", addr |-> 0, n |-> n, base |-> NULL, i |-> 0, mmap |-> TRUE]
    BY <1>1 DEF Mmap, Ready, Idle
  <2>2. IInv' /\ held' = held
    BY <2>1, Untouched
  <2>3. call' \in CallType /\ call'.op = "scan" /\ call'.i = 0 /\ call'.n = n /\ call.op = "idle"
    BY <2>1, <1>0 DEF Idle, CallType, NULL
  <2>4. CallRight' /\ FreeForMmap'
    BY <2>1, <2>2, <2>3, <1>0 DEF CallRight, FreeForMmap, Present
  <2> QED
    BY <2>1, <2>2, <2>3, <2>4, Quiet
<1>2. CASE ScanFails
  <2>1. /\ AllocateBlocksFails(1) /\ call.op = "scan" /\ call' = Idle
        /\ UNCHANGED <<current_page_dir, pd, mem, granted, unloaded>>
    BY <1>2 DEF ScanFails, Scanning
  <2>2. IInv' /\ held' = held
    BY <2>1, <1>0, NotAllocated
  <2>3. call' \in CallType /\ call'.op = "idle" /\ ~call'.mmap
    BY <2>1, IdleType DEF Idle
  <2>4. CallRight' /\ FreeForMmap'
    BY <2>1, <2>2, <2>3 DEF CallRight, FreeForMmap, Present
  <2> QED
    BY <2>1, <2>2, <2>3, <2>4, Quiet
<1>3. CASE ScanFinds
  <2>1. PICK b \in FreePages(call.i, 1) :
          /\ call' = [call EXCEPT !.op = "enter", !.addr = b, !.i = 0]
          /\ UNCHANGED <<current_page_dir, pd, mem, granted, unloaded>> /\ UNCHANGED vars
          /\ call.op = "scan"
    BY <1>3 DEF ScanFinds, Scanning
  <2>2. IInv' /\ held' = held
    BY <2>1, Untouched
  <2>3. call.i \in Nat /\ call.i \in Entries /\ call.n \in 1 .. MaxMmap
    BY <2>1 DEF CallRight, Entries
  <2>4. /\ b \in Nat /\ b + 1 < (call.i + 1) * PagesPerTable
        /\ \A v \in b .. b + 1 : Translation(v) = NotPresent
    <3>1. (call.i + 1) * PagesPerTable \in Int
      BY <2>3, PagingAssumption
    <3> QED
      BY <3>1 DEF FreePages
  <2>5. \A j \in 0 .. call.n - 1 : /\ PD_INDEX(b + j) \in Entries \ {0, KernelEntry}
                                  /\ Translation(b + j) = NotPresent
    <3> SUFFICES ASSUME NEW j \in 0 .. call.n - 1
                 PROVE  /\ PD_INDEX(b + j) \in Entries \ {0, KernelEntry}
                        /\ Translation(b + j) = NotPresent
      OBVIOUS
    <3>1. j \in 0 .. 1
      BY <2>3, <1>0
    <3>2. b + j \in Nat /\ b + j \in b .. b + 1 /\ b + j < (call.i + 1) * PagesPerTable
      BY <2>3, <2>4, <3>1, PagingAssumption
    <3>3. PD_INDEX(b + j) <= call.i /\ PD_INDEX(b + j) \in Nat
      BY <2>3, <3>2, EntryOfPage, PageIndex
    <3>4. call.i <= TablesPerDirectory - 1 /\ TablesPerDirectory \in Nat
      BY <2>3, PagingAssumption DEF Entries
    <3>5. PD_INDEX(b + j) \in Entries
      BY <2>3, <3>3, <3>4 DEF Entries
    <3>6. Translation(b + j) = NotPresent
      BY <2>4, <3>2
    <3>7. PD_INDEX(b + j) \notin {0, KernelEntry}
      BY <2>1, <3>2, <3>6 DEF BootTables
    <3> QED
      BY <3>5, <3>6, <3>7
  <2>6. /\ call' \in CallType /\ call'.op = "enter" /\ call'.i = 0 /\ call'.addr = b
        /\ call'.n = call.n
    BY <2>1, <2>4, <1>0 DEF CallType
  <2>7. CallRight'
    BY <2>1, <2>2, <2>3, <2>5, <2>6, <1>0 DEF CallRight, Present
  <2>8. FreeForMmap'
    BY <2>1, <2>5, <2>6 DEF FreeForMmap, Translation, TableOf
  <2> QED
    BY <2>1, <2>2, <2>6, <2>7, <2>8, Quiet
<1>4. CASE ScanGoesOn
  <2>1. /\ call' = IF call.i + 1 \in Entries THEN [call EXCEPT !.i = @ + 1] ELSE Idle
        /\ UNCHANGED <<current_page_dir, pd, mem, granted, unloaded>> /\ UNCHANGED vars
        /\ call.op = "scan"
    BY <1>4 DEF ScanGoesOn, Scanning
  <2>2. IInv' /\ held' = held
    BY <2>1, Untouched
  <2>3. CASE call.i + 1 \in Entries
    <3>1. call' \in CallType /\ call'.op = "scan" /\ call'.i = call.i + 1 /\ call'.n = call.n
      BY <2>1, <2>3, <1>0 DEF CallType
    <3>2. CallRight' /\ FreeForMmap'
      BY <2>1, <2>2, <2>3, <3>1 DEF CallRight, FreeForMmap, Present
    <3> QED
      BY <2>1, <2>2, <3>1, <3>2, Quiet
  <2>4. CASE call.i + 1 \notin Entries
    <3>1. call' \in CallType /\ call'.op = "idle" /\ ~call'.mmap
      BY <2>1, <2>4, IdleType DEF Idle
    <3>2. CallRight' /\ FreeForMmap'
      BY <2>1, <2>2, <3>1 DEF CallRight, FreeForMmap, Present
    <3> QED
      BY <2>1, <2>2, <3>1, <3>2, Quiet
  <2> QED
    BY <2>3, <2>4
<1>5. CASE TableFaults
  <2>1. /\ AllocateBlocks(1) /\ call.op \in {"map", "scan"} /\ call' = Panic
        /\ UNCHANGED <<current_page_dir, pd, mem, granted, unloaded>>
    BY <1>5 DEF TableFaults, TableNeeded, Mapping, Scanning
  <2>2. IInv' /\ held' = held \cup {<<reply'.base, 1>>}
    BY <2>1, <1>0, Allocated
  <2>3. call' \in CallType /\ call'.op = "panic" /\ ~call'.mmap
    BY <2>1, IdleType DEF Panic, Idle, CallType
  <2>4. CallRight' /\ FreeForMmap'
    BY <2>1, <2>2, <2>3 DEF CallRight, FreeForMmap, Present
  <2> QED
    BY <2>1, <2>2, <2>3, <2>4, Quiet
<1> QED
  BY <1>1, <1>2, <1>3, <1>4, <1>5

-----------------------------------------------------------------------------
(* Steps that make a table                                                 *)

\* The blocks of a run that somebody has are in the machine.
LEMMA HeldInBits ==
  ASSUME IInv, NEW r \in held
  PROVE  r[1] \in Bits /\ Run(r[1], r[2]) \subseteq Bits
<1>1. r[1] \in Nat /\ r[2] \in 1 .. MaxRequest /\ r[1] < max_blocks
  BY DEF IInv, TypeOK, RunsInside
<1>2. r[1] \in Run(r[1], r[2])
  BY <1>1, MaxRequestAssumption DEF Run
<1> QED
  BY <1>1, <1>2, RunInBits

\* A table in a block of its own changes no other entry's pages.
LEMMA NewTable ==
  ASSUME pd \in [Entries -> Bits \cup {NotPresent}],
         mem \in [Bits -> [Slots -> Nat \cup {NotPresent}]],
         NEW e \in Entries, NEW b \in Bits, NEW t,
         \A d \in Entries : Present(d) => pd[d] # b,
         pd' = [pd EXCEPT ![e] = b], mem' = [mem EXCEPT ![b] = t],
         NEW v \in Nat, PD_INDEX(v) \in Entries
  PROVE  /\ PD_INDEX(v) # e => Translation(v)' = Translation(v)
         /\ PD_INDEX(v) = e => Translation(v)' = t[PT_INDEX(v)]
<1>1. b # NotPresent
  BY DEF Bits, NotPresent
<1>2. CASE PD_INDEX(v) # e
  <2>1. pd'[PD_INDEX(v)] = pd[PD_INDEX(v)]
    BY <1>2
  <2>2. Present(PD_INDEX(v)) => mem'[pd[PD_INDEX(v)]] = mem[pd[PD_INDEX(v)]]
    BY DEF Present
  <2> QED
    BY <1>2, <2>1, <2>2 DEF Translation, TableOf, Present
<1>3. CASE PD_INDEX(v) = e
  <2>1. pd'[PD_INDEX(v)] = b /\ mem'[b] = t
    BY <1>3
  <2> QED
    BY <1>1, <1>3, <2>1 DEF Translation, TableOf
<1> QED
  BY <1>2, <1>3

\* The table of the identity mapping is nobody's data.
LEMMA BootIdentityKeeps ==
  ASSUME PagingIInv, TablesSound, BootIdentityTable
  PROVE  PagingIInv'
<1> USE DEF PagingIInv, TablesSound
<1> DEFINE b == reply'.base
           kernel == [k \in Slots |-> layout.kernel_location \div BlockSize + k]
           identity == [k \in Slots |-> k]
<1>0. /\ 0 \in Entries /\ KernelEntry \in Entries /\ KernelEntry # 0 /\ 1 \in 1 .. MaxRequest
      /\ call \in CallType
  BY PagingAssumption, MaxRequestAssumption DEF Entries, PagingTypeOK, CallType
<1>1. /\ AllocateBlocks(1)
      /\ call.op = "boot" /\ call.i = 2
      /\ call' = IF {call.addr, call.base, b} \subseteq Slots THEN Idle ELSE Panic
      /\ mem' = [mem EXCEPT ![call.base] = kernel, ![b] = identity]
      /\ pd' = [pd EXCEPT ![KernelEntry] = call.base, ![0] = b]
      /\ current_page_dir' = call.addr
      /\ UNCHANGED <<granted, unloaded>>
  BY DEF BootIdentityTable
<1>2. /\ IInv' /\ b \in Bits /\ held' = held \cup {<<b, 1>>}
      /\ \A r \in held : r # <<b, 1>> /\ r[1] # b
  BY <1>0, <1>1, Allocated
<1>3. /\ <<call.addr, 3>> \in held /\ <<call.base, 1>> \in held
      /\ granted = {} /\ \A e \in Entries : pd[e] = NotPresent
  BY <1>1 DEF CallRight, Present
<1>4. call.base \in Bits /\ call.base # b /\ call.addr \in Nat
  BY <1>0, <1>2, <1>3, HeldInBits DEF CallType
<1> HIDE DEF b
<1>5. pd' \in [Entries -> Bits \cup {NotPresent}]
  BY <1>1, <1>2, <1>4 DEF PagingTypeOK
<1>6. /\ pd'[KernelEntry] = call.base /\ pd'[0] = b
      /\ \A e \in Entries \ {0, KernelEntry} : pd'[e] = NotPresent
  BY <1>0, <1>1, <1>3 DEF PagingTypeOK
<1>7. mem' \in [Bits -> [Slots -> Nat \cup {NotPresent}]]
  <2>1. layout.kernel_location \in Nat
    BY LayoutsAssumption DEF IInv, TypeOK
  <2>2. layout.kernel_location \div BlockSize \in Nat
    BY <2>1, UnitsAssumption
  <2>3. kernel \in [Slots -> Nat] /\ identity \in [Slots -> Nat]
    BY <2>2 DEF Slots
  <2> HIDE DEF kernel, identity
  <2> QED
    BY <1>1, <2>3 DEF PagingTypeOK
<1>8. /\ call' \in CallType /\ call'.op \in {"idle", "panic"} /\ ~call'.mmap
      /\ call' # Panic => {call.addr, call.base, b} \subseteq Slots
  BY <1>1, IdleType DEF Idle, Panic, CallType
<1>9. PagingTypeOK'
  BY <1>1, <1>2, <1>4, <1>5, <1>7, <1>8 DEF PagingTypeOK, CallType, IInv
<1>10. CallRight'
  BY <1>1, <1>2, <1>3, <1>8 DEF CallRight
<1>11. TablesOwned'
  BY <1>0, <1>2, <1>3, <1>4, <1>6, <1>8 DEF TablesOwned, Present
<1>12. DataOwned' /\ GrantsMapped' /\ CallMapped' /\ FreeForMmap'
  BY <1>1, <1>3, <1>8 DEF DataOwned, GrantsMapped, CallMapped, FreeForMmap
<1>13. NothingElse'
  BY <1>6 DEF NothingElse, Translation
<1>14. \A v \in Nat : /\ PD_INDEX(v) = 0 => Translation(v)' = v
                      /\ PD_INDEX(v) = KernelEntry =>
                           Translation(v)' = layout.kernel_location \div BlockSize + PT_INDEX(v)
  <2> SUFFICES ASSUME NEW v \in Nat
               PROVE  /\ PD_INDEX(v) = 0 => Translation(v)' = v
                      /\ PD_INDEX(v) = KernelEntry =>
                           Translation(v)' = layout.kernel_location \div BlockSize + PT_INDEX(v)
    OBVIOUS
  <2>1. PT_INDEX(v) \in Slots /\ (PD_INDEX(v) = 0 => PT_INDEX(v) = v)
    BY PageIndex, PagingAssumption DEF Slots
  <2>2. /\ mem'[call.base] = kernel /\ mem'[b] = identity
        /\ call.base # NotPresent /\ b # NotPresent
    BY <1>1, <1>2, <1>4 DEF PagingTypeOK, Bits, NotPresent
  <2>3. CASE PD_INDEX(v) = 0
    BY <1>0, <1>6, <2>1, <2>2, <2>3 DEF Translation, TableOf
  <2>4. CASE PD_INDEX(v) = KernelEntry
    BY <1>0, <1>6, <2>1, <2>2, <2>4 DEF Translation, TableOf
  <2> QED
    BY <2>3, <2>4
<1>15. BootTables'
  <2>1. layout.kernel_location \div BlockSize \in Nat
    <3>1. layout.kernel_location \in Nat
      BY LayoutsAssumption DEF IInv, TypeOK
    <3> QED
      BY <3>1, UnitsAssumption
  <2>2. \A v \in Nat : PT_INDEX(v) \in Nat
    BY PageIndex DEF Slots
  <2> QED
    BY <1>14, <2>1, <2>2 DEF BootTables, NotPresent
<1>16. TablesReached'
  <2>1. \A t \in Slots : PD_INDEX(t) = 0
    BY PagingAssumption DEF Slots, PD_INDEX
  <2>2. ASSUME call' # Panic, NEW e \in Entries, NEW t \in Bits, pd'[e] = t
        PROVE  PD_INDEX(t) \in {0, KernelEntry} /\ Translation(t)' = t
    <3>1. t \in {call.base, b}
      BY <1>6, <2>2 DEF Bits, NotPresent
    <3>2. t \in Nat /\ PD_INDEX(t) = 0
      BY <1>8, <2>1, <2>2, <3>1 DEF Bits
    <3> QED
      BY <1>14, <3>2
  <2> QED
    BY <2>2 DEF TablesReached
<1> QED
  BY <1>1, <1>2, <1>9, <1>10, <1>11, <1>12, <1>13, <1>15, <1>16

\* A block that is nobody's is mapped to itself by boot's tables alone.
LEMMA NewTableReached ==
  ASSUME PagingIInv, TablesSound, call.op \in {"map", "scan"}, NEW b \in Bits, Reached(b),
         \A r \in held : b \notin Run(r[1], r[2])
  PROVE  PD_INDEX(b) \in {0, KernelEntry}
<1> USE DEF PagingIInv
<1> SUFFICES ASSUME PD_INDEX(b) \notin {0, KernelEntry} PROVE FALSE
  OBVIOUS
<1>1. b \in Nat /\ Translation(b) = b /\ b # NotPresent
  BY DEF Reached, Bits, NotPresent
<1>2. PD_INDEX(b) \in Entries
  <2>1. TablesPerDirectory - 1 \in Nat /\ b < (TablesPerDirectory - 1 + 1) * PagesPerTable
    BY MapBitsAssumption, PagingAssumption DEF Bits
  <2>2. PD_INDEX(b) <= TablesPerDirectory - 1 /\ PD_INDEX(b) \in Nat
    BY <1>1, <2>1, EntryOfPage, PageIndex
  <2> QED
    BY <2>1, <2>2 DEF Entries
<1>3. \/ <<b, b>> \in granted
      \/ call.op = "map" /\ b \in call.addr .. call.addr + call.i - 1
  BY <1>1, <1>2 DEF NothingElse
<1>4. CASE <<b, b>> \in granted
  BY <1>4 DEF DataOwned
<1>5. CASE call.op = "map" /\ b \in call.addr .. call.addr + call.i - 1
  <2>1. call.addr \in Nat /\ call.base \in Nat /\ call.n \in Nat /\ call.i \in 0 .. call.n
    BY <1>5 DEF PagingTypeOK, CallRight
  <2>2. b - call.addr \in 0 .. call.i - 1 /\ call.addr + (b - call.addr) = b
    BY <1>1, <1>5, <2>1
  <2>3. b = call.base + (b - call.addr)
    BY <1>1, <1>5, <2>2 DEF CallMapped
  <2>4. b \in Run(call.base, call.n)
    BY <2>1, <2>2, <2>3 DEF Run
  <2>5. <<call.base, call.n>> \in held
    BY <1>5 DEF CallRight
  <2> QED
    BY <2>4, <2>5
<1> QED
  BY <1>3, <1>4, <1>5

\* Boot's tables change neither when a table is added nor when pages of other
\* entries are mapped and unmapped.
LEMMA ReachedKept ==
  ASSUME PagingIInv, TablesSound, call.op \in {"map", "scan"},
         \A v \in Nat : PD_INDEX(v) \in {0, KernelEntry} => Translation(v)' = Translation(v),
         \A e \in Entries, t \in Bits :
           pd'[e] = t => pd[e] = t \/ (PD_INDEX(t) \in {0, KernelEntry} /\ Translation(t) = t)
  PROVE  BootTables' /\ TablesReached'
<1> USE DEF PagingIInv
<1>1. BootTables'
  BY DEF BootTables
<1>2. call # Panic /\ Bits \subseteq Nat
  BY DEF Panic, Idle, Bits
<1>3. \A e \in Entries, t \in Bits :
        pd'[e] = t => PD_INDEX(t) \in {0, KernelEntry} /\ Translation(t) = t
  BY <1>2 DEF TablesReached
<1> QED
  BY <1>1, <1>2, <1>3 DEF TablesReached

\* mmap's scan makes a table.
LEMMA ScanTableKeeps ==
  ASSUME PagingIInv, TablesSound, ScanNewTable
  PROVE  PagingIInv'
<1> USE DEF PagingIInv, TablesSound
<1> DEFINE b == reply'.base
<1>0. 1 \in 1 .. MaxRequest /\ call \in CallType
  BY MaxRequestAssumption DEF PagingTypeOK, CallType
<1>1. /\ AllocateBlocks(1) /\ call.op = "scan" /\ pd[call.i] = NotPresent
      /\ Reached(b)
      /\ pd' = [pd EXCEPT ![call.i] = b]
      /\ mem' = [mem EXCEPT ![b] = EmptyTable]
      /\ UNCHANGED <<current_page_dir, call, granted, unloaded>>
  BY DEF ScanNewTable, Scanning
<1>2. /\ IInv' /\ b \in Bits /\ held' = held \cup {<<b, 1>>}
      /\ \A r \in held : r # <<b, 1>> /\ r[1] # b
      /\ \A r \in held : Run(r[1], r[2]) \cap Run(b, 1) = {}
  BY <1>0, <1>1, Allocated
<1>3. \A e \in Entries : Present(e) => pd[e] # b
  BY <1>2 DEF TablesOwned
<1>4. PD_INDEX(b) \in {0, KernelEntry} /\ Translation(b) = b
  <2>1. b \in Run(b, 1)
    BY <1>2 DEF Run, Bits
  <2>2. \A r \in held : b \notin Run(r[1], r[2])
    BY <1>2, <2>1
  <2> HIDE DEF b
  <2> QED
    BY <1>1, <1>2, <2>2, NewTableReached DEF Reached
<1>5. call.i \in Entries
  BY <1>1 DEF CallRight
<1>6. \A v \in Nat : PD_INDEX(v) \in Entries =>
        /\ PD_INDEX(v) # call.i => Translation(v)' = Translation(v)
        /\ PD_INDEX(v) = call.i => Translation(v)' = NotPresent /\ Translation(v) = NotPresent
  <2>1. ASSUME NEW v \in Nat, PD_INDEX(v) \in Entries
        PROVE  /\ PD_INDEX(v) # call.i => Translation(v)' = Translation(v)
               /\ PD_INDEX(v) = call.i => Translation(v)' = EmptyTable[PT_INDEX(v)]
    <3>1. /\ pd \in [Entries -> Bits \cup {NotPresent}]
          /\ mem \in [Bits -> [Slots -> Nat \cup {NotPresent}]]
      BY DEF PagingTypeOK
    <3>2. /\ \A d \in Entries : Present(d) => pd[d] # b
          /\ pd' = [pd EXCEPT ![call.i] = b] /\ mem' = [mem EXCEPT ![b] = EmptyTable]
          /\ b \in Bits
      BY <1>1, <1>2, <1>3
    <3> HIDE DEF b, PagingIInv, TablesSound
    <3> QED
      BY <1>5, <2>1, <3>1, <3>2, NewTable
  <2>2. \A v \in Nat : EmptyTable[PT_INDEX(v)] = NotPresent
    BY PageIndex DEF EmptyTable
  <2>3. \A v \in Nat : PD_INDEX(v) = call.i => Translation(v) = NotPresent
    BY <1>1 DEF Translation
  <2> QED
    BY <2>1, <2>2, <2>3
<1>7. PagingTypeOK'
  <2>1. EmptyTable \in [Slots -> Nat \cup {NotPresent}]
    BY DEF EmptyTable
  <2>2. pd' \in [Entries -> Bits \cup {NotPresent}]
        /\ mem' \in [Bits -> [Slots -> Nat \cup {NotPresent}]]
    BY <1>2, <1>1, <1>5, <2>1 DEF PagingTypeOK
  <2> QED
    BY <1>1, <1>2, <1>5, <2>2 DEF PagingTypeOK, IInv
<1>8. /\ \A e \in Entries \ {call.i} : pd'[e] = pd[e]
      /\ pd'[call.i] = b
  BY <1>1, <1>5 DEF PagingTypeOK
<1>9. CallRight'
  BY <1>1, <1>2, <1>5 DEF CallRight
<1>10. TablesOwned'
  BY <1>1, <1>2, <1>3, <1>5, <1>8 DEF TablesOwned, Present
<1>11. DataOwned'
  <2>1. \A r \in held : DataRun(r) => r \in held' /\ DataRun(r)'
    BY <1>1, <1>2, <1>5, <1>8 DEF DataRun
  <2> QED
    BY <1>1, <2>1 DEF DataOwned
<1>12. GrantsMapped'
  <2>1. \A g \in granted : g[1] \in Nat /\ g[2] # NotPresent
    BY DEF PagingTypeOK, Bits, NotPresent
  <2> QED
    BY <1>1, <1>6, <2>1 DEF GrantsMapped
<1>13. CallMapped' /\ FreeForMmap'
  BY <1>1, <1>5 DEF CallMapped, FreeForMmap
<1>14. NothingElse'
  <2>1. \A v \in Nat : PD_INDEX(v) \in Entries /\ Translation(v)' # NotPresent
                         => Translation(v)' = Translation(v)
    BY <1>6
  <2> QED
    BY <1>1, <2>1 DEF NothingElse
<1>15. BootTables' /\ TablesReached'
  <2>1. call.i \notin {0, KernelEntry} /\ {0, KernelEntry} \subseteq Entries
    <3>1. {0, KernelEntry} \subseteq Entries
      BY PagingAssumption DEF Entries
    <3>2. ASSUME call.i \in {0, KernelEntry} PROVE FALSE
      <4>1. call.i * PagesPerTable \in Nat /\ PD_INDEX(call.i * PagesPerTable) = call.i
        BY <1>5, PagingAssumption DEF Entries, PD_INDEX
      <4> QED
        BY <1>1, <1>6, <3>2, <4>1, <1>5 DEF BootTables
    <3> QED
      BY <3>1, <3>2
  <2>2. \A v \in Nat : PD_INDEX(v) \in {0, KernelEntry} => Translation(v)' = Translation(v)
    BY <1>6, <2>1
  <2>3. \A e \in Entries, t \in Bits :
          pd'[e] = t => pd[e] = t \/ (PD_INDEX(t) \in {0, KernelEntry} /\ Translation(t) = t)
    BY <1>4, <1>8
  <2> QED
    BY <1>1, <2>2, <2>3, ReachedKept
<1> QED
  BY <1>1, <1>2, <1>7, <1>9, <1>10, <1>11, <1>12, <1>13, <1>14, <1>15

\* A table cleared through another block's page; only the types are kept.
LEMMA ClobberKeeps ==
  ASSUME PagingIInv, TablesSound, TableClobbers
  PROVE  PagingIInv'
<1> DEFINE b == reply'.base
<1>1. PICK e \in Entries, stale \in {NotPresent, 0} :
        /\ AllocateBlocks(1)
        /\ pd' = [pd EXCEPT ![e] = b]
        /\ mem' = [mem EXCEPT
                     ![b] = [k \in Slots |-> stale],
                     ![Translation(b)] =
                        IF Mapping THEN [EmptyTable EXCEPT ![PT_INDEX(Page)] = call.base + call.i]
                        ELSE EmptyTable]
        /\ call' = Clobbered
        /\ UNCHANGED <<current_page_dir, granted, unloaded>>
  BY DEF TableClobbers
<1>2. 1 \in 1 .. MaxRequest /\ IInv /\ PagingTypeOK
  BY MaxRequestAssumption DEF PagingIInv
<1>3. IInv' /\ b \in Bits
  BY <1>1, <1>2, Allocated
<1>4. /\ [k \in Slots |-> stale] \in [Slots -> Nat \cup {NotPresent}]
      /\ EmptyTable \in [Slots -> Nat \cup {NotPresent}]
  BY DEF EmptyTable
<1>5. call.base + call.i \in Nat
  <2>1. call.base \in Nat /\ call.i \in Nat
    BY <1>2, MaxRequestAssumption DEF PagingTypeOK, Entries
  <2> QED
    BY <2>1
<1> DEFINE filled == IF Mapping
                     THEN [EmptyTable EXCEPT ![PT_INDEX(Page)] = call.base + call.i]
                     ELSE EmptyTable
<1>6. filled \in [Slots -> Nat \cup {NotPresent}]
  BY <1>4, <1>5
<1>7. pd' \in [Entries -> Bits \cup {NotPresent}]
  BY <1>1, <1>2, <1>3 DEF PagingTypeOK
<1> HIDE DEF filled
<1>8. mem' = [mem EXCEPT ![b] = [k \in Slots |-> stale], ![Translation(b)] = filled]
  BY <1>1 DEF filled
<1>9. mem' \in [Bits -> [Slots -> Nat \cup {NotPresent}]]
  <2> HIDE DEF b
  <2> QED
    BY <1>2, <1>4, <1>6, <1>8 DEF PagingTypeOK
<1>10. call' \in CallType
  BY <1>1, IdleType DEF Clobbered, Idle, CallType
<1>11. PagingTypeOK'
  BY <1>1, <1>2, <1>3, <1>7, <1>9, <1>10 DEF PagingTypeOK, CallType, IInv
<1> QED
  BY <1>1, <1>11 DEF PagingIInv, TablesSound

-----------------------------------------------------------------------------
(* Steps that map and unmap pages                                          *)

\* The pages of a call before its i-th.
LEMMA EarlierPage ==
  ASSUME NEW a \in Nat, NEW i \in Nat, NEW n \in Nat, NEW j \in 0 .. i, j # i, i <= n - 1
  PROVE  j \in 0 .. i - 1 /\ a + j # a + i /\ j \in 0 .. n - 1
OBVIOUS

\* A page is mapped and every other one stays as it is.
LEMMA MappedKeeps ==
  ASSUME PagingIInv, TablesSound, Mapping, IInv', held \subseteq held', TablesOwned',
         UNCHANGED <<current_page_dir, unloaded>>,
         call' = [call EXCEPT !.i = @ + 1], granted' = Replaced,
         pd' \in [Entries -> Bits \cup {NotPresent}],
         mem' \in [Bits -> [Slots -> Nat \cup {NotPresent}]],
         \A r \in held : DataRun(r) => DataRun(r)',
         \A e \in Entries, t \in Bits :
           pd'[e] = t => pd[e] = t \/ (PD_INDEX(t) \in {0, KernelEntry} /\ Translation(t) = t),
         NEW a, NEW i, a = call.addr, i = call.i,
         Translation(a + i)' = call.base + i,
         \A v \in Nat : PD_INDEX(v) \in Entries /\ v # a + i => Translation(v)' = Translation(v)
  PROVE  PagingIInv'
<1> USE DEF PagingIInv, TablesSound
<1>1. /\ call.op = "map" /\ call.n \in 1 .. MaxRequest /\ i \in 0 .. call.n - 1
      /\ a \in Nat /\ call.base \in Nat /\ call \in CallType /\ MaxRequest \in Nat
      /\ Page = a + i
  BY MaxRequestAssumption DEF Mapping, PagingTypeOK, CallRight, CallType, Page
<1>2. \A j \in 0 .. call.n - 1 :
        a + j \in Nat /\ PD_INDEX(a + j) \in Entries \ {0, KernelEntry}
  BY <1>1 DEF CallRight
<1>3. /\ call'.op = "map" /\ call'.i = i + 1 /\ call'.n = call.n
      /\ call'.addr = a /\ call'.base = call.base /\ call'.mmap = call.mmap
      /\ call' \in CallType
  BY <1>1 DEF CallType
<1>4. \A g \in granted' : g \in granted /\ g[1] # a + i
  BY <1>1 DEF Replaced
<1>5. \A g \in granted : g[1] \in Nat
  BY DEF PagingTypeOK
<1>6. PagingTypeOK'
  BY <1>3, <1>4 DEF PagingTypeOK, CallType, IInv
<1>7. CallRight'
  BY <1>1, <1>3 DEF CallRight
<1>8. DataOwned'
  BY <1>4 DEF DataOwned
<1>9. GrantsMapped'
  BY <1>4, <1>5 DEF GrantsMapped
<1>10. CallMapped'
  <2>1. ASSUME NEW j \in 0 .. i
        PROVE  /\ Translation(a + j)' = call.base + j
               /\ \A g \in granted' : g[1] # a + j
    <3>1. CASE j = i
      BY <3>1, <1>4
    <3>2. CASE j # i
      <4>1. j \in 0 .. i - 1 /\ a + j # a + i /\ j \in 0 .. call.n - 1
        <5>1. i \in Nat /\ call.n \in Nat /\ i <= call.n - 1 /\ a \in Nat
          BY <1>1
        <5>2. j \in 0 .. i
          OBVIOUS
        <5> QED
          BY <3>2, <5>1, <5>2, EarlierPage
      <4>2. Translation(a + j)' = Translation(a + j)
        BY <4>1, <1>2
      <4> QED
        BY <4>1, <4>2, <1>1, <1>4 DEF CallMapped
    <3> QED
      BY <3>1, <3>2
  <2>2. \A j \in 0 .. call'.i - 1 : j \in 0 .. i
    BY <1>1, <1>3
  <2> QED
    BY <2>1, <2>2, <1>3 DEF CallMapped
<1>11. NothingElse'
  <2>1. ASSUME NEW v \in Nat, PD_INDEX(v) \in Entries \ {0, KernelEntry},
               Translation(v)' # NotPresent
        PROVE  <<v, Translation(v)'>> \in granted' \/ v \in a .. a + i
    <3>1. PD_INDEX(v) \in Entries
      BY <2>1
    <3>2. CASE v = a + i
      BY <3>2, <1>1
    <3>3. CASE v # a + i
      <4>1. Translation(v)' = Translation(v)
        BY <3>1, <3>3
      <4>2. <<v, Translation(v)>> \in granted \/ v \in a .. a + i - 1
        BY <1>1, <2>1, <4>1 DEF NothingElse
      <4> QED
        BY <3>3, <1>1, <4>1, <4>2 DEF Replaced
    <3> QED
      BY <3>2, <3>3
  <2> QED
    BY <2>1, <1>1, <1>3 DEF NothingElse
<1>12. FreeForMmap'
  <2>1. ASSUME call.mmap, NEW j \in i + 1 .. call.n - 1
        PROVE  Translation(a + j)' = NotPresent
    <3>1. j \in i .. call.n - 1 /\ j \in 0 .. call.n - 1 /\ a + j # a + i
      BY <1>1
    <3>2. Translation(a + j) = NotPresent
      BY <2>1, <3>1, <1>1 DEF FreeForMmap
    <3> QED
      BY <3>1, <3>2, <1>2
  <2> QED
    BY <2>1, <1>1, <1>3 DEF FreeForMmap
<1>13. BootTables' /\ TablesReached'
  <2>1. {0, KernelEntry} \subseteq Entries
    BY PagingAssumption DEF Entries
  <2>2. i \in 0 .. call.n - 1
    BY <1>1
  <2>3. \A v \in Nat : PD_INDEX(v) \in {0, KernelEntry} => Translation(v)' = Translation(v)
    BY <1>2, <2>1, <2>2
  <2> QED
    BY <1>1, <2>3, ReachedKept
<1> QED
  BY <1>6, <1>7, <1>8, <1>9, <1>10, <1>11, <1>12, <1>13

\* A page mapped through a table that is there.
LEMMA MapPageKeeps ==
  ASSUME PagingIInv, TablesSound, MapPage
  PROVE  PagingIInv'
<1> USE DEF PagingIInv, TablesSound
<1>1. PICK a \in Nat, i \in Nat : a = call.addr /\ i = call.i
  BY DEF MapPage, Mapping, PagingTypeOK, CallRight
<1> DEFINE p == a + i
           e == PD_INDEX(p)
           x == call.base + i
<1>2. /\ Mapping /\ Present(e) /\ UNCHANGED <<vars, current_page_dir, pd, unloaded>>
      /\ mem' = [mem EXCEPT ![TableOf(p)][PT_INDEX(p)] = x]
      /\ call' = [call EXCEPT !.i = @ + 1] /\ granted' = Replaced
  BY <1>1 DEF MapPage, EntryMissing, Present, Page
<1>3. IInv' /\ held' = held
  BY <1>2, Untouched
<1>4. call.op = "map" /\ p \in Nat /\ x \in Nat /\ e \in Entries
  BY <1>1, <1>2 DEF Mapping, PagingTypeOK, CallRight
<1>5. /\ pd \in [Entries -> Bits \cup {NotPresent}]
      /\ mem \in [Bits -> [Slots -> Nat \cup {NotPresent}]]
  BY DEF PagingTypeOK
<1> HIDE DEF p, x
<1>6. TableOf(p) = pd[e] /\ pd[e] \in Bits
  BY <1>2, <1>4, <1>5 DEF TableOf, Present
<1>7. PT_INDEX(p) \in Slots
  BY <1>4, PageIndex
<1>8. mem' \in [Bits -> [Slots -> Nat \cup {NotPresent}]]
  BY <1>2, <1>4, <1>5
<1>9. \A v \in Nat : PD_INDEX(v) \in Entries =>
        Translation(v)' = IF v = p THEN x ELSE Translation(v)
  <2> SUFFICES ASSUME NEW v \in Nat, PD_INDEX(v) \in Entries
               PROVE  Translation(v)' = IF v = p THEN x ELSE Translation(v)
    OBVIOUS
  <2> DEFINE d == PD_INDEX(v)
             k == PT_INDEX(v)
  <2>1. k \in Slots /\ (d = e /\ k = PT_INDEX(p) => v = p)
    BY <1>4, PageIndex, SamePage
  <2>2. CASE ~Present(d)
    <3>1. v # p
      BY <1>2, <2>2
    <3> QED
      BY <1>2, <2>2, <3>1 DEF Translation, Present
  <2>3. CASE Present(d)
    <3>1. pd[d] \in Bits
      BY <1>5, <2>3 DEF Present
    <3>2. d # e => pd[d] # pd[e]
      BY <1>2, <1>4, <2>3 DEF TablesOwned
    <3>3. mem'[pd[d]][k] = IF d = e /\ k = PT_INDEX(p) THEN x ELSE mem[pd[d]][k]
      BY <1>2, <1>5, <1>6, <1>7, <2>1, <3>1, <3>2
    <3>4. (v = p) = (d = e /\ k = PT_INDEX(p))
      BY <2>1
    <3>5. Translation(v)' = mem'[pd[d]][k] /\ Translation(v) = mem[pd[d]][k]
      BY <1>2, <2>3 DEF Translation, TableOf, Present
    <3> QED
      BY <3>3, <3>4, <3>5
  <2> QED
    BY <2>2, <2>3
<1>10. call'.op = "map" /\ CallRun' = CallRun
  BY <1>2, <1>4 DEF CallRun, PagingTypeOK
<1>11. TablesOwned'
  BY <1>2, <1>3, <1>4, <1>10 DEF TablesOwned, Present
<1>12. \A r \in held : DataRun(r) => DataRun(r)'
  BY <1>2, <1>3, <1>4, <1>10 DEF DataRun
<1>13. pd' \in [Entries -> Bits \cup {NotPresent}] /\ held \subseteq held'
  BY <1>2, <1>3, <1>5
<1>14. Translation(a + i)' = call.base + i
  BY <1>4, <1>9 DEF p, x
<1>15. \A v \in Nat : PD_INDEX(v) \in Entries /\ v # a + i => Translation(v)' = Translation(v)
  BY <1>9 DEF p
<1>16. UNCHANGED <<current_page_dir, pd, unloaded>>
  BY <1>2
<1> QED
  BY <1>1, <1>2, <1>3, <1>8, <1>11, <1>12, <1>13, <1>14, <1>15, <1>16, MappedKeeps

\* A page mapped through a table allocated for it.
LEMMA MapNewTableKeeps ==
  ASSUME PagingIInv, TablesSound, MapPageNewTable
  PROVE  PagingIInv'
<1> USE DEF PagingIInv, TablesSound
<1>0. PICK b : b = reply'.base
  OBVIOUS
<1>1. PICK a \in Nat, i \in Nat : a = call.addr /\ i = call.i
  BY DEF MapPageNewTable, Mapping, PagingTypeOK, CallRight
<1> DEFINE p == a + i
           e == PD_INDEX(p)
           x == call.base + i
           t == [EmptyTable EXCEPT ![PT_INDEX(p)] = x]
<1>2. /\ Mapping /\ pd[e] = NotPresent /\ AllocateBlocks(1)
      /\ UNCHANGED <<current_page_dir, unloaded>>
      /\ pd' = [pd EXCEPT ![e] = b] /\ mem' = [mem EXCEPT ![b] = t]
      /\ call' = [call EXCEPT !.i = @ + 1] /\ granted' = Replaced /\ Reached(b)
  BY <1>0, <1>1 DEF MapPageNewTable, EntryMissing, Page
<1>3. 1 \in 1 .. MaxRequest
  BY MaxRequestAssumption
<1>4. /\ IInv' /\ b \in Bits /\ held' = held \cup {<<b, 1>>}
      /\ \A r \in held : r # <<b, 1>> /\ r[1] # b
      /\ \A r \in held : Run(r[1], r[2]) \cap Run(b, 1) = {}
  BY <1>0, <1>1, <1>2, <1>3, Allocated
<1>5. call.op = "map" /\ p \in Nat /\ x \in Nat /\ e \in Entries /\ CallRun \in held
  BY <1>1, <1>2 DEF Mapping, PagingTypeOK, CallRight, CallRun
<1>6. /\ pd \in [Entries -> Bits \cup {NotPresent}]
      /\ mem \in [Bits -> [Slots -> Nat \cup {NotPresent}]]
  BY DEF PagingTypeOK
<1>7. \A d \in Entries : Present(d) => pd[d] # b
  BY <1>4 DEF TablesOwned
<1>8. \A k \in Slots : EmptyTable[k] = NotPresent
  BY DEF EmptyTable
<1>9. /\ t \in [Slots -> Nat \cup {NotPresent}]
      /\ \A k \in Slots : t[k] = IF k = PT_INDEX(p) THEN x ELSE NotPresent
  <2>1. EmptyTable \in [Slots -> Nat \cup {NotPresent}]
    BY DEF EmptyTable
  <2> HIDE DEF p, x
  <2> QED
    BY <1>5, <1>8, <2>1
<1> HIDE DEF t, p, x
<1>10. \A v \in Nat : PD_INDEX(v) \in Entries =>
         Translation(v)' = IF v = p THEN x ELSE Translation(v)
  <2> SUFFICES ASSUME NEW v \in Nat, PD_INDEX(v) \in Entries
               PROVE  Translation(v)' = IF v = p THEN x ELSE Translation(v)
    OBVIOUS
  <2>1. /\ PD_INDEX(v) # e => Translation(v)' = Translation(v)
        /\ PD_INDEX(v) = e => Translation(v)' = t[PT_INDEX(v)]
    <3>1. e \in Entries /\ b \in Bits /\ pd' = [pd EXCEPT ![e] = b] /\ mem' = [mem EXCEPT ![b] = t]
      BY <1>2, <1>4, <1>5
    <3> HIDE DEF PagingIInv
    <3> QED
      BY <1>6, <1>7, <3>1, NewTable
  <2>2. PD_INDEX(v) = e => Translation(v) = NotPresent
    BY <1>2 DEF Translation
  <2>3. PT_INDEX(v) \in Slots /\ (PD_INDEX(v) = e /\ PT_INDEX(v) = PT_INDEX(p) => v = p)
    BY <1>5, PageIndex, SamePage
  <2> QED
    BY <1>9, <2>1, <2>2, <2>3
<1>11. pd'[e] = b /\ \A d \in Entries \ {e} : pd'[d] = pd[d]
  BY <1>2, <1>5, <1>6
<1>12. call'.op = "map" /\ CallRun' = CallRun
  BY <1>2, <1>5 DEF CallRun, PagingTypeOK
<1>13. TablesOwned'
  BY <1>2, <1>4, <1>5, <1>7, <1>11, <1>12 DEF TablesOwned, Present
<1>14. \A r \in held : DataRun(r) => DataRun(r)'
  BY <1>2, <1>4, <1>5, <1>11, <1>12 DEF DataRun
<1>15. /\ pd' \in [Entries -> Bits \cup {NotPresent}] /\ held \subseteq held'
       /\ mem' \in [Bits -> [Slots -> Nat \cup {NotPresent}]]
  BY <1>2, <1>4, <1>5, <1>6, <1>9
<1>16. Translation(a + i)' = call.base + i
  BY <1>5, <1>10 DEF p, x
<1>17. \A v \in Nat : PD_INDEX(v) \in Entries /\ v # a + i => Translation(v)' = Translation(v)
  BY <1>10 DEF p
<1>18. PD_INDEX(b) \in {0, KernelEntry} /\ Translation(b) = b
  <2>1. b \in Run(b, 1)
    BY <1>4 DEF Run, Bits
  <2>2. \A r \in held : b \notin Run(r[1], r[2])
    BY <1>4, <2>1
  <2> QED
    BY <1>2, <1>4, <1>5, <2>2, NewTableReached DEF Reached
<1>19. \A d \in Entries, f \in Bits :
         pd'[d] = f => pd[d] = f \/ (PD_INDEX(f) \in {0, KernelEntry} /\ Translation(f) = f)
  BY <1>11, <1>18
<1> QED
  BY <1>0, <1>1, <1>2, <1>4, <1>13, <1>14, <1>15, <1>16, <1>17, <1>19, MappedKeeps

\* The caller gets the pages that were mapped.
LEMMA ReturnKeeps ==
  ASSUME PagingIInv, TablesSound, Return
  PROVE  PagingIInv'
<1> USE DEF PagingIInv, TablesSound
<1>1. PICK a \in Nat, n \in 1 .. MaxRequest, b \in Nat :
        a = call.addr /\ n = call.n /\ b = call.base
  BY MaxRequestAssumption DEF Return, PagingTypeOK, CallRight
<1> DEFINE new == {<<a + j, b + j>> : j \in 0 .. n - 1}
<1>2. /\ call.op = "map" /\ call.i = n /\ granted' = granted \cup new /\ call' = Idle
      /\ UNCHANGED <<vars, current_page_dir, pd, mem, unloaded>>
  BY <1>1 DEF Return
<1>3. IInv' /\ held' = held
  BY <1>2, Untouched
<1>4. CallRun \in held /\ CallRun = <<b, n>> /\ Run(b, n) \subseteq Bits
  BY <1>1, <1>2, HeldInBits DEF CallRight, CallRun
<1>5. \A j \in 0 .. n - 1 : /\ a + j \in Nat /\ PD_INDEX(a + j) \in Entries
                            /\ b + j \in Run(b, n)
                            /\ Translation(a + j) = b + j
                            /\ \A g \in granted : g[1] # a + j
  BY <1>1, <1>2, MaxRequestAssumption DEF CallRight, CallMapped, Run
<1>6. call'.op = "idle" /\ ~call'.mmap
  BY <1>2 DEF Idle
<1>7. \A v : Translation(v)' = Translation(v)
  BY <1>2 DEF Translation, TableOf
<1>8. PagingTypeOK'
  <2>1. new \subseteq Nat \X Bits
    BY <1>4, <1>5
  <2>2. granted' \subseteq Nat \X Bits
    BY <1>2, <2>1 DEF PagingTypeOK
  <2> HIDE DEF new
  <2> QED
    BY <1>2, <1>3, <2>2, IdleType DEF PagingTypeOK, CallType, IInv
<1>9. CallRight' /\ CallMapped' /\ FreeForMmap'
  BY <1>2, <1>3, <1>6 DEF CallRight, CallMapped, FreeForMmap
<1>10. TablesOwned'
  BY <1>2, <1>3, <1>6 DEF TablesOwned, Present
<1>11. DataOwned'
  <2>1. \A r \in held : DataRun(r) => DataRun(r)' /\ r # CallRun
    BY <1>2, <1>3, <1>6 DEF DataRun
  <2>2. DataRun(<<b, n>>)'
    BY <1>2, <1>3, <1>4, <1>6 DEF DataRun, TablesOwned
  <2>3. \A g \in new : g[2] \in Run(b, n) /\ \A h \in granted : g[1] # h[1]
    BY <1>5
  <2>4. \A g \in granted : \E r \in held : DataRun(r)' /\ r # CallRun /\ g[2] \in Run(r[1], r[2])
    BY <2>1 DEF DataOwned
  <2>5. \A g \in granted, h \in new : g[2] # h[2]
    <3> SUFFICES ASSUME NEW g \in granted, NEW h \in new, g[2] = h[2] PROVE FALSE
      OBVIOUS
    <3>1. PICK r \in held : r # CallRun /\ g[2] \in Run(r[1], r[2])
      BY <2>4
    <3>2. g[2] \in Run(CallRun[1], CallRun[2])
      BY <2>3, <1>4
    <3> QED
      BY <1>4, <3>1, <3>2, OneRun
  <2>6. \A g, h \in new : g # h => g[1] # h[1] /\ g[2] # h[2]
    OBVIOUS
  <2>7. <<b, n>> \in held /\ <<b, n>>[1] = b /\ <<b, n>>[2] = n
    BY <1>4
  <2>8. \A g \in granted' : \E r \in held' : DataRun(r)' /\ g[2] \in Run(r[1], r[2])
    <3> SUFFICES ASSUME NEW g \in granted'
                 PROVE  \E r \in held' : DataRun(r)' /\ g[2] \in Run(r[1], r[2])
      OBVIOUS
    <3>1. CASE g \in granted
      BY <3>1, <1>3, <2>4
    <3>2. CASE g \in new
      BY <3>2, <1>3, <2>2, <2>3, <2>7
    <3> HIDE DEF new
    <3> QED
      BY <1>2, <3>1, <3>2
  <2>9. \A g, h \in granted' : g # h => g[1] # h[1] /\ g[2] # h[2]
    <3> HIDE DEF new
    <3> QED
      BY <1>2, <2>3, <2>5, <2>6 DEF DataOwned
  <2> QED
    BY <2>8, <2>9 DEF DataOwned
<1>12. GrantsMapped'
  <2>1. \A g \in new : PD_INDEX(g[1]) \in Entries /\ Translation(g[1]) = g[2]
    BY <1>5
  <2> HIDE DEF new
  <2> QED
    BY <1>2, <1>7, <2>1 DEF GrantsMapped
<1>13. NothingElse'
  <2>1. ASSUME NEW v \in Nat, v \in a .. a + n - 1
        PROVE  <<v, Translation(v)>> \in new
    <3>2. v - a \in 0 .. n - 1 /\ a + (v - a) = v
      BY <1>1, <2>1
    <3> QED
      BY <1>5, <3>2
  <2> HIDE DEF new
  <2> QED
    BY <1>1, <1>2, <1>6, <1>7, <2>1 DEF NothingElse
<1>14. BootTables' /\ TablesReached'
  <2> HIDE DEF new
  <2> QED
    BY <1>2, <1>7, ReachedKept
<1> QED
  BY <1>2, <1>3, <1>8, <1>9, <1>10, <1>11, <1>12, <1>13, <1>14

\* What unmap_page leaves.
LEMMA UnmappedType ==
  ASSUME mem \in [Bits -> [Slots -> Nat \cup {NotPresent}]], NEW a, NEW n
  PROVE  /\ Unmapped(a, n) \in [Bits -> [Slots -> Nat \cup {NotPresent}]]
         /\ \A f \in Bits, k \in Slots :
              Unmapped(a, n)[f][k] =
                IF \E v \in a .. a + n - 1 : TableOf(v) = f /\ PT_INDEX(v) = k
                THEN NotPresent ELSE mem[f][k]
BY DEF Unmapped

\* allocate_new_page takes back what it mapped.
LEMMA RollbackKeeps ==
  ASSUME PagingIInv, TablesSound, Rollback
  PROVE  PagingIInv'
<1> USE DEF PagingIInv, TablesSound
<1>1. PICK a \in Nat, i \in Nat : a = call.addr /\ i = call.i
  BY DEF Rollback, Mapping, PagingTypeOK, CallRight
<1>2. /\ call.op = "map" /\ i < call.n /\ FreeBlocks(CallRun) /\ call' = Idle
      /\ mem' = Unmapped(a, i)
      /\ UNCHANGED <<current_page_dir, pd, granted, unloaded>>
  BY <1>1 DEF Rollback, Mapping, CallRun
<1>3. IInv' /\ held' = held \ {CallRun}
  BY <1>2, FreeIInv DEF FreeBlocks
<1>4. /\ pd \in [Entries -> Bits \cup {NotPresent}]
      /\ mem \in [Bits -> [Slots -> Nat \cup {NotPresent}]]
      /\ call.base \in Nat /\ call.n \in Nat
  BY DEF PagingTypeOK
<1>5. \A v \in a .. a + i - 1 : /\ v \in Nat /\ PD_INDEX(v) \in Entries \ {0, KernelEntry}
                                /\ Present(PD_INDEX(v))
                                /\ \A g \in granted : g[1] # v
  <2> SUFFICES ASSUME NEW v \in a .. a + i - 1
               PROVE  /\ v \in Nat /\ PD_INDEX(v) \in Entries \ {0, KernelEntry}
                      /\ Present(PD_INDEX(v))
                      /\ \A g \in granted : g[1] # v
    OBVIOUS
  <2>1. v \in Nat /\ v - a \in 0 .. i - 1 /\ v - a \in 0 .. call.n - 1 /\ a + (v - a) = v
    BY <1>1, <1>2, <1>4
  <2>2. PD_INDEX(v) \in Entries \ {0, KernelEntry}
    BY <1>1, <1>2, <2>1 DEF CallRight
  <2>3. Translation(v) = call.base + (v - a) /\ \A g \in granted : g[1] # v
    BY <1>1, <1>2, <2>1 DEF CallMapped
  <2>4. Translation(v) # NotPresent
    BY <1>4, <2>1, <2>3 DEF NotPresent
  <2> QED
    BY <2>1, <2>2, <2>3, <2>4 DEF Translation, Present
<1>6. \A v \in Nat : PD_INDEX(v) \in Entries =>
        Translation(v)' = IF v \in a .. a + i - 1 THEN NotPresent ELSE Translation(v)
  <2> SUFFICES ASSUME NEW v \in Nat, PD_INDEX(v) \in Entries
               PROVE  Translation(v)' = IF v \in a .. a + i - 1 THEN NotPresent ELSE Translation(v)
    OBVIOUS
  <2>1. CASE ~Present(PD_INDEX(v))
    BY <1>2, <2>1 DEF Translation, Present
  <2>2. CASE Present(PD_INDEX(v))
    <3> DEFINE f == pd[PD_INDEX(v)]
               k == PT_INDEX(v)
    <3>1. f \in Bits /\ k \in Slots
      BY <1>4, <2>2, PageIndex DEF Present
    <3>2. /\ TableOf(v) = f /\ Translation(v) = mem[f][k]
          /\ Translation(v)' = mem'[f][k]
      BY <1>2, <2>2 DEF Translation, TableOf, Present
    <3>3. \A w \in a .. a + i - 1 : TableOf(w) = f /\ PT_INDEX(w) = k => w = v
      <4> SUFFICES ASSUME NEW w \in a .. a + i - 1, TableOf(w) = f, PT_INDEX(w) = k
                   PROVE  w = v
        OBVIOUS
      <4>1. w \in Nat /\ PD_INDEX(w) \in Entries /\ Present(PD_INDEX(w))
        BY <1>5
      <4>2. pd[PD_INDEX(w)] = f
        BY <4>1 DEF TableOf, Present
      <4>3. PD_INDEX(w) = PD_INDEX(v)
        BY <2>2, <4>1, <4>2 DEF TablesOwned
      <4> QED
        BY <4>1, <4>3, SamePage
    <3>4. mem'[f][k] = IF \E w \in a .. a + i - 1 : TableOf(w) = f /\ PT_INDEX(w) = k
                       THEN NotPresent ELSE mem[f][k]
      BY <1>2, <1>4, <3>1, UnmappedType
    <3> QED
      BY <3>2, <3>3, <3>4
  <2> QED
    BY <2>1, <2>2
<1>7. call'.op = "idle" /\ ~call'.mmap
  BY <1>2 DEF Idle
<1>8. PagingTypeOK'
  <2>1. mem' \in [Bits -> [Slots -> Nat \cup {NotPresent}]]
    BY <1>2, <1>4, UnmappedType
  <2> QED
    BY <1>2, <1>3, <2>1, IdleType DEF PagingTypeOK, CallType, IInv
<1>9. CallRight'
  BY <1>2, <1>3, <1>7 DEF CallRight, TablesOwned
<1>10. TablesOwned'
  BY <1>2, <1>3, <1>7 DEF TablesOwned, Present
<1>11. DataOwned'
  <2>1. \A r \in held : DataRun(r) => r \in held' /\ DataRun(r)'
    BY <1>2, <1>3, <1>7 DEF DataRun
  <2> QED
    BY <1>2, <2>1 DEF DataOwned
<1>12. GrantsMapped'
  <2>1. \A g \in granted : g[1] \in Nat /\ g[1] \notin a .. a + i - 1
    BY <1>5 DEF PagingTypeOK
  <2> QED
    BY <1>2, <1>6, <2>1 DEF GrantsMapped
<1>13. CallMapped' /\ FreeForMmap'
  BY <1>7 DEF CallMapped, FreeForMmap
<1>14. NothingElse'
  <2>1. call'.op # "map"
    BY <1>7
  <2> QED
    BY <1>1, <1>2, <1>6, <2>1 DEF NothingElse
<1>15. BootTables' /\ TablesReached'
  <2>1. {0, KernelEntry} \subseteq Entries
    BY PagingAssumption DEF Entries
  <2>2. \A v \in Nat : PD_INDEX(v) \in {0, KernelEntry} => Translation(v)' = Translation(v)
    BY <1>5, <1>6, <2>1
  <2> QED
    BY <1>2, <2>2, ReachedKept
<1> QED
  BY <1>2, <1>3, <1>8, <1>9, <1>10, <1>11, <1>12, <1>13, <1>14, <1>15

\* The first deallocate_page; only the types are kept.
LEMMA DeallocateKeeps ==
  ASSUME PagingIInv, NEW addr, NEW n \in 1 .. MaxRequest, DeallocatePage(addr, n)
  PROVE  PagingIInv'
<1>1. PICK f \in Bits :
        /\ held' = held \ {<<f, n>>}
        /\ granted' = granted \ {<<addr + j, f + j>> : j \in 0 .. n - 1}
  BY DEF DeallocatePage
<1>2. /\ call = Idle /\ unloaded'
      /\ memory_map' = (memory_map \ Run(TableOf(addr), n)) \cup {0}
      /\ used_blocks' = U32(used_blocks - n)
      /\ mem' = Unmapped(addr, n)
      /\ UNCHANGED <<layout, max_blocks, reply, current_page_dir, pd, call>>
  BY DEF DeallocatePage, Ready
<1>3. PagingTypeOK
  BY DEF PagingIInv
<1>4. used_blocks' \in 0 .. UintMod - 1
  BY <1>2, <1>3, U32Type, UnitsAssumption, MaxRequestAssumption DEF PagingTypeOK, TypeOK
<1>5. memory_map' \in SUBSET Int
  <2>1. memory_map \subseteq Int /\ {0} \subseteq Int
    BY <1>3 DEF PagingTypeOK, TypeOK
  <2> QED
    BY <1>2, <2>1
<1>6. held' \subseteq held /\ granted' \subseteq granted
  BY <1>1
<1>7. TypeOK'
  BY <1>2, <1>3, <1>4, <1>5, <1>6 DEF PagingTypeOK, TypeOK
<1>8. mem' \in [Bits -> [Slots -> Nat \cup {NotPresent}]]
  BY <1>2, <1>3, UnmappedType DEF PagingTypeOK
<1>9. unloaded' \in BOOLEAN
  BY DEF DeallocatePage
<1>10. PagingTypeOK'
  BY <1>2, <1>3, <1>6, <1>7, <1>8, <1>9 DEF PagingTypeOK
<1> QED
  BY <1>2, <1>10 DEF PagingIInv, TablesSound

-----------------------------------------------------------------------------
(* The theorems                                                            *)

\* Every step of the pager keeps the invariant.
LEMMA PagingStepIInv == PagingIInv /\ [PagingNext]_allVars => PagingIInv'
<1> SUFFICES ASSUME PagingIInv, [PagingNext]_allVars PROVE PagingIInv'
  OBVIOUS
<1>1. ASSUME NEW addr \in UserPages, NEW n \in 1 .. MaxRequest, DeallocatePage(addr, n)
      PROVE  PagingIInv'
  BY <1>1, DeallocateKeeps
<1>2. CASE UNCHANGED allVars
  BY <1>2, StepIInv DEF allVars, vars, pagerVars, PagingIInv, PagingTypeOK, TypeOK, CallRight,
     TablesOwned, Present, CallRun, DataOwned, DataRun, GrantsMapped, CallMapped, NothingElse,
     FreeForMmap, BootTables, TablesReached, TablesSound, Translation, TableOf
<1>3. CASE TablesSound
  <2>1. CASE BootDirectory \/ BootKernelTable \/ BootFails
    BY <1>3, <2>1, BootKeeps
  <2>2. CASE BootIdentityTable
    BY <1>3, <2>2, BootIdentityKeeps
  <2>3. CASE \/ \E addr \in UserPages, n \in 1 .. MaxRequest :
                  addr .. addr + n - 1 \subseteq UserPages /\ Request(addr, n)
             \/ AllocateData \/ AllocateDataFails
    BY <1>3, <2>3, RequestKeeps
  <2>4. CASE \/ \E n \in 1 .. MaxMmap : Mmap(n)
             \/ ScanFails \/ ScanFinds \/ ScanGoesOn \/ TableFaults
    BY <1>3, <2>4, ScanKeeps
  <2>5. CASE ScanNewTable
    BY <1>3, <2>5, ScanTableKeeps
  <2>6. CASE MapPage
    BY <1>3, <2>6, MapPageKeeps
  <2>7. CASE MapPageNewTable
    BY <1>3, <2>7, MapNewTableKeeps
  <2>8. CASE Return
    BY <1>3, <2>8, ReturnKeeps
  <2>9. CASE Rollback
    BY <1>3, <2>9, RollbackKeeps
  <2>10. CASE TableClobbers
    BY <1>3, <2>10, ClobberKeeps
  <2> QED
    BY <1>1, <1>2, <2>1, <2>2, <2>3, <2>4, <2>5, <2>6, <2>7, <2>8, <2>9, <2>10
       DEF PagingNext, Halted
<1>4. CASE ~TablesSound
  <2>1. call.op \in {"idle", "clobbered"} /\ ~Ready
    BY <1>4 DEF PagingIInv, TablesSound, Clobbered, Idle, Ready
  <2> QED
    BY <1>2, <2>1 DEF PagingNext, Halted, BootDirectory, BootKernelTable, BootIdentityTable,
       BootFails, Request, DeallocatePage, AllocateData, AllocateDataFails, MapPage,
       MapPageNewTable, TableFaults, TableClobbers, TableNeeded, Rollback, Return, Mapping,
       Mmap, Scanning, ScanNewTable, ScanFails, ScanFinds, ScanGoesOn
<1> QED
  BY <1>3, <1>4

\* The invariant holds always.
LEMMA PagingInductive == PagingSpec => []PagingIInv
BY PagingInitIInv, PagingStepIInv, PTL DEF PagingSpec

\* The types of the pager's variables, those of the physical memory manager
\* under it included: every call of allocate_blocks and free_blocks is one
\* the manager's own theorems are about.
THEOREM PagingTypes == PagingSpec => []PagingTypeOK
<1>1. PagingIInv => PagingTypeOK
  BY DEF PagingIInv
<1> QED
  BY <1>1, PagingInductive, PTL

\* A page that a caller has stays mapped to its block, which is marked used
\* and backs no other page, through map_page, find_free_page and roll-backs,
\* until a new table is cleared through a page that maps another block.
THEOREM GrantsStayIntact == PagingSpec => []GrantsIntact
<1>1. PagingIInv => GrantsIntact
  <2> SUFFICES ASSUME PagingIInv, TablesSound, NEW g \in granted
               PROVE  /\ Translation(g[1]) = g[2] /\ g[2] \in memory_map
                      /\ \A h \in granted : g # h => g[1] # h[1] /\ g[2] # h[2]
    BY DEF GrantsIntact
  <2>1. PICK r \in held : g[2] \in Run(r[1], r[2])
    BY DEF PagingIInv, DataOwned
  <2>2. g[2] \in HeldBlocks
    BY <2>1 DEF HeldBlocks
  <2>3. g[2] \in memory_map
    BY <2>2 DEF PagingIInv, IInv, HeldExclusively
  <2> QED
    BY <2>3 DEF PagingIInv, GrantsMapped, DataOwned
<1> QED
  BY <1>1, PagingInductive, PTL

\* The blocks of the tables are marked used, one to an entry of the directory,
\* and neither data nor the directory itself.
THEOREM TablesStayPrivate == PagingSpec => []TablesPrivate
<1>1. PagingIInv => TablesPrivate
  <2> SUFFICES ASSUME PagingIInv, TablesSound, NEW e \in Entries, Present(e)
               PROVE  /\ pd[e] \in memory_map
                      /\ \A g \in granted : pd[e] # g[2]
                      /\ pd[e] \notin Run(current_page_dir, 3)
                      /\ \A d \in Entries : Present(d) /\ d # e => pd[d] # pd[e]
    BY DEF TablesPrivate, PresentEntries, Present
  <2>1. /\ <<pd[e], 1>> \in held /\ pd[e] \in Run(pd[e], 1)
        /\ <<pd[e], 1>>[1] = pd[e] /\ <<pd[e], 1>>[2] = 1
    BY DEF PagingIInv, TablesOwned, PagingTypeOK, Present, Run, Bits
  <2>2. pd[e] \in memory_map
    BY <2>1 DEF PagingIInv, IInv, HeldExclusively, HeldBlocks
  <2>3. \A g \in granted : pd[e] # g[2]
    <3> SUFFICES ASSUME NEW g \in granted, pd[e] = g[2] PROVE FALSE
      OBVIOUS
    <3>1. PICK r \in held : DataRun(r) /\ g[2] \in Run(r[1], r[2])
      BY DEF PagingIInv, DataOwned
    <3>2. r = <<pd[e], 1>>
      BY <2>1, <3>1, OneRun DEF PagingIInv
    <3> QED
      BY <3>1, <3>2 DEF DataRun
  <2>4. pd[e] \notin Run(current_page_dir, 3)
    <3> SUFFICES ASSUME pd[e] \in Run(current_page_dir, 3) PROVE FALSE
      OBVIOUS
    <3>1. <<current_page_dir, 3>> \in held
      BY DEF PagingIInv, CallRight
    <3>2. <<current_page_dir, 3>> = <<pd[e], 1>>
      BY <2>1, <3>1, OneRun DEF PagingIInv
    <3> QED
      BY <3>2
  <2> QED
    BY <2>2, <2>3, <2>4 DEF PagingIInv, TablesOwned
<1> QED
  BY <1>1, PagingInductive, PTL

\* The memory at a table's address is the table: what map_page, unmap_page and
\* find_free_page read and write there is what the processor walks.
THEOREM TablesStayReachable == PagingSpec => []TablesReachable
<1>1. PagingIInv => TablesReachable
  BY DEF PagingIInv, TablesReachable, TablesReached, PresentEntries, Reached, PagingTypeOK
<1> QED
  BY <1>1, PagingInductive, PTL

\* A call that failed half way left none of its pages mapped.
THEOREM NothingStray == PagingSpec => []NoStrayMapping
<1>1. PagingIInv => NoStrayMapping
  <2> SUFFICES ASSUME PagingIInv, call = Idle, ~unloaded,
                      NEW v \in 0 .. TablesPerDirectory * PagesPerTable - 1,
                      PD_INDEX(v) \notin {0, KernelEntry}, Translation(v) # NotPresent
               PROVE  <<v, Translation(v)>> \in granted
    BY DEF NoStrayMapping
  <2>1. call.op = "idle" /\ TablesSound
    BY DEF TablesSound, Clobbered, Idle
  <2>2. v \in Nat /\ PD_INDEX(v) \in Entries
    <3>1. TablesPerDirectory - 1 \in Nat /\ v \in Nat
          /\ v < (TablesPerDirectory - 1 + 1) * PagesPerTable
      BY PagingAssumption
    <3>2. PD_INDEX(v) <= TablesPerDirectory - 1 /\ PD_INDEX(v) \in Nat
      BY <3>1, EntryOfPage, PageIndex
    <3> QED
      BY <3>1, <3>2 DEF Entries
  <2> QED
    BY <2>1, <2>2 DEF PagingIInv, NothingElse
<1> QED
  BY <1>1, PagingInductive, PTL

\* mmap takes no page from anybody: what find_free_page found free is still
\* free when allocate_new_page maps it, whatever tables were made meanwhile.
THEOREM MmapIsHarmless == PagingSpec => MmapTakesFreePages
<1>1. PagingIInv /\ [PagingNext]_allVars
        => [call.mmap /\ ~unloaded => granted \subseteq granted']_allVars
  <2> SUFFICES ASSUME PagingIInv, PagingNext, call.mmap, ~unloaded
               PROVE  granted \subseteq granted'
    BY DEF allVars
  <2>1. call.op \in {"scan", "enter", "map"} /\ call # Idle /\ TablesSound
    <3>1. call # Idle /\ call # Clobbered
      BY DEF Clobbered, Idle
    <3> QED
      BY <3>1 DEF PagingIInv, TablesSound, CallRight
  <2>2. CASE MapPage \/ MapPageNewTable
    <3>1. Mapping /\ granted' = Replaced
      BY <2>2 DEF MapPage, MapPageNewTable
    <3>2. /\ call.op = "map" /\ call.i \in call.i .. call.n - 1
      BY <2>1, <3>1 DEF Mapping, PagingIInv, CallRight, PagingTypeOK
    <3>3. Translation(Page) = NotPresent
      BY <2>1, <3>2 DEF PagingIInv, FreeForMmap, Page
    <3>4. \A g \in granted : g[1] # Page
      BY <2>1, <3>3 DEF PagingIInv, GrantsMapped, PagingTypeOK, Bits, NotPresent
    <3> QED
      BY <3>1, <3>4 DEF Replaced
  <2> QED
    BY <2>1, <2>2 DEF PagingNext, Halted, BootDirectory, BootKernelTable, BootIdentityTable,
       BootFails, Request, DeallocatePage, Ready, AllocateData, AllocateDataFails,
       TableFaults, TableClobbers, Rollback, Return, Mmap, ScanNewTable, ScanFails, ScanFinds, ScanGoesOn,
       allVars, pagerVars
<1> QED
  BY <1>1, PagingInductive, PTL DEF PagingSpec, MmapTakesFreePages
=============================================================================
