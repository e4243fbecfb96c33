# Alex-OS: a verification development

Alex-OS is a 32-bit x86 kernel with its own boot loader. This directory models
it in TLA+ from the boot sector to the terminal, checks the models with TLC on
small instances, and proves the safety of the physical memory manager, the
pager, the keyboard queue, the file system, the running machine and the boot
loader with TLAPS for every instance. All definitions are translated from the code;
`PROJECT.json` gives, for each, the lines it stands for.

## 1. Inventory

One CPU, one thread of kernel code (the terminal, `kernel/main.c`) and the
interrupt handlers. Handlers run behind interrupt gates, so they are not
interrupted, but for the system call handler, which starts with `sti`; the main
thread may be, between any two instructions. A program runs in the kernel's mode,
in place of the thread, until it exits.

| Part | State | Operations | Hard behaviours | What makes it correct | Module |
|---|---|---|---|---|---|
| Physical memory manager (`memory/management/physique`) | bitmap, `max_blocks`, `used_blocks` | boot regions, `allocate_blocks`, `free_blocks` | 32-bit wrap-around, scan over the end of the bitmap, a filter with the wrong mask, a counter that starts wrong | a block has one owner; only available memory is handed out; the counter does not drift | `PhysMem` |
| Boot memory map (`memory_management.c`) | none of its own | `init_memory_management` | byte/block confusion | what boot reserves stays reserved | `PhysMem` |
| Pager (`memory/management/virtual`, `memory_management.c`) | directory, page tables, `current_page_dir` | `allocate_new_page`, `mmap`, `deallocate_page` | failure half way, tables shared or freed, tables out of the identity map | translations given out stay; nothing half done remains | `Paging` |
| Kernel heap (`malloc.c`) | page list, free list | `malloc`, `free`, `calloc`, `realloc` | called from the keyboard interrupt and from main, without a lock | a block has one owner; none is lost | `Heap` |
| Terminal input (`vfs/std.c`, `vfs/vfs.c`, `driver/keyboard`) | `stds[STDIN]`, lock keys | `std_put` in the interrupt, `std_get` in main | unlocked list shared with an interrupt | what is typed is read, in order | `Console` |
| FAT driver (`filesystem/fat.c`) | one cached FAT sector, `opened_files`, `root_dir` | open, create, read, write, append, seek, list, close | cache never written back, full volume, handles run out, loops that do not end | chains do not cross; what was written is read | `Files` |
| Terminal commands (`main.c`) | none across commands but handles | `ls`, `cat`, `touch`, `write`, `load` | handles leaked on most paths | a command does what its help says | `Files`, `Machine` (`load`) |
| Interrupts and timer (`arch/i686`, `driver/pit`, `hal`) | handler tables, the controllers, `pit_ticks` | dispatch, acknowledge, `sleep_ms`, the order of initialisation | two acknowledgements, a tick between a test and `hlt`, a key before its handler | handlers do not nest; every key is read; a sleep ends | `Interrupts`, `Machine` |
| ATA driver (`driver/ata`) | the drive | `ata_read28`, `ata_write28`, `ata_flush` | status not looked at, top bits of another address | a sector reads back as written | `Ata`, `Machine` |
| Processes, ELF loader, system calls (`process`, `ELF`, `syscall`) | list of contexts, `current` | `exec`, `exit_process`, `int 0x80`, load, unload | load that fails half way, leaving the kernel from a system call | a program leaves nothing behind | `Machine` |
| User library (`load/libc`) | - | write, exit | - | - | `Machine`, as the calls it can make |
| Boot loader (`bootloader`) | disk, FAT cache, memory regions | read with retry, open and read a file, detect memory, load the kernel | retry, answers ignored, firmware's answers | the kernel starts only complete; a retry saves the boot | `BootDisk`, `BootFat`, `BootLoader` |
| DMA allocator (`dma_allocator.c`) | page list with block lists | `dma_alloc`, `dma_free` | lost pages, NULL page | as the heap | - |
| FDC, PCI and USB drivers | device registers, frame list | scan, one transfer, the USB controller's interrupt | waits, device errors | - | USB's line in `Interrupts`, its start-up in `Machine` |
| ACPI, CMOS, screen, formatting, host library, build files | - | - | - | - | - |

How they meet: `allocate_blocks` serves the pager; the pager serves the heap
(`add_page`), the ELF loader and `mmap`; the heap serves everything, the keyboard
handler included; the handler puts characters on `stds[0]` with `write`, and the
terminal takes them with `read_line`; the terminal's commands go through the VFS
to the FAT driver and through it to the ATA driver. The boot loader has its own
FAT reader over the BIOS's disk services, and leaves the kernel the map of memory.

`PROJECT.json` lists the hazards line by line, each with the properties that
cover it, or with the reason why none does.

## 2. Modules

| Module | Models | Uses |
|---|---|---|
| `BlockPool` | what the physical memory manager promises: runs taken from and returned to a pool | |
| `BlockMap` | the bitmap and the scan `find_first_free_blocks`, as pure operators | |
| `PhysMem` | boot state, `allocate_blocks`, `free_blocks`, callers | `BlockMap`; refines `BlockPool` |
| `Paging` | paging set-up, `allocate_new_page`, `mmap`, `deallocate_page` | `PhysMem` (its actions are the calls the pager makes) |
| `Heap` | `malloc`, `free`, `realloc` in main, `malloc` in the keyboard interrupt | |
| `Console` | keyboard interrupt against `read_line`/`std_get` | |
| `Files` | terminal commands over VFS and FAT driver | |
| `Interrupts` | gates, dispatchers, handlers, the two controllers, timer and keyboard | |
| `Ata` | the ATA driver and its drive | `Interrupts` (its line) |
| `Machine` | start-up, the terminal's disk accesses, programs and their end, all under interrupts | `Ata`, `Interrupts` |
| `BootDisk` | disk reads of both boot stages, with retries | |
| `BootFat` | the FAT reader of the second stage | `BootDisk` |
| `BootLoader` | first stage, `cstart`, `Memory_detect`, `ELF_read` | `BootFat` |
| `MCPhysMem`, `MCPaging`, `MCFiles`, `MCMachine`, `MCBoot` | the instances TLC checks; `Heap` and `Console` are checked as they are | |
| `PhysMem_proofs`, `Paging_proofs`, `Heap_proofs`, `Console_proofs`, `Files_proofs`, `Machine_proofs`, `BootLoader_proofs`, `BootKernel_proofs` | the theorems, see section 4 | the module they are named after; `Paging_proofs` extends `PhysMem_proofs`, `BootKernel_proofs` extends `BootLoader_proofs` |

Definitions called `X_Something` after the comment *Mistake* are wrong variants of `X`
that nothing refers to: put in the place of `X`, each makes a property fail, which
shows that the property depends on that piece of code.

### PhysMem and BlockMap

`memory_map` is the set of block numbers whose bit is 1. `Init` is what
`init_memory_management` leaves: a bitmap set to 1 byte by byte (so the bits past
the last whole byte, and the memory behind them, hold anything), available
regions cleared, three reservations set again, the counter as the code computes
it, which is wrong: it goes down for reserved blocks too, and once more per region.
`AllocateBlocks`, `AllocateBlocksFails` and `FreeBlocks` are whole calls. The
scan keeps what makes it unusual: it starts at word 1, takes whole words only,
tests the word against `j` rather than `1 << j` before it tests bit `j`, and
counts on past the last word. `held` is a history of which runs are out; callers
give back exactly what they got. Addresses and counters are reduced modulo 2^32
(`UintMod`).

### Paging

A table lives in a block; `mem` maps blocks to entries, so two directory entries
with one block share a table, as in the machine. A call of `allocate_new_page` is
a sequence of steps, one per `allocate_blocks` it makes. Rollback and `mmap`'s search, which
allocates the tables that are missing on its way, are all there. The code clears and fills
a new table through its block's address, taken as a virtual one. That is right while the page of that
number is mapped to that block (`Reached`), as the identity map does for the first
table's pages. Otherwise there are two cases: the page is not mapped and the access faults
(`TableFaults`, `i686_panic`), or somebody has been given that page, as `mmap` hands out the pages
from 4 MB on, and that one's block is cleared while the table stays as memory was (`TableClobbers`).
`TablesReachable` says what the code relies on from then on: tables once filled stay within reach.
Bounds: after the first `deallocate_page` nothing more is called, since it frees a page table
that is still in use (run `paging_unload`); nor after a table was cleared
through another's page, for what it then holds is anything; boot that cannot allocate is the end.
Left out: `free_page`, `allocate_page` and the vector of directories, which
have no caller, the TLB, and the mask that keeps bit 31 of a frame.

### Heap

Addresses and sizes are the code's with a `PAGE_SIZE` of 96. `pages` is
`page_list`, `hdr` the headers of the blocks in memory, `live` a history of the blocks
handed out. Main takes one step for each load or store that a key can come in front of:
`Pop` and `Popped` are `free_list = free_blk->next`, `Walk`, `Found` and `Unlink`
the search behind the head (whose block must be larger than asked for,
the others at least as large), `Carve`, `Count` and `Counted` the new block and
`used_size +=`, `Link` and `Publish` the two stores of `free`. `Key` is the
`malloc` of `std_put`, whole, since nothing interrupts it. `spoiled` becomes TRUE when `Key`
takes what main has already chosen: `Held` lists the blocks, `RoomHeld` the rooms.
The invariants hold until then, so these are the only dangerous places, and elsewhere
a key does no harm. After damage the model ends. `realloc` keeps a block that is too
small (`malloc.c:189` has the test the wrong way round): `grown` records it.
`calloc` is `malloc` and a clearing of bytes that are not modelled.

### Console

`Key` is one run of the keyboard handler, `write(0, 1, &c)` and `std_put` included; it
may come between any two of main's loads and stores, each of which is an action
(`LoadNext` and `Advance` are `std->first = old->next`; `LoadSize` and `StoreSize`
are `std->size--`). `spoiled` becomes TRUE when a key falls in one of three places:
after `old->next` was read as NULL, before `last` is cleared, and between the load and the
store of `size`. Invariants hold until then and thereby say that these are the
only dangerous places. Bounds: the heap has three blocks (a key that finds none
waits); after damage neither characters nor blocks are followed (a block may be
freed twice by then, so `malloc` may answer any of them), and the lock keys are
not pressed. `malloc` and `free` are atomic here; their own race is the heap's.
Left out: `read_line`'s buffer and its growth, keys before `vfs_init`.

### Files

A command is one step, as only one thread runs commands. `table` is the one FAT
sector in memory, `volume` what is on the disk; the code looks every entry up in that sector
(`c % EntriesPerSector`), because it keeps only the offset within a sector. Paths have at most
one directory. The odd paths are the code's: a missing path listed as the root,
`FAT_open`'s -1 taken for the root's handle when a file is created in a
directory that does not exist, a regular file used as a directory, handle 0
when none is free, a seek that never ends on a cluster without a zero (`SeekHangs`, for
files and directories), a cluster 0 taken from a full volume. `cat` reads into a buffer as long as the file
and prints it with `%s`, so `last.after` is what follows it in the heap: nothing,
or something stale. `trouble` records
which of the known failures has happened; properties name the ones they exclude.
Bounds: one sector per cluster, texts shorter than a sector, no directory of
more than one cluster, no `write` to a directory, no disk errors. `update_fat` writes the sector to a
sector number computed from a byte offset (fat.c:312). For cluster 0 the offset is 0 and the
sector is the FAT's first, which `volume` holds and a restart and the scan read again; for other
clusters it is assumed to hit no sector read later. The slot before `opened_files[0]`, which handle 0 stands for, is assumed to
overlap nothing. A volume to start from is `Sound`: its chains do not cross, a chain stays
within the entries that one sector of the FAT has room for, and every file has a first
cluster of its own beyond the root's (a file as `touch` makes it does; an empty file made elsewhere has none).

### Interrupts, Ata and Machine

`frames` is the stack of handlers, each with the steps left to it; `irr`, `isr1`, `isr2` are
the controllers' requests and lines in service, fully nested, acknowledged
without naming a line. `Handler` is what the tables make of a vector: the timer counts and then acknowledges,
the keyboard acknowledges, reads the key and is acknowledged once more
by the dispatcher, and so does the USB controller's handler, without a key. A key
without a character never reaches the queue. Main takes a step only when `frames` is empty, which is what
interrupt gates give; a program takes `int80` steps, and its `exit` drops the frames it was
called in (`exit_process`). In `Ata` the drive is a process of its own; the driver polls reads,
and does not look at the drive between a write's command and its data, nor at the outcome of a flush. `Machine` has
start-up in its order, with one step for each call that matters to interrupts, the disk or programs, `sleep_ms` with
the test and the `hlt` apart, reads and writes of single sectors, and loading, running
and leaving a program.

`trouble` records what the properties exclude: a key before its handler (`unread`), a tick a sleeper
did not see (`missed`), a key before its queue (`wild`: a null pointer, the model ends), a write
that did not arrive (`not stored`), `no memory` while loading, a program that could not be
opened again to be unloaded (`not unloaded`), a list whose end is what memory held before (`loose end`).

Bounds: one program a boot, as what its stack overwrites is the heap's; disk accesses before it; a key waits in the
keyboard until the last one is read; a program writes to the screen, not to other handles. Left out: the GDT, exceptions, masking of lines (no caller), spurious
interrupts, the registers.

### BootDisk, BootFat and BootLoader

`io` is the one disk read in progress: `x86_Disk_Read` and `x86_Disk_Reset` are the
answers of the BIOS, success or failure, and the counter of the three tries. A buffer
is the number of the sector in it; which sector that is follows the code's
conversion to cylinder, head and sector and the bits of them that reach the BIOS (`Reached1`,
`Reached2`). `BootFat` has the steps of `FAT_Open` and `FAT_Read` up to the
next disk read; data that is copied is a set of pieces, from which sector and byte to
where. Its odd paths are the code's: a failed read that is not reported
once the count is complete, a cache whose position is set although its read failed,
the entry of a FAT12 with a byte behind the cache, the buffer of the root
directory that `FAT_Close` keeps, the end mark that is that of FAT12 for every type.
`BootLoader` is the program: `Stage1` and `Stage1Read` are the loop of
`boot.asm` over its table: it ends at a number 0; behind the sixth entry it takes the memory
that follows for more, and a block that does not fit below 0x7C00 (`LoadRoom`) overwrites the loop itself. After
either, `overrun` stands for all that may follow. Without the BIOS's extensions the number is split by the geometry the boot sector states
(`bpb_heads`, `bpb_sectors`), which need not be the drive's. `Entry` to `Memory_detect` those of `cstart`, the others the
stages of `ELF_read`; `mem` collects the pieces at each segment's address. A header table
that was not read right may send the loader anywhere (`wild`), and so may a block of memory written behind
`g_MemRegions` (`MAX_REGION`).

Left out: file names and paths with directories, the data, the Multiboot information. Bounds: `MaxMisses`
failing BIOS calls a boot; a root directory without a size is searched for
`MaxRootSectors` sectors (the code goes on); an address the drive does not have reads as a wrong sector.

## 3. Runs

| Run | Result | Shows |
|---|---|---|
| `physmem` | passes | `HeldExclusively`, `HandedOutIsAvailable`, `DriftConserved`, `ImplementsPool` on two machines of 24 blocks |
| `physmem_bitmap` | `BitmapNeverHandedOut` fails | boot passes the bitmap's size in bytes and reserves whole blocks only: on machines up to 128 MB the bitmap's own block is handed out |
| `physmem_null` | `NullMeansOutOfMemory` fails | because of the filter, NULL is returned with memory free |
| `paging` | passes | `GrantsIntact`, `TablesPrivate`, `TablesReachable`, `NoStrayMapping`, `MmapTakesFreePages` |
| `paging_unload` | `PresentTablesAllocated` fails | `deallocate_page` frees the page table's block |
| `heap` | passes | `BlocksApart`, `PagesTiled`, `NothingLost`, `CallsReturn` |
| `console` | passes | `QueueIsWhatWasTyped`, `NoUseAfterFree`, `DeliveredInOrder`, `NeverDeaf` |
| `console_lost` | `ReadsWhatWasTyped` fails | a key during `std_get` of the last element is lost |
| `files` | passes | `NoCrossLinks`, `CatShowsLastWrite`, `NamesAreStable` |
| `files_handles` | `CatReadsTheFile` fails | leaked handles turn `cat` into a read of the keyboard |
| `machine` | passes | `HandlersDoNotNest`, `ReadsBack`, `NothingLeft`, `KeysHeard`, `SleepsEnd` |
| `boot` | passes | `Stage2Intact`, `KernelIntact`, `HandlesReturned`, `HealthyBoots`, `NeverHangs` |

Each passing run has its module's type invariant too. Deadlock is checked except where the modelled
system stops: a boot ends, `heap` and `machine` end after damage (`spoiled`, `wild`), and an idle heap
that is full and a program that has exited need not go on.

Bounds and why they suffice.
- *physmem*: 24 blocks are three words of 8 bits: the first word, which the scan
  skips, one inner and the last, past which the scan reads. Requests of 0 to 3 blocks: shorter
  and longer than the gaps, across word ends, and refused. Every content of the
  memory after the bitmap is an initial state. One machine has the kernel in
  the scanned words and the other below them.
- *paging*: a machine with few blocks, so that every kind of failure happens
  (data refused, table refused half way, a table out of the identity map whose page is free or somebody's), and one too
  small to boot. Callers name two pages on each side of the border between two tables: requests within a table, across two,
  and over pages that others have. `mmap` is asked for at most 2 pages, which
  is what `find_free_page(1)` really looks for; the code asks for 1. Asked for 3, on a
  machine of 32 blocks where that many are left, the property fails: the hazard at `virtual_memory_manager.c:142`.
- *console*: three elements: empty, one and more than one are the cases `std_get`
  and `std_put` tell apart. `size` is taken modulo 6 instead of 2^32, which is larger
  than any length, so a wrap below 0 is seen as such.
- *files*: 14 clusters with a FAT sector of 8 entries, so that entries beyond
  the first sector are looked up in the wrong place as in the code; the reread that the
  code does past cluster 512 is done past cluster 12. One volume can become full, on the
  other a cluster in use looks free. Two handles: one command that leaks is harmless, two are not.
  The two texts are interchangeable, hence the symmetry.
- *heap*: two pages of 96 bytes and requests of 8 and 40 bytes, which are rounded to 16 and 48: a page
  holds one large block or two small ones, so every search ends in a hit at the head, behind it, in a page with
  room, in a new page, or in a refusal; three blocks in use, so the free list gets long enough for an unlink
  in its middle. A key may take as many.
- *machine*: a counter of three values, so that the tick a sleeper waits for passes and comes again; sleeps of 0 and 2 ticks;
  eight sectors, an address in the partition and one past the end, and one value to write, since a sector not written holds
  another. More addresses multiply the states without a new interrupt; that sectors are not mixed up, and that only addresses
  whose top bits change with the partition's start go astray, is for the proof of `DiskReadsBack`, which holds for all of them. One program of two segments, so that
  loading fails at either.
- *boot*: twenty-one disks, of FAT12, FAT16 and FAT32, floppy and hard disk, with and without BIOS extensions: each has one
  thing on which the code differs (`MCBoot` names it), among them tables that are full, end early, or list more than fits or just as much, a boot sector with another geometry, and
  more memory blocks than `MAX_REGION`. Three failing BIOS calls are one more than a request survives.

Fairness.
- `Console`: weak fairness of `Main`, the thread's next instruction. The thread never blocks or waits in
  `read_line` and every handler returns, so between interrupts it always goes on. Nothing is assumed of keys.
- `Heap`: weak fairness of the steps of a call that has begun. Nobody need call.
- `BootLoader`: weak fairness of `Next`: one program, and a BIOS that answers.
- `Machine`: weak fairness of main's steps, of the handlers, of the drive and of the timer: the CPU goes on and the devices
  work. Strong fairness of each `Interrupt(line)`: a line waits only while one of higher priority is
  handled or interrupts are off, both of which end, and a handler takes far less than a tick, so ticks cannot keep the keyboard
  out for ever. Nothing is assumed of keys, of what the terminal is told to do, or of a program, but that `exit`, once
  called, is handled.

## 4. Proofs

For all constants that satisfy the named assumptions:

| Module | Theorem | States |
|---|---|---|
| `PhysMem_proofs` | `TypeCorrect` | `Spec => []TypeOK` |
| | `ExclusiveOwnership` | `Spec => []HeldExclusively` |
| | `BitmapImplementsPool` | `Spec => ImplementsPool` |
| | `OnlyAvailableHandedOut` | `Spec => []HandedOutIsAvailable` |
| | `CounterKeepsItsError` | `Spec => DriftConserved` |
| `Paging_proofs` | `PagingTypes` | `PagingSpec => []PagingTypeOK` |
| | `GrantsStayIntact` | `PagingSpec => []GrantsIntact` |
| | `TablesStayPrivate` | `PagingSpec => []TablesPrivate` |
| | `TablesStayReachable` | `PagingSpec => []TablesReachable` |
| | `NothingStray` | `PagingSpec => []NoStrayMapping` |
| | `MmapIsHarmless` | `PagingSpec => MmapTakesFreePages` |
| `Console_proofs` | `ConsoleTypes` | `Spec => []ConsoleTypeOK` |
| | `QueueIsRight` | `Spec => []QueueIsWhatWasTyped` |
| | `OnlyOwnedMemory` | `Spec => []NoUseAfterFree` |
| | `InOrder` | `Spec => []DeliveredInOrder` |
| `Heap_proofs` | `HeapTypes` | `Spec => []HeapTypeOK` |
| | `BlocksStayApart` | `Spec => []BlocksApart` |
| | `PagesStayTiled` | `Spec => []PagesTiled` |
| | `NothingIsLost` | `Spec => []NothingLost` |
| `Files_proofs` | `FilesTypes` | `Spec => []FilesTypeOK` |
| | `ChainsNeverMeet` | `Spec => []NoCrossLinks` |
| | `CatReadsBack` | `Spec => []CatShowsLastWrite` |
| | `NamesStay` | `Spec => NamesAreStable` |
| `Machine_proofs` | `MachineTypes` | `Spec => []MachineTypeOK` |
| | `HandlersStayFlat` | `Spec => []HandlersDoNotNest` |
| | `DiskReadsBack` | `Spec => []ReadsBack` |
| | `ProgramsLeaveNothing` | `Spec => []NothingLeft` |
| `BootLoader_proofs` | `HandlesAreReturned` | `Spec => []HandlesReturned` |
| | `SecondStageComplete` | `Spec => []Stage2Intact` |
| `BootKernel_proofs` | `BootTypes` | `Spec => []BootTypeOK` |
| | `KernelLoaded` | `Spec => []KernelIntact` |

Assumptions.
- *PhysMem*: sizes are positive naturals, addresses naturals (`UnitsAssumption`, `LayoutsAssumption`); every bit the
  scan can read is modelled (`MapBitsAssumption`); words are a whole number of
  bytes, and the last block of the bitmap's last whole byte is not available
  (`MachineAssumption`: a PC's memory map ends with a reserved region).
- *Paging* (`PagingAssumption`): directories and tables of any positive size; callers ask for pages outside the entry of the
  kernel and of the identity mapping; `mmap` for at most two pages, beyond which the property is false.
- *Heap* (`HeapAssumption`): the page size is a positive multiple of 16, as the code's 4096, and nobody asks for 0 bytes.
- *Console* (`ConsoleAssumption`): `Enter` is a key without a shifted form, the heap's blocks are finitely many, NULL is none of them, and `size` counts beyond their number.
- *Files* (`FilesAssumption`): sizes beyond the root's cluster, paths are records, and each volume is `Sound` when it is mounted first.
- *Machine*: an address of 28 bits stays within 28 bits with the partition's start (`AtaAssumption`), the counter has at least
  two values (`TickAssumption`), sleeps are naturals (`MachineAssumption`).
- *BootLoader*: the drive's and the boot sector's geometry are positive and the table of blocks has six entries (`VolumesAssumption`); at most 256 heads and
  63 sectors, what `x86_Disk_GetDriveParams` leaves of the BIOS's answer (`GeometryAssumption`); a volume's numbers are numbers, and the kernel's
  file has a nonempty chain of distinct clusters from 2 on (`FatAssumption`); program headers have numbers, their table lies behind the ELF
  header, for else the count of bytes to skip would wrap, and a chunk is at most what the 16 bits of `memcpy`'s count make room for: in the code both are 65536 (`BootLoaderAssumption`).

TLC evaluates all of them on every instance it checks.

### The physical memory manager

The inductive invariant `IInv` is the type invariant, `HeldExclusively` and
`RunsInside`: every run that is out starts in the words that are scanned.
`HeldExclusively` alone is not inductive: `free_blocks` sets bit 0 again, so one must know
that no run contains or precedes it. `CandidateFacts` says what
the scan promises whatever its filter skips: a block in a scanned word with
enough 0 bits from there on. So a new run is disjoint from all others
(`AllocateIInv`), and a run given back was nobody else's (`FreeIInv`). Refinement
follows with the fact that bit 0 is always marked (`ZeroMarked`), which makes
`free_blocks` a pure release. For availability a second invariant is needed,
`MarkedUnlessUsable`: below the end of the bytes that `memset` sets, whatever is not usable
is marked. The last of those bits is marked, so a run of 0 bits that starts
in the scanned words ends before it, although the scan does not look where the bitmap ends (`RunIsUsable`). The
counter's theorem is arithmetic modulo 2^32 and the cardinality of disjoint runs.

### The pager

`Paging_proofs` extends `PhysMem_proofs`: a pager's step that allocates is a step of `PhysMem`, so `IInv` is kept and the
new run is disjoint from all that are out (`Allocated`). `PagingIInv` adds who owns which run: the directory's three blocks, one block for
each table (`TablesOwned`), the call in progress, and the callers (`DataOwned`); and what is mapped:
what was given out (`GrantsMapped`), the part of the call that is done (`CallMapped`), nothing else (`NothingElse`), and for
`mmap` that the pages ahead are free (`FreeForMmap`). None of the properties is inductive without the ownership: writing a table
entry changes one page only because no other directory entry names that table and no data lies in it (`SamePage`, `NewTable`). `TablesReached` adds that every table's page is mapped to the table's block, and that
this page belongs to the identity map or the kernel: a caller's page is mapped to a block that is his, so a table reached through it would have two owners; and the
mappings of boot do not change. All of it holds up to the first
`deallocate_page` or `TableClobbers` (`TablesSound`): the code has no answer to either, and the properties claim nothing beyond.

### The heap

The properties say nothing about the moments that make them hard, so `IInv` says it: `Space` describes memory without the list, `FreeIs` the
list without memory, `LiveRight` who has what, and `ListLocals` and `PageLocals` what main's locals mean at every place where a key can come.
`Space(pages, hdr, pend)` holds the pages one behind the other, every block inside one page, no two blocks overlapping and each page
filled by its blocks up to `used_size`; `pend` is the one block that main has written and not counted yet. `FreeIs(hdr, free_list, F)`
says that `F` is what a sequence of distinct linked blocks holds. The list's blocks are those that are neither in use nor in main's
hands (`Limbo`), which is what `NothingLost` comes to between two calls.

Three kinds of lemmas carry it: what a list becomes when a block is put in front, taken from the front or from between
(`ListPushed`, `ListUnlinked`); what space becomes when a header is written at the edge, counted, or a page added
(`SpaceCarved`, `SpaceCounted`, `SpaceAdded`); and that the interrupt's `malloc` answers a block of the list that is large
enough or a page with room (`TakenFits`, `PageForFits`). Then each of main's steps is a lemma (`MallocKeeps` to `ReallocKeeps`), and the
interrupt's step is one for each place it can take a block from: outside `Held` and `RoomHeld` main's locals stay true (`KeyTakes`,
`KeyCarves`, `KeyAdds`), which shows that a key does harm at no moment but those at which `spoiled` is set.
That the walk along the links gives the sequence needs no induction: a first place where they differ would follow from the place before it (`WalkFinds`).

### The keyboard queue

The list is not walked but held: while not `spoiled`, there is a sequence of distinct allocated blocks,
linked from `first` to `last`, whose characters are those typed and not yet taken (`QueueRight`). Between main's loads
and stores `first`, `last` and `size` lag behind in ways that depend on `pc` (`EndRight`, `MainRight`). One lemma shows that a key
appends to that sequence wherever it falls outside the three places, one that each of main's steps keeps it or takes its first element.

### The file system

`IInv` is the types, `TreeInv`, `NoCrossLinks`, `WroteInv` and `CatShowsLastWrite`. The difficulty is that entries beyond the
first FAT sector are looked up in that sector: `FreeCluster` shows that the scan nevertheless answers a cluster of the first sector as long as it
does not reread, for entry 0 and 1 are in use and the lowest number that looks free is that of the entry itself.
`TreeInv` says that directories' clusters are in use in both tables, so nothing is ever written over a directory, on a full volume, where the table in memory
is written over the one on the disk, and after a restart that reads it
too; with it names are stable. `NoCrossLinks` needs that the free cluster is on no chain, which follows because its entry is 0
and every entry on a chain is not. For `cat`, two paths that lead to the same cluster are the same path (`PathsApart`), which
follows from the chains being apart. `CatReadsBack` is about the
beginning of what `cat` prints: that nothing follows is not so (`main.c:183`).

### The machine

The invariant is the types and three independent parts. `FramesRight`: below an interrupt there is at most a system call, a line is
in service only on top of the stack and with interrupts off, and its handler still has to acknowledge exactly until it is not in service.
`DiskInv`: what the drive works on follows from where the driver is, and a sector holds what was written unless that write is on its way; it needs
that two addresses have different sectors, a fact about `%` and division. `ProcessesRight`: the process list
and the mapped pages are determined by `pc`, for which one must know that system calls come from programs only (`CallsFromPrograms`).

### The boot loader

`Control` says which call is in progress where the loader is: never a `FAT_Open` and a `FAT_Read` at once, and a disk read's
answer goes to the code that asked. With it `HandlesRight` is inductive: the only handle in use is the file's, from `FAT_OpenEntry` to `FAT_Close`.
For the second stage, `BlocksRight` says what the read in progress is for and that it is reported as done only with its sector in memory, whatever
the three tries did; `NextListed` that the entries read are the ones in front of the table's first 0. The BIOS's own part is `ReachedIsAsked`: below 65536 and 256 cylinders a number that is split into cylinder, head and sector, with 16 bits
for the number and 8 for the cylinder, names the same sector, if the boot sector states the drive's geometry, whatever that is (`SplitNumber`, from the uniqueness of quotient and remainder).

For the kernel, `KernelInv` is the types (`TypeRight`, with the bounds that make them inductive: a `FAT_Read` has never more to copy than the
file still holds, `ELF_read` never asks for more than is left of the segment), what a request is about (`RequestKnown`), and, on a disk that
`KernelIntact` asks for and while no failure was ignored, `LoadRight`, which follows a byte from the disk to its place:

- `CacheRight`: the FAT cache holds the sectors its position says.
- `PlaceRight`: file's cluster and sector are those of its position (`OnPlace`), or the last cluster was read to its end and the next is
  being looked up (`BehindCluster`), and what is copied comes from the sector of the position (`Reachable`).
- `ReadRight`: the pieces of the `FAT_Read` in progress are its bytes of the file, one behind the other (`Pieces`).
- `FilePlace`: where `ELF_read` is in the file, in terms of what it skipped, sought and read (`From`).
- `SegmentsRight`: the segments done are complete, and of the one in progress what was read is there.

`KernelIntact` alone says nothing before the kernel is started, so it is all of this that must be carried. The lemmas it rests on:
sectors of the chain and of the FAT are within reach of the BIOS's cylinder, head and sector (`ReachedIsRead`, `ChainReached`, `FatReached`); the cached entry
of a cluster of the chain is that of the next one, for which the chain must not meet itself and no FAT12 entry may lie behind the cache
(`EntryOfChain`, `NextIsNext`); the byte behind a sector's last is the first of the next sector of the cluster, or of the next cluster
(`PlaceOfNext`); a piece more, or the pieces of another read behind those before, are again pieces of the file (`PieceAdded`, `PiecesJoined`).
Then there is one lemma for each step (`CopyLoads` to `ChunkReadLoads`).

### Only model-checked

- Liveness, which the provers do not reach: `NeverDeaf`, `CallsReturn`, `KeysHeard`, `SleepsEnd`, `HealthyBoots`, `NeverHangs`. Every invariant and
  every action property that a passing run checks is a theorem.
- The runs that fail.

## 5. What the code does against its words

1. `memory_management.c:32`: the bitmap is not reserved on small machines.
2. `physical_memory_manager.c:62`: the filter masks with `j`; NULL does not mean out of memory.
3. `memory_management.c:64`: `deallocate_page` frees the table instead of the page.
4. `vfs/std.c:36`: a key is lost between a load and a store.
5. `fat.c:556`: running out of handles is not noticed and gives STDIN.

The other faults met while modelling contradict no comment, document or test, but for `cat`, which
prints what lies behind its buffer (`main.c:183`, `last.after`); they are the named exceptions of the properties
(`spoiled`, `trouble`, `grown`, `ignored`, `bad`, the conditions of `KernelIntact` and `Healthy`) and the hazards in `PROJECT.json`.

## 6. Not modelled, and the plan

Left out, with the reason:

- DMA allocator: it is called for the USB driver's one request only, each call takes a page of its own, and `dma_free` has no caller.
- FDC: not called (`hal.c:26`). PCI: reads configuration space once. USB: one request is put on the frame list, and its handler only
  prints the answer; of the handler the acknowledgements are modelled.
- ACPI, CMOS, screen, formatting, GDT, exceptions (they halt), build files: no state over which anything could go wrong in time.
- The host-side FAT library and its test: an earlier copy, not linked into the kernel. `boot_old.asm` is not built.
- The heap after a program ran: its stack starts at the low end of its block (`process.c:67`) and overwrites what lies below, a context is allocated
  with the size of a pointer, and the last `next` of the process list is never set. What follows depends on the
  contents of memory; `Machine` runs one program a boot.
- Loops that wait without a bound for a drive (`ata.c:101`): `Machine` assumes that the drive answers.
- `mmap` ignores that `allocate_new_page` failed (`memory_management.c:78`): its one caller, the USB driver, uses the address as it is.
- What a program writes to handle 1 is shown, and also put on STDOUT, from where nobody takes it (`vfs.c:98`); what it writes to handle 0 would be put on
  the terminal's input, and to a file's handle in the file, with interrupts on.

What could still be added: a program's system calls as a module of their own with a
second program a boot, once its memory is followed; transfers of several sectors through `Ata` into `Files`, with disk errors.
