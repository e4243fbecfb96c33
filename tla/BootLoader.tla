---------------------------- MODULE BootLoader ----------------------------
(***************************************************************************)
(* From the boot sector to the kernel's first instruction                  *)
(*   src/bootloader/stage1/boot.asm   start: loads the second stage        *)
(*   src/bootloader/stage2/main.asm   entry: A20, protected mode           *)
(*   src/bootloader/stage2/main.c     cstart                               *)
(*   src/bootloader/stage2/memdetect.c, elf.c   Memory_detect, ELF_read    *)
(*                                                                         *)
(* The program is sequential; what varies is the disk and the answers of   *)
(* the BIOS.  `pc' names the code that goes on when no disk read, FAT_Open *)
(* or FAT_Read is in progress.                                             *)
(***************************************************************************)
EXTENDS BootFat
LOCAL INSTANCE FiniteSetsExt

CONSTANTS
  MEMORY_LOAD_SIZE,   \* the bytes ELF_read reads at once
  MAX_REGION,         \* the length of g_MemRegions
  SizeMod             \* 2^16: memcpy and memset take their count as uint16_t

sizeof_elf_hdr == 52

\* The sectors between the second stage's address and the first stage, which
\* runs at 0x7C00 with its stack below.
LoadRoom == (31744 - 1280) \div SECTOR_SIZE

ASSUME BootLoaderAssumption ==
  /\ MEMORY_LOAD_SIZE \in Nat \ {0} /\ MAX_REGION \in Nat
  /\ SizeMod \in Nat /\ SizeMod >= MEMORY_LOAD_SIZE
  /\ \A v \in Volumes :
       /\ v.header_table \in Nat /\ v.header_table >= sizeof_elf_hdr
       /\ v.headers \in Seq([load : BOOLEAN, offset : Nat, filesz : Nat, memsz : Nat])

VARIABLES
  pc,
  stage2,     \* the blocks of the second stage in memory
  regions,    \* g_MemRegions: the indices of the BIOS's blocks
  block,      \* the block Memory_detect fetched last
  table,      \* the program headers in header_buf
  seg,        \* the header ELF_read is at, 0 before the first
  todo,       \* what is left of its p_offset or p_filez
  mem,        \* per header the pieces copied to its address
  cleared     \* per header the bytes memset cleared

elfVars == <<table, seg, todo, mem, cleared>>
vars == <<diskVars, fatVars, pc, stage2, regions, block, elfVars>>

Ended == {"kernel", "stop", "reboot", "wild", "overrun"}

Init ==
  /\ DiskInit /\ FatInit
  /\ pc = "stage1"
  /\ stage2 = << >> /\ regions = << >> /\ block = 0
  /\ table = << >> /\ seg = 0 /\ todo = 0
  /\ mem = << >> /\ cleared = << >>

-----------------------------------------------------------------------------
(* The first stage and the entry of the second                             *)

\* The sectors already loaded: es goes up by 32 paragraphs for each.
End(blocks) ==
  IF blocks = << >> THEN 0
  ELSE LET l == blocks[Len(blocks)] IN l.to + l.count

\* The entry the loop looks at.
Asked == Len(stage2) + 1

\* The loop ends at an entry whose number is 0.  Behind the sixth it goes on
\* with the signature and the memory after it, which may end it or not.
Stage1 ==
  /\ pc = "stage1" /\ Free
  /\ IF Asked > PosEntries
     THEN pc' \in {"entry", "reboot", "overrun"} /\ UNCHANGED io
     ELSE IF vol.stage2_pos[Asked].lba = 0
     THEN pc' = "entry" /\ UNCHANGED io
     ELSE Request("stage2", Reached1(vol.stage2_pos[Asked].lba)) /\ UNCHANGED pc
  /\ UNCHANGED <<vol, misses, bad, fatVars, stage2, regions, block, elfVars>>

\* After a failure: a message, a key, and the BIOS starts again.  A block that
\* does not fit overwrites the first stage.
Stage1Read ==
  /\ Answered("stage2")
  /\ io' = Idle
  /\ LET count == vol.stage2_pos[Asked].count
         fits == End(stage2) + count <= LoadRoom
     IN  IF io.ok /\ fits
         THEN /\ stage2' = Append(stage2, [to |-> End(stage2), lba |-> io.at, count |-> count])
              /\ UNCHANGED pc
         ELSE /\ pc' \in {"reboot"} \cup (IF fits THEN {} ELSE {"overrun"})
              /\ UNCHANGED stage2
  /\ UNCHANGED <<vol, misses, bad, fatVars, regions, block, elfVars>>

\* entry: the waits for the keyboard controller end when it is ready; then
\* DISK_Initialisation asks for the geometry.
Entry ==
  /\ pc = "entry"
  /\ \/ pc' = "boot sector" /\ UNCHANGED <<misses, bad>>
     \/ /\ misses < MaxMisses /\ misses' = misses + 1 /\ bad' = TRUE
        /\ pc' = "stop"
  /\ UNCHANGED <<vol, io, fatVars, stage2, regions, block, elfVars>>

\* FAT_Initialize: the boot sector, then the first sector of the root.
AskBootSector ==
  /\ pc = "boot sector" /\ Free
  /\ ReadSector("boot", 0)
  /\ UNCHANGED <<vol, misses, bad, fatVars, pc, stage2, regions, block, elfVars>>

BootSectorRead ==
  /\ Answered("boot")
  /\ IF io.ok
     THEN pc' = "root" /\ ReadSector("init", RootDirLba(vol))
     ELSE pc' = "stop" /\ io' = Idle
  /\ UNCHANGED <<vol, misses, bad, fatVars, stage2, regions, block, elfVars>>

FAT_Initialize ==
  /\ Answered("init")
  /\ io' = Idle
  /\ IF io.ok
     THEN pc' = "memory" /\ root' = [ClosedRoot EXCEPT !.buf = io.at]
     ELSE pc' = "stop" /\ UNCHANGED root
  /\ UNCHANGED <<vol, misses, bad, file, opened, cache, opening, rd, ignored,
                 stage2, regions, block, elfVars>>

\* A turn of Memory_detect: the block is kept and the next one fetched, unless
\* it is the last one (its continuation is 0), or has no length: then the loop
\* goes round for ever.  Failing, the BIOS ends the list.  A block more than
\* g_MemRegions holds is written behind it.
Memory_detect ==
  /\ pc = "memory"
  /\ IF block = Len(vol.e820)
     THEN pc' = "elf" /\ opening' = "find" /\ UNCHANGED <<regions, block, misses>>
     ELSE IF block > 0 /\ vol.e820[block] > 0 /\ Len(regions) = MAX_REGION
     THEN pc' = "wild" /\ UNCHANGED <<opening, regions, block, misses>>
     ELSE /\ block > 0 => vol.e820[block] > 0
          /\ regions' = IF block > 0 THEN Append(regions, block) ELSE regions
          /\ \/ block' = block + 1 /\ UNCHANGED <<pc, opening, misses>>
             \/ /\ misses < MaxMisses /\ misses' = misses + 1
                /\ pc' = "elf" /\ opening' = "find" /\ UNCHANGED block
  /\ UNCHANGED <<vol, io, bad, root, file, opened, cache, rd, ignored, stage2, elfVars>>

-----------------------------------------------------------------------------
(* ELF_read                                                                *)

FAT_Close == opened' = opened \ {file.handle}

\* Mistake: an error return does not close the file.
Fail_LeavesOpen ==
  /\ pc' = "stop"
  /\ rd' = NoRead /\ opening' = "no" /\ UNCHANGED <<opened, elfVars>>

\* ELF_read closes the file and answers 0; cstart stops.
Fail ==
  /\ pc' = "stop"
  /\ FAT_Close /\ rd' = NoRead /\ opening' = "no" /\ UNCHANGED elfVars

\* The pieces just read are those of the file from byte p on.
ReadFrom(p) ==
  \A piece \in rd.out :
    /\ piece.lba = FileLba(vol, p + piece.to)
    /\ piece.at = (p + piece.to) % SECTOR_SIZE

ElfFrame ==
  UNCHANGED <<diskVars, root, file, cache, stage2, regions, block>>

Opened ==
  /\ pc = "elf" /\ opening \in {"opened", "failed"}
  /\ opening' = "no"
  /\ IF opening = "opened"
     THEN pc' = "header" /\ FAT_Read(sizeof_elf_hdr)
     ELSE pc' = "stop" /\ UNCHANGED rd
  /\ UNCHANGED <<opened, ignored, elfVars>> /\ ElfFrame

\* elf_validate_header takes what is in no other sector than the file's first.
Header ==
  /\ pc = "header" /\ rd.phase = "done"
  /\ IF rd.got = sizeof_elf_hdr /\ vol.elf_valid /\ ReadFrom(0)
     THEN /\ pc' = "skip" /\ FAT_Read(vol.header_table - sizeof_elf_hdr)
          /\ UNCHANGED <<opened, opening, elfVars>>
     ELSE Fail
  /\ UNCHANGED ignored /\ ElfFrame

TableSize == 32 * Len(vol.headers)

\* The answer of this FAT_Read is only added to file_pos.
Skip ==
  /\ pc = "skip" /\ rd.phase = "done"
  /\ ignored' = (ignored \/ rd.got # rd.want)
  /\ pc' = "table" /\ FAT_Read(TableSize)
  /\ UNCHANGED <<opened, opening, elfVars>> /\ ElfFrame

\* What is not the table may pass for one without a segment to load, or send
\* the loader anywhere.
Table ==
  /\ pc = "table" /\ rd.phase = "done"
  /\ IF rd.got # rd.want THEN Fail
     ELSE /\ \E t \in IF ReadFrom(vol.header_table) THEN {vol.headers} ELSE {<< >>} :
               /\ table' = t
               /\ mem' = [s \in DOMAIN t |-> {}]
               /\ cleared' = [s \in DOMAIN t |-> 0]
          /\ pc' \in IF ReadFrom(vol.header_table) THEN {"segment"} ELSE {"segment", "wild"}
          /\ FAT_Close /\ rd' = NoRead
          /\ UNCHANGED <<opening, seg, todo>>
  /\ UNCHANGED ignored /\ ElfFrame

\* The next header: memset, and FAT_Open to get back to the file's start.
\* After the last one cstart calls the kernel.
Segment ==
  /\ pc = "segment"
  /\ seg' = seg + 1
  /\ IF seg = Len(table)
     THEN pc' = "kernel" /\ UNCHANGED <<cleared, todo, opening>>
     ELSE IF table[seg + 1].load
     THEN /\ cleared' = [cleared EXCEPT ![seg + 1] = table[seg + 1].memsz % SizeMod]
          /\ todo' = table[seg + 1].offset
          /\ pc' = "seek" /\ opening' = "find"
     ELSE UNCHANGED <<pc, cleared, todo, opening>>
  /\ UNCHANGED <<opened, rd, ignored, table, mem>> /\ ElfFrame

\* The answer of this FAT_Open is not looked at.
Reopened ==
  /\ pc = "seek" /\ opening \in {"opened", "failed"}
  /\ opening' = "no"
  /\ pc' = IF opening = "opened" THEN pc ELSE "wild"
  /\ UNCHANGED <<opened, rd, ignored, elfVars>> /\ ElfFrame

\* The tests of the two loops: reading up to p_offset, then p_filez bytes.
Chunk ==
  /\ pc \in {"seek", "load"} /\ opening = "no" /\ rd.phase = "none"
  /\ IF todo > 0
     THEN /\ FAT_Read(MinOf(todo, MEMORY_LOAD_SIZE))
          /\ UNCHANGED <<pc, opened, elfVars>>
     ELSE IF pc = "seek"
     THEN /\ pc' = "load" /\ todo' = table[seg].filesz
          /\ UNCHANGED <<opened, rd, table, seg, mem, cleared>>
     ELSE pc' = "segment" /\ FAT_Close /\ UNCHANGED <<rd, elfVars>>
  /\ UNCHANGED <<opening, ignored>> /\ ElfFrame

\* memcpy copies the count modulo 2^16: of a full chunk nothing.
ChunkRead ==
  /\ pc \in {"seek", "load"} /\ rd.phase = "done"
  /\ IF rd.got # rd.want THEN Fail
     ELSE /\ todo' = todo - rd.got
          /\ mem' = IF pc = "load" /\ rd.got % SizeMod # 0
                    THEN [mem EXCEPT ![seg] = @ \cup
                           {[p EXCEPT !.to = @ + table[seg].filesz - todo] : p \in rd.out}]
                    ELSE mem
          /\ rd' = NoRead
          /\ UNCHANGED <<pc, opened, opening, table, seg, cleared>>
  /\ UNCHANGED ignored /\ ElfFrame

Loader ==
  \/ Stage1 \/ Stage1Read \/ Entry \/ AskBootSector \/ BootSectorRead
  \/ FAT_Initialize \/ Memory_detect
  \/ Opened \/ Header \/ Skip \/ Table \/ Segment \/ Reopened \/ Chunk \/ ChunkRead

Next ==
  \/ Loader
  \/ DiskNext /\ UNCHANGED <<fatVars, pc, stage2, regions, block, elfVars>>
  \/ FatNext /\ UNCHANGED <<pc, stage2, regions, block, elfVars>>

\* A single program: it goes on, and the BIOS answers.
Spec == Init /\ [][Next]_vars /\ WF_vars(Next)

-----------------------------------------------------------------------------
(* What the boot loader must get right                                     *)

BootTypeOK ==
  /\ pc \in Ended \cup {"stage1", "entry", "boot sector", "root", "memory", "elf",
                        "header", "skip", "table", "segment", "seek", "load"}
  /\ io.phase \in {"idle", "read", "reset", "done"} /\ io.tries \in 0 .. 3
  /\ opening \in {"no", "find", "found", "entry", "opened", "failed"}
  /\ rd.phase \in {"none", "copy", "next", "sector", "done"}
  /\ rd.left >= 0 /\ rd.got + rd.left <= rd.want
  /\ opened \subseteq Handles
  /\ file.pos <= file.size /\ file.sector < vol.SectorsPerCluster
  /\ seg \in 0 .. Len(table) + 1 /\ todo >= 0

\* The entries in front of the table's first 0.
Listed(v) == {i \in 1 .. PosEntries : \A j \in 1 .. i : v.stage2_pos[j].lba # 0}

\* Numbers of sectors that get through to the BIOS: without its extensions the
\* boot sector has to know the drive's geometry.
InReach1(v) ==
  \/ v.extension
  \/ /\ v.bpb_heads = v.heads /\ v.bpb_sectors = v.sectors
     /\ \A i \in Listed(v) : v.stage2_pos[i].lba < MinOf(65536, 256 * v.heads * v.sectors)
InReach2(v) == \A i \in DOMAIN v.chain :
  Offset(v) + FAT_ClusterToLba(v, v.chain[i]) + v.SectorsPerCluster <= 1024 * v.heads * v.sectors

\* No entry of the chain can be the one whose second byte is behind the cache.
NoStraddle(v) ==
  FatType(v) = 12 => \A i \in DOMAIN v.chain : FatIndex(v, v.chain[i]) % SECTOR_SIZE # SECTOR_SIZE - 1

ShortSegments(v) == \A s \in DOMAIN v.headers :
  v.headers[s].filesz < SizeMod /\ v.headers[s].memsz < SizeMod

\* The second stage runs only when the blocks its table lists are in memory
\* from its address on, in order and without a gap: a read is reported as done
\* only if it was, whatever failed on the way.  The list is what the code takes
\* for it, up to the first number 0; nothing is said when blocks or entries ran
\* over the first stage ("overrun"), or the boot sector's geometry is wrong.
Stage2Intact ==
  pc \notin {"stage1", "reboot", "overrun"} /\ InReach1(vol) =>
    /\ DOMAIN stage2 = Listed(vol)
    /\ \A i \in DOMAIN stage2 :
         /\ stage2[i].lba = vol.stage2_pos[i].lba
         /\ stage2[i].to = IF i = 1 THEN 0
                           ELSE stage2[i - 1].to + vol.stage2_pos[i - 1].count

\* A segment is in memory: its bytes without a gap and each from its place in
\* the file, zeroes behind them.
SegmentIntact(s) ==
  LET h == vol.headers[s]
  IN  /\ s \in DOMAIN mem
      /\ \A e \in {0} \cup {p.to + p.len : p \in mem[s]} :
           e = h.filesz \/ \E p \in mem[s] : p.to = e
      /\ \A p \in mem[s] :
           /\ p.lba = FileLba(vol, h.offset + p.to)
           /\ p.at = (h.offset + p.to) % SECTOR_SIZE
      /\ h.memsz > h.filesz => cleared[s] = h.memsz

\* The kernel is called only when all of it is in memory: across clusters,
\* refills of the FAT cache, seeks by reading, chunks and retried reads.  What
\* breaks it is named: a failed read nobody was told of, an entry of a FAT12
\* across the end of the cache, cylinders of more than 10 bits, and counts of
\* more than 16 bits.
KernelIntact ==
  pc = "kernel" /\ ~ignored
  /\ NoStraddle(vol) /\ InReach2(vol) /\ ShortSegments(vol) =>
    \A s \in DOMAIN vol.headers : vol.headers[s].load => SegmentIntact(s)

\* However ELF_read ends, the handles are free again; one is in use at most.
HandlesReturned ==
  /\ Cardinality(opened) <= 1
  /\ pc \in {"segment", "kernel", "stop"} => opened = {}

\* The last block is never looked at.
NoEmptyBlock(v) == \A i \in 1 .. Len(v.e820) - 1 : v.e820[i] > 0

\* Blocks that fit below the first stage, and an entry that ends their list.
Stage2Fits(v) ==
  /\ PosEntries \notin Listed(v)
  /\ MapThenSumSet(LAMBDA i : v.stage2_pos[i].count, Listed(v)) <= LoadRoom

\* A disk the loader is made for.
Healthy == {v \in Volumes :
  /\ Stage2Fits(v) /\ Len(v.e820) <= MAX_REGION + 1
  /\ v.elf_valid /\ NoStraddle(v) /\ InReach1(v) /\ InReach2(v)
  /\ v.entry # << >> /\ (v.entry.sector = 0 => v.entry.index < EntriesPerSector - 1)
  /\ \A i \in DOMAIN v.chain : v.chain[i] < 4088
  /\ \A s \in DOMAIN v.headers : v.headers[s].offset + v.headers[s].filesz <= v.size
  /\ NoEmptyBlock(v)}
Bounded == {v \in Volumes : RootSize(v) # 0 /\ NoEmptyBlock(v)}

\* The kernel of a healthy disk is started although reads fail now and then:
\* never three times in a row, and never a reset.
HealthyBoots == vol \in Healthy /\ []~bad => <>(pc = "kernel")

\* Whatever the BIOS answers and whatever is on the disk, the loader ends: by
\* starting the kernel, by stopping, or in code that was not meant.  Only a
\* block of memory without length, and the search of a root directory without
\* a size (FAT32), may go on for ever.
NeverHangs ==
  vol \in Bounded ~> pc \in Ended
=============================================================================
