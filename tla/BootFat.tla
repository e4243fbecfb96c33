------------------------------ MODULE BootFat ------------------------------
(***************************************************************************)
(* The FAT reader of the second stage                                      *)
(*   src/bootloader/stage2/fat.c     FAT_Initialize .. FAT_Open            *)
(*   src/bootloader/stage2/mbr.c     the partition's first sector          *)
(*                                                                         *)
(* All numbers are the code's: bytes, clusters, sectors, the 12, 16 or 32  *)
(* bits of a FAT entry.  Only the data is left out: a buffer is the number *)
(* of the sector in it, and what is copied out of it is a piece            *)
(* [to, lba, at, len]: len bytes from byte `at' of sector lba, `to' bytes  *)
(* into the output.  One file is looked for, kernel.elf in the root.       *)
(***************************************************************************)
EXTENDS BootDisk

CONSTANTS
  MAX_FILE_HANDLES,
  MaxRootSectors    \* bound: sectors searched in a root directory without a size

\* A volume's numbers are numbers; the file's chain has a cluster, begins
\* where the data does or behind, and comes to no cluster twice.
ASSUME FatAssumption ==
  /\ MAX_FILE_HANDLES \in Nat
  /\ \A v \in Volumes :
       /\ v.SectorsPerCluster \in Nat \ {0}
       /\ v.ReservedSectors \in Nat /\ v.FatCount \in Nat /\ v.DirEntryCount \in Nat
       /\ v.SectorsPerFat \in Nat /\ v.sector_per_fat \in Nat
       /\ v.lba_partition_start \in Nat /\ v.size \in Nat
       /\ v.chain \in Seq(Nat \ {0, 1}) /\ v.chain # << >>
       /\ \A i, j \in DOMAIN v.chain : v.chain[i] = v.chain[j] => i = j

VARIABLES
  root,      \* g_Data->RootDirectory: Position, CurrentCluster, Buffer
  file,      \* the opened file: its fields and its Buffer
  opened,    \* the handles with Opened
  cache,     \* FatCachePosition, and the sector FatCache was really read from
  opening,   \* the FAT_Open in progress and its outcome
  rd,        \* the FAT_Read in progress, the bytes and pieces it copied
  ignored    \* history: a failed read was not reported to the caller

fatVars == <<root, file, opened, cache, opening, rd, ignored>>

SECTOR_SIZE == 512
FAT_CACHE_SIZE == 5
EntriesPerSector == 16
EndOfChain == 268435455     \* any of the marks, after their extension

\* MBR_detect_partition
Offset(v) == IF v.drive < 128 THEN 0 ELSE v.lba_partition_start

\* What FAT_Initialize computes from the boot sector.
SectorsPerFat(v) == IF v.SectorsPerFat = 0 THEN v.sector_per_fat ELSE v.SectorsPerFat
AfterFats(v) == v.ReservedSectors + SectorsPerFat(v) * v.FatCount
DataSectionLba(v) ==
  IF v.SectorsPerFat = 0 THEN AfterFats(v)
  ELSE AfterFats(v) + (32 * v.DirEntryCount + SECTOR_SIZE - 1) \div SECTOR_SIZE
FAT_ClusterToLba(v, cluster) == DataSectionLba(v) + (cluster - 2) * v.SectorsPerCluster
RootDirLba(v) ==
  IF v.SectorsPerFat = 0 THEN FAT_ClusterToLba(v, v.root_dir_cluster) ELSE AfterFats(v)
RootSize(v) == 32 * v.DirEntryCount
TotalSectors(v) == IF v.TotalSectors = 0 THEN v.LargeSectorCount ELSE v.TotalSectors

FatType(v) ==
  LET data_cluster == (TotalSectors(v) - DataSectionLba(v)) \div v.SectorsPerCluster
  IN  IF data_cluster < 4085 THEN 12 ELSE IF v.SectorsPerFat # 0 THEN 16 ELSE 32

\* The sector of the disk with byte p of the file, when its chain is followed.
FileLba(v, p) ==
  LET sector == p \div SECTOR_SIZE
  IN  Offset(v) + (sector % v.SectorsPerCluster)
        + FAT_ClusterToLba(v, v.chain[sector \div v.SectorsPerCluster + 1])

\* The entry of a cluster in the FAT on the disk.
FatEntry(c) ==
  IF \E i \in 1 .. Len(vol.chain) - 1 : vol.chain[i] = c
  THEN vol.chain[CHOOSE i \in 2 .. Len(vol.chain) : vol.chain[i - 1] = c]
  ELSE IF c = vol.chain[Len(vol.chain)] \/ c < 2 THEN EndOfChain ELSE 0

FatIndex(v, c) ==
  CASE FatType(v) = 12 -> (c * 3) \div 2
    [] FatType(v) = 16 -> c * 2
    [] OTHER -> c * 4
FatIndexSector(c) == FatIndex(vol, c) \div SECTOR_SIZE

Cached(c) ==
  /\ cache.pos # NoSector
  /\ FatIndexSector(c) \in cache.pos .. cache.pos + FAT_CACHE_SIZE - 1

\* The 12 bits of an entry whose second byte lies behind the cache, where the
\* low byte of FatCachePosition is.
Straddled(c) ==
  LET entry == FatEntry(c) % 4096
      bits == IF c % 2 = 0 THEN (entry % 256) + 256 * (cache.pos % 16)
                           ELSE (entry % 16) + 16 * (cache.pos % 256)
  IN  IF bits >= 4088 THEN EndOfChain ELSE bits

\* What FAT_NextCluster takes from the cache: the entry, or anything when the
\* cache does not hold what its position says.
FAT_NextCluster(c) ==
  IF cache.at # Offset(vol) + vol.ReservedSectors + cache.pos
  THEN {0, EndOfChain} \cup {vol.chain[i] : i \in DOMAIN vol.chain}
  ELSE IF FatType(vol) = 12 /\ FatIndex(vol, c) - SECTOR_SIZE * cache.pos
                                = FAT_CACHE_SIZE * SECTOR_SIZE - 1
  THEN {Straddled(c)}
  ELSE {FatEntry(c)}

-----------------------------------------------------------------------------
(* FAT_Open                                                                *)

\* MBR_partition_read_sector
ReadSector(dest, lba) == Request(dest, Reached2(lba + Offset(vol)))

EntryInBuffer ==
  /\ vol.entry # << >>
  /\ root.buf = Offset(vol) + RootDirLba(vol) + vol.entry.sector
  /\ (root.pos % SECTOR_SIZE) \div 32 <= vol.entry.index

\* FAT_Close of the root directory: the buffer stays as it is.
ClosedRoot == [root EXCEPT !.pos = 0, !.cluster = RootDirLba(vol)]

\* Mistake: the size of the directory is not looked at.
RootEnded_Never == FALSE

RootEnded == RootSize(vol) # 0 /\ root.pos >= RootSize(vol)

\* FAT_FindFile to the end of the buffer; with its last entry the next sector
\* is read.  A root directory without a size has no end.
FindFile ==
  /\ opening = "find" /\ Free
  /\ root.cluster - RootDirLba(vol) <= MaxRootSectors
  /\ LET start == SECTOR_SIZE * (root.pos \div SECTOR_SIZE)
         pos == IF EntryInBuffer THEN start + 32 * (vol.entry.index + 1)
                                 ELSE start + SECTOR_SIZE
     IN  IF RootEnded
         THEN /\ opening' = "failed" /\ root' = ClosedRoot
              /\ UNCHANGED io
         ELSE /\ opening' = IF EntryInBuffer THEN "found" ELSE "find"
              /\ IF pos % SECTOR_SIZE = 0
                 THEN /\ root' = [root EXCEPT !.pos = pos, !.cluster = @ + 1]
                      /\ ReadSector("root", root.cluster + 1)
                 ELSE /\ root' = [root EXCEPT !.pos = pos]
                      /\ UNCHANGED io
  /\ UNCHANGED <<vol, misses, bad, file, opened, cache, rd, ignored>>

\* A failed read ends FAT_Read's loop after the entry was copied: it counts
\* as read.
RootRead ==
  /\ Answered("root")
  /\ root' = [root EXCEPT !.buf = IF io.ok THEN io.at ELSE @]
  /\ ignored' = (ignored \/ ~io.ok)
  /\ io' = Idle
  /\ UNCHANGED <<vol, misses, bad, file, opened, cache, opening, rd>>

Handles == 0 .. MAX_FILE_HANDLES - 1

OpenEntry ==
  /\ opening = "found" /\ Free
  /\ root' = ClosedRoot
  /\ IF opened = Handles
     THEN opening' = "failed" /\ UNCHANGED io
     ELSE opening' = "entry" /\ ReadSector("entry", FAT_ClusterToLba(vol, vol.chain[1]))
  /\ UNCHANGED <<vol, misses, bad, file, opened, cache, rd, ignored>>

EntryRead ==
  /\ Answered("entry")
  /\ io' = Idle
  /\ IF io.ok
     THEN LET handle == CHOOSE h \in Handles \ opened : \A g \in Handles \ opened : h <= g
          IN  /\ opened' = opened \cup {handle}
              /\ opening' = "opened"
              /\ file' = [handle |-> handle, size |-> vol.size, pos |-> 0,
                          cluster |-> vol.chain[1], sector |-> 0, buf |-> io.at]
     ELSE opening' = "failed" /\ UNCHANGED <<opened, file>>
  /\ UNCHANGED <<vol, misses, bad, root, cache, rd, ignored>>

-----------------------------------------------------------------------------
(* FAT_Read of a file                                                      *)

NoRead == [phase |-> "none", want |-> 0, left |-> 0, got |-> 0, out |-> {}]

\* Mistake: the size of the file does not limit the count.
FAT_Read_PastEnd(byteCount) ==
  rd' = [phase |-> IF byteCount = 0 THEN "done" ELSE "copy",
         want |-> byteCount, left |-> byteCount, got |-> 0, out |-> {}]

FAT_Read(byteCount) ==
  LET left == MinOf(byteCount, file.size - file.pos)
  IN  rd' = [phase |-> IF left = 0 THEN "done" ELSE "copy",
             want |-> byteCount, left |-> left, got |-> 0, out |-> {}]

\* The end mark is that of FAT12 whatever the type; it is looked for at every
\* sector.
Ends(cluster) == cluster >= 4088

\* One turn of the loop: what is left in the buffer; at its end the position
\* goes to the next sector.
Copy ==
  /\ rd.phase = "copy"
  /\ LET room == SECTOR_SIZE - (file.pos % SECTOR_SIZE)
         take == MinOf(rd.left, room)
         next == file.sector + 1 >= vol.SectorsPerCluster
         piece == [to |-> rd.got, lba |-> file.buf, at |-> file.pos % SECTOR_SIZE, len |-> take]
     IN  /\ rd' = [rd EXCEPT !.left = @ - take, !.got = @ + take, !.out = @ \cup {piece},
                             !.phase = IF take < room THEN "done"
                                       ELSE IF next THEN "next"
                                       ELSE IF Ends(file.cluster) THEN "done"
                                       ELSE "sector"]
         /\ file' = [file EXCEPT !.pos = @ + take,
                       !.size = IF rd'.phase = "done" /\ take = room THEN file.pos + take ELSE @,
                       !.sector = IF take < room THEN @ ELSE IF next THEN 0 ELSE @ + 1]
  /\ UNCHANGED <<diskVars, root, opened, cache, opening, ignored>>

\* The file goes on in a cluster.
GoOnIn(cluster) ==
  /\ file' = [file EXCEPT !.cluster = cluster, !.size = IF Ends(cluster) THEN file.pos ELSE @]
  /\ rd' = [rd EXCEPT !.phase = IF Ends(cluster) THEN "done" ELSE "sector"]

NextCluster ==
  /\ rd.phase = "next" /\ Free
  /\ IF Cached(file.cluster)
     THEN /\ \E cluster \in FAT_NextCluster(file.cluster) : GoOnIn(cluster)
          /\ UNCHANGED io
     ELSE /\ ReadSector("fat", vol.ReservedSectors + FatIndexSector(file.cluster))
          /\ UNCHANGED <<file, rd>>
  /\ UNCHANGED <<vol, misses, bad, root, opened, cache, opening, ignored>>

\* FAT_ReadFat's answer is not looked at.
FatRead ==
  /\ Answered("fat")
  /\ cache' = [pos |-> FatIndexSector(file.cluster), at |-> IF io.ok THEN io.at ELSE cache.at]
  /\ ignored' = (ignored \/ ~io.ok)
  /\ io' = Idle
  /\ UNCHANGED <<vol, misses, bad, root, file, opened, opening, rd>>

AskSector ==
  /\ rd.phase = "sector" /\ Free
  /\ ReadSector("file", FAT_ClusterToLba(vol, file.cluster) + file.sector)
  /\ UNCHANGED <<vol, misses, bad, fatVars>>

\* Mistake: the copying goes on although the sector was not read.
SectorRead_GoesOn ==
  /\ Answered("file")
  /\ file' = [file EXCEPT !.buf = IF io.ok THEN io.at ELSE @]
  /\ rd' = [rd EXCEPT !.phase = IF rd.left > 0 THEN "copy" ELSE "done"]
  /\ ignored' = (ignored \/ (~io.ok /\ rd.left = 0))
  /\ io' = Idle
  /\ UNCHANGED <<vol, misses, bad, root, opened, cache, opening>>

\* A failed read ends the loop; when nothing was left to copy the count is
\* full and the next FAT_Read starts with the old buffer.
SectorRead ==
  /\ Answered("file")
  /\ file' = [file EXCEPT !.buf = IF io.ok THEN io.at ELSE @]
  /\ rd' = [rd EXCEPT !.phase = IF io.ok /\ rd.left > 0 THEN "copy" ELSE "done"]
  /\ ignored' = (ignored \/ (~io.ok /\ rd.left = 0))
  /\ io' = Idle
  /\ UNCHANGED <<vol, misses, bad, root, opened, cache, opening>>

FatNext ==
  \/ FindFile \/ RootRead \/ OpenEntry \/ EntryRead
  \/ Copy \/ NextCluster \/ FatRead \/ AskSector \/ SectorRead

FatInit ==
  /\ root = [pos |-> 0, cluster |-> 0, buf |-> NoSector]
  /\ file = [handle |-> 0, size |-> 0, pos |-> 0, cluster |-> 0, sector |-> 0, buf |-> NoSector]
  /\ opened = {}
  /\ cache = [pos |-> NoSector, at |-> NoSector]
  /\ opening = "no"
  /\ rd = NoRead
  /\ ignored = FALSE
=============================================================================
