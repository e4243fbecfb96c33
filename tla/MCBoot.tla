------------------------------- MODULE MCBoot -------------------------------
(* Disks for BootLoader: of every FAT type, of two kinds of drive, and with  *)
(* the entries, chains, segments and memory maps on which its code differs.  *)
EXTENDS BootLoader

Load(offset, filesz, memsz) ==
  [load |-> TRUE, offset |-> offset, filesz |-> filesz, memsz |-> memsz]
\* The table of the second stage's blocks, zero behind them.
Table6(blocks) ==
  [i \in 1 .. PosEntries |-> IF i \in DOMAIN blocks THEN [lba |-> blocks[i][1], count |-> blocks[i][2]]
                            ELSE [lba |-> 0, count |-> 0]]
Note == [Load(148, 20, 20) EXCEPT !.load = FALSE]

\* A 1.44 MB floppy; 1100 is read in two chunks.
Floppy ==
  [drive |-> 0, heads |-> 2, sectors |-> 18, lba_partition_start |-> 77,
   bpb_heads |-> 2, bpb_sectors |-> 18,
   extension |-> FALSE, stage2_pos |-> Table6(<< <<300, 2>>, <<40, 1>> >>),
   ReservedSectors |-> 1, FatCount |-> 2, SectorsPerFat |-> 9, sector_per_fat |-> 0,
   DirEntryCount |-> 48, TotalSectors |-> 2880, LargeSectorCount |-> 0,
   SectorsPerCluster |-> 1, root_dir_cluster |-> 0,
   entry |-> [sector |-> 0, index |-> 3], chain |-> <<2, 3, 9, 4>>, size |-> 1900,
   elf_valid |-> TRUE, header_table |-> 52,
   headers |-> <<Load(200, 600, 900), Note, Load(1100, 700, 700)>>,
   e820 |-> <<1, 2, 3, 0>>]

HardDisk ==
  [Floppy EXCEPT !.drive = 128, !.heads = 16, !.sectors = 63, !.bpb_heads = 16, !.bpb_sectors = 63,
     !.lba_partition_start = 4096,
     !.extension = TRUE, !.TotalSectors = 0, !.LargeSectorCount = 40000,
     !.SectorsPerFat = 40, !.SectorsPerCluster = 2, !.chain = <<3000, 901>>,
     !.entry = [sector |-> 1, index |-> 15]]

Fat32 ==
  [HardDisk EXCEPT !.SectorsPerFat = 0, !.sector_per_fat = 200, !.DirEntryCount = 0,
     !.root_dir_cluster = 2, !.header_table = 500]

MCVolumes ==
  {Floppy, HardDisk, Fat32,
   [Floppy EXCEPT !.chain = <<2, 1800, 5, 1801>>],                  \* refills of the cache
   [Floppy EXCEPT !.chain = <<2, 1706, 1707, 3>>],                  \* across its end
   [Floppy EXCEPT !.entry = [sector |-> 0, index |-> 15]],          \* reopening fails
   [Floppy EXCEPT !.entry = << >>],                                 \* no kernel.elf
   [Floppy EXCEPT !.elf_valid = FALSE],
   [Floppy EXCEPT !.size = 1500],                                   \* cut off
   [Floppy EXCEPT !.headers = <<Load(300, 1100, 1100)>>],           \* a full chunk
   [Floppy EXCEPT !.headers = <<Load(0, 0, 500), Load(0, 1023, 1023)>>],
   [Floppy EXCEPT !.e820 = <<1, 0, 1>>],
   [HardDisk EXCEPT !.chain = <<4087, 4088>>],                      \* past the end mark
   [HardDisk EXCEPT !.extension = FALSE, !.stage2_pos = Table6(<< <<70000, 4>> >>)],
   [Fat32 EXCEPT !.lba_partition_start = 1030000],                  \* past cylinder 1023
   \* Tables: full, with a 0 in the middle, of too many sectors, of just as many
   \* as fit; and a boot sector that does not know the drive.
   [Floppy EXCEPT !.stage2_pos = Table6([i \in 1 .. 6 |-> <<10 * i, 3>>])],
   [Floppy EXCEPT !.stage2_pos = Table6(<< <<300, 2>>, <<0, 2>>, <<40, 1>> >>)],
   [Floppy EXCEPT !.stage2_pos = Table6(<< <<300, 40>>, <<40, 20>> >>)],
   [HardDisk EXCEPT !.stage2_pos = Table6(<< <<300, 40>>, <<70000, 19>> >>)],
   [HardDisk EXCEPT !.extension = FALSE, !.bpb_heads = 2, !.bpb_sectors = 18],
   [Floppy EXCEPT !.e820 = <<1, 2, 3, 4, 0>>]}                      \* a block too many
=============================================================================
