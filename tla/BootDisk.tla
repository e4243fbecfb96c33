------------------------------ MODULE BootDisk ------------------------------
(***************************************************************************)
(* Disk access of the boot loader                                          *)
(*   src/bootloader/stage2/disk.c     lba_to_chs, Disk_ReadSector          *)
(*   src/bootloader/stage2/x86.asm    x86_Disk_Read, x86_Disk_Reset        *)
(*   src/bootloader/stage1/boot.asm   lba_2_chs, disk_read, reset_disk     *)
(*                                                                         *)
(* Both stages try a read three times with a reset after every failure.    *)
(* One read is in progress at most; a step is one answer of the BIOS.      *)
(* Sectors are known by their number on the disk: a buffer holds `the      *)
(* sector that was read', right or wrong; an address the drive does not    *)
(* have stands for a wrong one too.                                        *)
(***************************************************************************)
EXTENDS Integers, Sequences, FiniteSets

CONSTANTS
  Volumes,      \* the disks booted from, see MCBoot
  MaxMisses     \* bound: failing BIOS calls in one boot

ASSUME BootDiskAssumption == MaxMisses \in Nat
\* heads and sectors are the drive's, bpb_* what its first sector says; the
\* table of the second stage has room for six entries, unused ones are zero.
PosEntries == 6
ASSUME VolumesAssumption ==
  \A v \in Volumes : /\ v.heads \in Nat \ {0} /\ v.sectors \in Nat \ {0}
                     /\ v.bpb_heads \in Nat \ {0} /\ v.bpb_sectors \in Nat \ {0}
                     /\ v.stage2_pos \in [1 .. PosEntries -> [lba : Nat, count : Nat]]
\* x86_Disk_GetDriveParams: 6 bits for the last sector, 8 for the last head.
ASSUME GeometryAssumption ==
  \A v \in Volumes : v.heads <= 256 /\ v.sectors <= 63

VARIABLES
  vol,          \* the disk
  io,           \* the read in progress and its outcome
  misses,       \* failing BIOS calls so far
  bad           \* history: a request failed three times, or a reset failed

diskVars == <<vol, io, misses, bad>>

NoSector == -1                      \* a buffer nothing was read into
Idle == [phase |-> "idle", dest |-> "none", lba |-> 0, at |-> NoSector, tries |-> 0,
         failed |-> 0, ok |-> FALSE]

MinOf(x, y) == IF x < y THEN x ELSE y

\* The sector the BIOS addresses for a cylinder, head and sector.
Addressed(c, h, s) == (c * vol.heads + h) * vol.sectors + s - 1

lba_to_chs(lba) ==
  [c |-> lba \div (vol.sectors * vol.heads), h |-> (lba \div vol.sectors) % vol.heads,
   s |-> (lba % vol.sectors) + 1]

\* Second stage: 10 bits of the cylinder reach the BIOS.
Reached2(lba) ==
  LET chs == lba_to_chs(lba)
  IN  Addressed(chs.c % 1024, chs.h % 256, chs.s % 64)

\* First stage: the whole number with the extensions, else 16 bits of it split
\* by the geometry of the boot sector; 8 bits of the cylinder reach the BIOS,
\* and its upper bits are those of the sector's byte.
Reached1(lba) ==
  LET n == lba % 65536
      c == n \div (vol.bpb_sectors * vol.bpb_heads)
      h == (n \div vol.bpb_sectors) % vol.bpb_heads
      s == (n % vol.bpb_sectors) + 1
  IN  IF vol.extension THEN lba
      ELSE Addressed((c % 256) + 256 * ((s \div 64) % 4), h % 256, s % 64)

\* A call of Disk_ReadSector or disk_read; `at' is the sector that is read.
Request(dest, lba) ==
  io' = [Idle EXCEPT !.phase = "read", !.dest = dest, !.lba = lba]

Free == io.phase = "idle"
Answered(dest) == io.phase = "done" /\ io.dest = dest

x86_Disk_Read ==
  /\ io.phase = "read"
  /\ \/ /\ io' = [io EXCEPT !.phase = "done", !.ok = TRUE, !.at = io.lba]
        /\ UNCHANGED <<misses, bad>>
     \/ /\ misses < MaxMisses /\ misses' = misses + 1
        /\ io' = [io EXCEPT !.phase = "reset", !.failed = @ + 1]
        /\ bad' = (bad \/ io.failed = 2)
  /\ UNCHANGED vol

\* Mistake: the third try is not made.
x86_Disk_Reset_TwoTries ==
  /\ io.phase = "reset"
  /\ \/ /\ io' = [io EXCEPT !.phase = IF io.tries = 1 THEN "done" ELSE "read",
                            !.tries = @ + 1]
        /\ UNCHANGED <<misses, bad>>
     \/ /\ misses < MaxMisses /\ misses' = misses + 1
        /\ io' = [io EXCEPT !.phase = "done"]
        /\ bad' = TRUE
  /\ UNCHANGED vol

\* Mistake: what counts is that the reset worked.
x86_Disk_Reset_GivesUpOk ==
  /\ io.phase = "reset"
  /\ \/ /\ io' = [io EXCEPT !.phase = IF io.tries = 2 THEN "done" ELSE "read",
                            !.tries = @ + 1, !.ok = TRUE]
        /\ UNCHANGED <<misses, bad>>
     \/ /\ misses < MaxMisses /\ misses' = misses + 1
        /\ io' = [io EXCEPT !.phase = "done"]
        /\ bad' = TRUE
  /\ UNCHANGED vol

\* The reset after a failure, and the loop's counter.
x86_Disk_Reset ==
  /\ io.phase = "reset"
  /\ \/ /\ io' = [io EXCEPT !.phase = IF io.tries = 2 THEN "done" ELSE "read",
                            !.tries = @ + 1]
        /\ UNCHANGED <<misses, bad>>
     \/ /\ misses < MaxMisses /\ misses' = misses + 1
        /\ io' = [io EXCEPT !.phase = "done"]
        /\ bad' = TRUE
  /\ UNCHANGED vol

DiskNext == x86_Disk_Read \/ x86_Disk_Reset

DiskInit ==
  /\ vol \in Volumes
  /\ io = Idle /\ misses = 0 /\ bad = FALSE
=============================================================================
