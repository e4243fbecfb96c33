-------------------------------- MODULE Ata --------------------------------
(***************************************************************************)
(* The driver of the ATA disk, and the drive                               *)
(*   src/kernel/driver/ata/ata.c                                           *)
(*                                                                         *)
(* The FAT driver asks for one sector at a time, of whose content one      *)
(* value is kept.  An address has LowMod values in the three registers of  *)
(* eight bits and TopMod in the four bits of the drive register.  The      *)
(* drive sets BSY with the command, as ATA wants it, and the driver polls; *)
(* the line of the disk, which nobody waits for, is raised all the same.   *)
(***************************************************************************)
EXTENDS Interrupts

CONSTANTS
  LowMod,            \* 2^24
  TopMod,            \* 2^4
  partition_offset,
  Lbas,              \* bound: the sectors that are asked for; those of 28 bits
                     \*   stay within 28 bits in the partition
  Values             \* bound: what is written to them

ASSUME AtaAssumption ==
  /\ LowMod \in Nat \ {0} /\ TopMod \in Nat \ {0}
  /\ partition_offset \in Nat /\ Lbas \subseteq Nat
  /\ \A lba \in Lbas : lba < LowMod * TopMod => partition_offset + lba < LowMod * TopMod
  /\ Values \subseteq Nat \ {0}

VARIABLES
  disk,        \* what the sectors hold
  drive,       \* "idle", "busy" (BSY), "data" (DRQ) or "failed" (ERR)
  command,     \* what the drive works on: command and sector
  request,     \* the driver's call: operation, lba and value
  at,          \* where the driver is
  got,         \* what the last read returned, Failed for -1 and -2
  wrote        \* history: per lba the value last written

ataVars == <<disk, drive, command, request, at, got, wrote>>

Sectors == 0 .. LowMod * TopMod - 1
Blank == 0
Unread == -1
Failed == -2
NoCommand == [op |-> "none", sector |-> 0]
NoRequest == [op |-> "none", lba |-> 0, value |-> Blank]

AtaInit ==
  /\ disk = [s \in Sectors |-> Blank]
  /\ drive = "idle" /\ command = NoCommand
  /\ request = NoRequest /\ at = "ready"
  /\ got = Unread
  /\ wrote = [lba \in Lbas |-> Blank]

Low(n) == n % LowMod
TopBits(n) == (n \div LowMod) % TopMod
lba_real(lba) == partition_offset + lba

\* Mistake: the partition is forgotten where the sector is written.
WriteSector_Whole(lba) == TopBits(lba) * LowMod + Low(lba)

\* The sector a write goes to has the low bits of lba_real and the top bits
\* of lba; a read has both from lba_real.
WriteSector(lba) == TopBits(lba) * LowMod + Low(lba_real(lba))

ReadSector(lba) == TopBits(lba_real(lba)) * LowMod + Low(lba_real(lba))

\* A sector that is written elsewhere than where it is read.
Astray(lba) == TopBits(lba_real(lba)) # TopBits(lba)

-----------------------------------------------------------------------------
(* The drive                                                               *)

\* It is done with what it was asked, or fails; either raises the line.
DriveDone ==
  /\ drive = "busy"
  /\ CASE command.op = "read" ->
            drive' \in {"data", "failed"} /\ UNCHANGED <<disk, command>>
       [] command.op = "write" -> drive' = "data" /\ UNCHANGED <<disk, command>>
       [] command.op = "store" ->
            /\ drive' \in {"idle", "failed"}
            /\ disk' = IF drive' = "idle" THEN [disk EXCEPT ![command.sector] = request.value] ELSE disk
            /\ command' = NoCommand
       [] command.op = "flush" ->
            drive' \in {"idle", "failed"} /\ command' = NoCommand /\ UNCHANGED disk
  /\ irr' = irr \cup {Disk}
  /\ UNCHANGED <<request, at, got, wrote>>
  /\ UNCHANGED <<cpuVars, tables, isr1, isr2, pit_ticks, buffered, target, queue, trouble>>

Asked(op, sector) == command' = [op |-> op, sector |-> sector]

-----------------------------------------------------------------------------
(* The driver                                                              *)

\* An address of more than 28 bits is refused.
TooLarge(lba) == lba >= LowMod * TopMod

ata_read28(lba) ==
  /\ at = "ready"
  /\ IF TooLarge(lba)
       THEN got' = Failed /\ UNCHANGED <<drive, command, request, at>>
       ELSE /\ request' = [op |-> "read", lba |-> lba, value |-> Blank]
            /\ drive' = "busy" /\ Asked("read", ReadSector(lba))
            /\ at' = "read" /\ got' = Unread
  /\ UNCHANGED <<disk, wrote, intVars>>

\* BSY is clear: ERR, or the data.
ReadDone ==
  /\ at = "read" /\ drive # "busy"
  /\ got' = IF drive = "failed" THEN Failed ELSE disk[command.sector]
  /\ drive' = "idle" /\ command' = NoCommand
  /\ at' = "ready"
  /\ UNCHANGED <<disk, request, wrote, intVars>>

\* The command; a drive that asks for the data later than at once misses it,
\* for the driver does not look.
ata_write28(lba, value) ==
  /\ at = "ready" /\ ~TooLarge(lba)
  /\ request' = [op |-> "write", lba |-> lba, value |-> value]
  /\ drive' = "busy"
  /\ \/ Asked("store", WriteSector(lba)) /\ UNCHANGED trouble
     \/ Asked("write", WriteSector(lba)) /\ trouble' = trouble \cup {"not stored"}
  /\ wrote' = [wrote EXCEPT ![lba] = value]
  /\ at' = "flush" /\ got' = Unread
  /\ UNCHANGED <<disk, cpuVars, tables, pic, pit_ticks, buffered, target, queue>>

\* ata_flush does not wait either: a drive that is still busy, or waits for
\* data, ignores the command, and one that failed forgets that it did.
ata_flush ==
  /\ at = "flush"
  /\ IF drive \in {"idle", "failed"} THEN drive' = "busy" /\ Asked("flush", 0)
     ELSE UNCHANGED <<drive, command>>
  /\ trouble' = trouble \cup (IF drive = "failed" THEN {"not stored"} ELSE {})
  /\ at' = "flushing"
  /\ UNCHANGED <<disk, request, got, wrote, cpuVars, tables, pic, pit_ticks, buffered, target, queue>>

\* A drive that failed is only told on the screen: the write returned 0.
FlushDone ==
  /\ at = "flushing" /\ drive # "busy"
  /\ trouble' = trouble \cup (IF drive = "failed" THEN {"not stored"} ELSE {})
                        \cup (IF Astray(request.lba) THEN {"not stored"} ELSE {})
  /\ drive' = "idle" /\ command' = NoCommand
  /\ at' = "ready" /\ request' = NoRequest
  /\ UNCHANGED <<disk, got, wrote, cpuVars, tables, pic, pit_ticks, buffered, target, queue>>

DriverStep == ReadDone \/ ata_flush \/ FlushDone
=============================================================================
