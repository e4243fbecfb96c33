------------------------- MODULE BootKernel_proofs -------------------------
(***************************************************************************)
(* Theorems about how BootLoader gets the kernel into memory, for every    *)
(* disk whose numbers are numbers, every chain of clusters, every number   *)
(* and size of segments, and whatever reads fail                           *)
(*                                                                         *)
(* The invariant is KernelInv: types, and on a disk that KernelIntact asks *)
(* for, what buffer and cache hold, where in the file the loader is, and   *)
(* which bytes of it are in memory.                                        *)
(***************************************************************************)
EXTENDS BootLoader_proofs, SequenceTheorems

SegmentHeaders == [load : BOOLEAN, offset : Nat, filesz : Nat, memsz : Nat]

-----------------------------------------------------------------------------
(* The invariant                                                           *)

FileFields == {"handle", "size", "pos", "cluster", "sector", "buf"}

\* The disk and the request.
IoType ==
  /\ vol \in Volumes
  /\ io.phase \in {"idle", "read", "reset", "done"} /\ io.tries \in 0 .. 3
  /\ io.phase \in {"read", "reset"} => io.tries # 3

\* The file, and the counts of a FAT_Read: what is still to be copied lies in
\* the file.
FileType ==
  /\ DOMAIN file = FileFields
  /\ file.pos \in Nat /\ file.size \in Nat /\ file.pos <= file.size
  /\ file.sector \in Nat /\ file.sector < vol.SectorsPerCluster
  /\ rd.phase \in {"none", "copy", "next", "sector", "done"}
  /\ rd.want \in Nat /\ rd.left \in Nat /\ rd.got \in Nat /\ rd.got + rd.left <= rd.want
  /\ rd.phase = "none" => rd = NoRead
  /\ rd.phase = "copy" => rd.left > 0
  /\ rd.phase \in {"copy", "next", "sector"} => rd.left <= file.size - file.pos

\* The handles.
HandleType ==
  /\ opened \subseteq Handles
  /\ opening = "entry" => 0 \in Handles

\* The table and the segment ELF_read is at; it never asks for more than what is
\* left of it.
ElfType ==
  /\ table \in Seq(SegmentHeaders) /\ seg \in 0 .. Len(table) + 1 /\ todo \in Nat
  /\ pc \in {"elf", "header", "skip", "table"} \cup Early => seg = 0
  /\ pc = "segment" => seg # Len(table) + 1
  /\ pc = "kernel" => seg = Len(table) + 1
  /\ pc \in {"seek", "load"} => seg \in 1 .. Len(table)
  /\ pc \in {"seek", "load"} /\ rd.phase # "none" => rd.want \in 1 .. todo

TypeRight == IoType /\ FileType /\ HandleType /\ ElfType

\* What KernelIntact asks of the disk, and that no failed read was ignored.
Good == ~ignored /\ NoStraddle(vol) /\ InReach2(vol) /\ ShortSegments(vol)

\* The sector a request is about, and that it is the one that was read.
RequestKnown ==
  /\ io.ok => io.phase = "done" /\ io.at = io.lba
  /\ io.phase # "idle" =>
       /\ io.dest = "entry" =>
            io.lba = Reached2(FAT_ClusterToLba(vol, vol.chain[1]) + Offset(vol))
       /\ io.dest = "fat" =>
            /\ rd.phase = "next"
            /\ io.lba = Reached2(vol.ReservedSectors + FatIndexSector(file.cluster) + Offset(vol))
       /\ io.dest = "file" =>
            io.lba = Reached2(FAT_ClusterToLba(vol, file.cluster) + file.sector + Offset(vol))

\* The cache holds what its position says.
CacheRight ==
  cache.pos # NoSector =>
    cache.pos \in Nat /\ cache.at = Offset(vol) + vol.ReservedSectors + cache.pos

\* The place of a byte of the file in its chain.
ClusterOf(v, p) == (p \div SECTOR_SIZE) \div v.SectorsPerCluster + 1
SectorOf(v, p) == (p \div SECTOR_SIZE) % v.SectorsPerCluster

\* The file's cluster and sector are those of its position, ...
OnPlace ==
  /\ ClusterOf(vol, file.pos) \in 1 .. Len(vol.chain)
  /\ file.cluster = vol.chain[ClusterOf(vol, file.pos)]
  /\ file.sector = SectorOf(vol, file.pos)

\* ... or those of the cluster before it, which has been read to its end.
BehindCluster ==
  /\ ClusterOf(vol, file.pos) - 1 \in 1 .. Len(vol.chain)
  /\ file.cluster = vol.chain[ClusterOf(vol, file.pos) - 1]
  /\ file.sector = 0 /\ SectorOf(vol, file.pos) = 0

\* From where FAT_Read copies.
Reachable ==
  \/ file.pos = file.size
  \/ OnPlace /\ file.buf = FileLba(vol, file.pos)

\* A file is open and in use.
InFile == opening = "opened" \/ (opening = "no" /\ pc \in Reading \cup {"seek"})

PlaceRight ==
  InFile =>
    /\ rd.phase = "none" \/ rd.phase = "copy" \/ (rd.phase = "done" /\ rd.left = 0) => Reachable
    /\ rd.phase = "next" => BehindCluster
    /\ rd.phase = "sector" => OnPlace

PieceFields == {"to", "lba", "at", "len"}

\* Pieces that are n bytes of the file from byte p on, each from its sector and
\* one behind the other.
Pieces(v, out, p, n) ==
  /\ \A x \in out :
       /\ DOMAIN x = PieceFields
       /\ x.to \in Nat /\ x.len \in Nat /\ x.to + x.len <= n
       /\ x.lba = FileLba(v, p + x.to) /\ x.at = (p + x.to) % SECTOR_SIZE
  /\ \A e \in {0} \cup {x.to + x.len : x \in out} : e = n \/ \E x \in out : x.to = e

\* The place in the file where the FAT_Read in progress, or the next one, begins.
From == file.pos - rd.got

ReadRight ==
  InFile => rd.got <= file.pos /\ Pieces(vol, rd.out, From, rd.got)

\* Where ELF_read is in the file.
FilePlace ==
  /\ opening = "opened" => file.pos = 0
  /\ pc = "header" => From = 0 /\ rd.want = sizeof_elf_hdr
  /\ pc = "skip" => From = sizeof_elf_hdr /\ rd.want = vol.header_table - sizeof_elf_hdr
  /\ pc = "table" => From = vol.header_table
  /\ pc = "seek" /\ opening # "no" => todo = vol.headers[seg].offset
  /\ pc = "seek" /\ opening = "no" => From + todo = vol.headers[seg].offset
  /\ pc = "load" => From + todo = vol.headers[seg].offset + vol.headers[seg].filesz

\* The segments before the one in progress are in memory, and of that one what
\* was read.
SegmentsRight ==
  pc \in {"segment", "seek", "load", "kernel"} =>
    /\ table = vol.headers /\ DOMAIN mem = DOMAIN table /\ DOMAIN cleared = DOMAIN table
    /\ \A s \in DOMAIN table :
         s < seg \/ (s = seg /\ pc = "segment") => (table[s].load => SegmentIntact(s))
    /\ \A s \in DOMAIN table : s > seg \/ (s = seg /\ pc = "seek") => mem[s] = {}
    /\ pc \in {"seek", "load"} =>
         /\ table[seg].load
         /\ table[seg].memsz > table[seg].filesz => cleared[seg] = table[seg].memsz
    /\ pc = "load" =>
         /\ todo <= table[seg].filesz
         /\ Pieces(vol, mem[seg], table[seg].offset, table[seg].filesz - todo)

LoadRight == CacheRight /\ PlaceRight /\ ReadRight /\ FilePlace /\ SegmentsRight

KernelInv == TypeRight /\ RequestKnown /\ (Good => LoadRight)

-----------------------------------------------------------------------------
(* Numbers                                                                 *)

\* Quotient and remainder of a number that is put together from them.
LEMMA Quotient ==
  ASSUME NEW S \in Nat \ {0}, NEW q \in Nat, NEW r \in 0 .. S - 1
  PROVE  (S * q + r) \div S = q /\ (S * q + r) % S = r
<1> DEFINE n == S * q + r
           d == n \div S
           e == n % S
<1>1. n \in Nat
  OBVIOUS
<1> HIDE DEF n
<1>2. d \in Nat /\ e \in 0 .. S - 1 /\ S * d + e = n
  BY <1>1
<1> HIDE DEF d, e
<1>3. d = q
  BY <1>2, OneQuotient DEF n
<1>4. S * d = S * q /\ S * q \in Nat
  BY <1>3
<1>5. e = r
  <2> DEFINE x == S * q
  <2>1. x \in Nat /\ x + e = x + r
    BY <1>2, <1>4 DEF n
  <2> HIDE DEF x
  <2> QED
    BY <1>2, <2>1
<1> QED
  BY <1>3, <1>5 DEF n, d, e

\* The next number has the next remainder, or the next quotient and none.
LEMMA NextRemainder ==
  ASSUME NEW S \in Nat \ {0}, NEW n \in Nat
  PROVE  /\ n \div S \in Nat /\ n % S \in 0 .. S - 1
         /\ (n % S) + 1 < S => (n + 1) \div S = n \div S /\ (n + 1) % S = (n % S) + 1
         /\ (n % S) + 1 >= S => (n + 1) \div S = n \div S + 1 /\ (n + 1) % S = 0
<1> DEFINE q == n \div S
           r == n % S
<1>1. q \in Nat /\ r \in 0 .. S - 1 /\ n = S * q + r
  OBVIOUS
<1> HIDE DEF q, r
<1>2. ASSUME r + 1 < S
      PROVE  (n + 1) \div S = q /\ (n + 1) % S = r + 1
  <2>1. r + 1 \in 0 .. S - 1
    BY <1>1, <1>2
  <2>2. n + 1 = S * q + (r + 1)
    <3> DEFINE x == S * q
    <3>1. x \in Nat /\ n = x + r
      BY <1>1
    <3> HIDE DEF x
    <3>2. n + 1 = x + (r + 1)
      BY <1>1, <3>1
    <3> QED
      BY <3>2 DEF x
  <2>3. (S * q + (r + 1)) \div S = q /\ (S * q + (r + 1)) % S = r + 1
    BY <1>1, <2>1, Quotient
  <2> QED
    BY <2>2, <2>3
<1>3. ASSUME r + 1 >= S
      PROVE  (n + 1) \div S = q + 1 /\ (n + 1) % S = 0
  <2>1. r = S - 1
    BY <1>1, <1>3
  <2>2. n + 1 = S * (q + 1) + 0
    BY <1>1, <2>1
  <2>3. (S * (q + 1) + 0) \div S = q + 1 /\ (S * (q + 1) + 0) % S = 0
    BY <1>1, Quotient
  <2> QED
    BY <2>2, <2>3
<1> QED
  BY <1>1, <1>2, <1>3 DEF q, r

\* A byte further on in the sector, and the first one behind it.
LEMMA NextByte ==
  ASSUME NEW p \in Nat, NEW n \in Nat
  PROVE  /\ p \div SECTOR_SIZE \in Nat /\ p % SECTOR_SIZE \in 0 .. SECTOR_SIZE - 1
         /\ (p % SECTOR_SIZE) + n < SECTOR_SIZE =>
              /\ (p + n) \div SECTOR_SIZE = p \div SECTOR_SIZE
              /\ (p + n) % SECTOR_SIZE = (p % SECTOR_SIZE) + n
         /\ (p % SECTOR_SIZE) + n = SECTOR_SIZE =>
              /\ (p + n) \div SECTOR_SIZE = p \div SECTOR_SIZE + 1
              /\ (p + n) % SECTOR_SIZE = 0
BY DEF SECTOR_SIZE

\* A number of sectors is not less than the number of clusters.
LEMMA TimesIsMore ==
  ASSUME NEW a \in Nat, NEW S \in Nat \ {0}
  PROVE  a * S \in Nat /\ a <= a * S
<1>1. PICK k \in Nat : S = 1 + k
  <2>1. S - 1 \in Nat /\ S = 1 + (S - 1)
    OBVIOUS
  <2> QED
    BY <2>1
<1>2. a * S = a + a * k /\ a * k \in Nat
  BY <1>1
<1> DEFINE x == a * k
<1>3. x \in Nat /\ a * S = a + x
  BY <1>2
<1> HIDE DEF x
<1>4. a + x \in Nat /\ a <= a + x
  BY <1>3
<1> QED
  BY <1>3, <1>4

-----------------------------------------------------------------------------
(* The disk                                                                *)

\* A volume's numbers.
LEMMA VolumeFacts ==
  ASSUME NEW v \in Volumes
  PROVE  /\ v.SectorsPerCluster \in Nat \ {0} /\ v.ReservedSectors \in Nat /\ v.size \in Nat
         /\ Offset(v) \in Nat
         /\ DataSectionLba(v) \in Nat /\ v.ReservedSectors <= DataSectionLba(v)
         /\ Len(v.chain) \in Nat \ {0} /\ DOMAIN v.chain = 1 .. Len(v.chain)
         /\ \A i \in 1 .. Len(v.chain) : v.chain[i] \in Nat /\ v.chain[i] >= 2
         /\ \A i, j \in 1 .. Len(v.chain) : v.chain[i] = v.chain[j] => i = j
<1> DEFINE c == v.chain
<1>1. /\ v.SectorsPerCluster \in Nat \ {0}
      /\ v.ReservedSectors \in Nat /\ v.FatCount \in Nat /\ v.DirEntryCount \in Nat
      /\ v.SectorsPerFat \in Nat /\ v.sector_per_fat \in Nat
      /\ v.lba_partition_start \in Nat /\ v.size \in Nat
      /\ c \in Seq(Nat \ {0, 1}) /\ c # << >>
      /\ \A i, j \in DOMAIN c : c[i] = c[j] => i = j
  BY FatAssumption
<1> HIDE DEF c
<1>2. Offset(v) \in Nat
  BY <1>1 DEF Offset
<1>3. /\ DataSectionLba(v) \in Nat /\ v.ReservedSectors <= DataSectionLba(v)
  <2>1. SectorsPerFat(v) \in Nat
    BY <1>1 DEF SectorsPerFat
  <2>2. SectorsPerFat(v) * v.FatCount \in Nat
    BY <1>1, <2>1
  <2>3. AfterFats(v) \in Nat /\ v.ReservedSectors <= AfterFats(v)
    BY <1>1, <2>2 DEF AfterFats
  <2>4. (32 * v.DirEntryCount + SECTOR_SIZE - 1) \div SECTOR_SIZE \in Nat
    <3>1. \A n \in Nat : n \div SECTOR_SIZE \in Nat
      BY DEF SECTOR_SIZE
    <3>2. 32 * v.DirEntryCount + SECTOR_SIZE - 1 \in Nat
      BY <1>1 DEF SECTOR_SIZE
    <3> QED
      BY <3>1, <3>2
  <2> QED
    BY <1>1, <2>3, <2>4 DEF DataSectionLba
<1>4. /\ Len(c) \in Nat \ {0} /\ DOMAIN c = 1 .. Len(c)
      /\ \A i \in 1 .. Len(c) : c[i] \in Nat /\ c[i] >= 2
  <2>1. Len(c) \in Nat /\ DOMAIN c = 1 .. Len(c)
    BY <1>1
  <2>2. Len(c) # 0
    BY <1>1, EmptySeq
  <2>3. \A i \in 1 .. Len(c) : c[i] \in Nat \ {0, 1}
    BY <1>1, ElementOfSeq
  <2> QED
    BY <2>1, <2>2, <2>3
<1> QED
  BY <1>1, <1>2, <1>3, <1>4 DEF c

\* A volume's geometry.
LEMMA GeometryFacts ==
  ASSUME NEW v \in Volumes
  PROVE  /\ v.heads \in Nat \ {0} /\ v.sectors \in Nat \ {0}
         /\ v.heads <= 256 /\ v.sectors <= 63
         /\ 1024 * v.heads * v.sectors \in Nat
<1>1. /\ v.heads \in Nat \ {0} /\ v.sectors \in Nat \ {0}
      /\ v.heads <= 256 /\ v.sectors <= 63
  BY VolumesAssumption, GeometryAssumption
<1>2. \A h \in Nat, s \in Nat : 1024 * h * s \in Nat
  OBVIOUS
<1> QED
  BY <1>1, <1>2

\* Below cylinder 1024 the sector of a number is the number's own.
LEMMA ReachedIsRead ==
  ASSUME vol \in Volumes, NEW l \in Nat, l < 1024 * vol.heads * vol.sectors
  PROVE  Reached2(l) = l
<1> DEFINE H == vol.heads
           S == vol.sectors
           m == S * H
<1>1. H \in Nat \ {0} /\ S \in Nat \ {0} /\ H <= 256 /\ S <= 63
  BY GeometryFacts
<1>2. l < 1024 * H * S
  OBVIOUS
<1> HIDE DEF H, S
<1>3. m \in Nat \ {0} /\ 1024 * H * S = 1024 * m
  BY <1>1
<1> HIDE DEF m
<1>4. l \div m < 1024
  BY <1>2, <1>3, CylinderBelow
<1>5. /\ ((l \div m) * H + ((l \div S) % H)) * S + (l % S) = l
      /\ l \div m \in Nat /\ (l \div S) % H \in Nat /\ l % S \in Nat
  BY <1>1, SplitNumber DEF m
<1>6. (l \div m) % 1024 = l \div m
  BY <1>4, <1>5
<1>7. ((l \div S) % H) % 256 = (l \div S) % H
  <2>1. l \div S \in Nat
    BY <1>1
  <2>2. (l \div S) % H \in 0 .. H - 1
    BY <1>1, <2>1
  <2>3. (l \div S) % H \in 0 .. 255
    BY <1>1, <2>2
  <2>4. \A n \in 0 .. 255 : n % 256 = n
    OBVIOUS
  <2> QED
    BY <2>3, <2>4
<1>8. ((l % S) + 1) % 64 = (l % S) + 1
  <2>1. l % S \in 0 .. S - 1
    BY <1>1
  <2>2. (l % S) + 1 \in 0 .. 63
    BY <1>1, <2>1
  <2>3. \A n \in 0 .. 63 : n % 64 = n
    OBVIOUS
  <2> QED
    BY <2>2, <2>3
<1>9. Reached2(l) = ((l \div m) * H + ((l \div S) % H)) * S + ((l % S) + 1) - 1
  BY <1>6, <1>7, <1>8 DEF Reached2, lba_to_chs, Addressed, H, S, m
<1> DEFINE x == ((l \div m) * H + ((l \div S) % H)) * S
           y == l % S
<1>10. x + y = l /\ y \in Nat /\ x \in Int /\ Reached2(l) = x + (y + 1) - 1
  BY <1>1, <1>5, <1>9
<1> HIDE DEF x, y
<1> QED
  BY <1>10

\* The sectors of the file's clusters are within reach.
LEMMA ChainReached ==
  ASSUME vol \in Volumes, InReach2(vol), NEW i \in 1 .. Len(vol.chain),
         NEW k \in 0 .. vol.SectorsPerCluster - 1
  PROVE  Reached2(FAT_ClusterToLba(vol, vol.chain[i]) + k + Offset(vol))
           = Offset(vol) + k + FAT_ClusterToLba(vol, vol.chain[i])
<1> DEFINE o == Offset(vol)
           c == vol.chain[i]
           S == vol.SectorsPerCluster
           l == FAT_ClusterToLba(vol, c)
           top == 1024 * vol.heads * vol.sectors
<1>1. o \in Nat /\ S \in Nat \ {0} /\ c \in Nat /\ c >= 2 /\ DataSectionLba(vol) \in Nat
  BY VolumeFacts
<1>2. o + l + S <= top
  BY VolumeFacts DEF InReach2
<1>3. top \in Nat
  BY GeometryFacts
<1>4. l \in Nat
  <2>1. c - 2 \in Nat
    BY <1>1
  <2>2. (c - 2) * S \in Nat
    BY <1>1, <2>1, TimesIsMore
  <2> QED
    BY <1>1, <2>2 DEF FAT_ClusterToLba
<1> HIDE DEF o, c, S, l, top
<1>5. k \in Nat /\ k < S
  BY <1>1 DEF S
<1>6. l + k + o \in Nat /\ l + k + o < top /\ l + k + o = o + k + l
  BY <1>1, <1>2, <1>3, <1>4, <1>5
<1>7. Reached2(l + k + o) = l + k + o
  BY <1>6, ReachedIsRead DEF top
<1> QED
  BY <1>6, <1>7 DEF o, c, l

\* So are the sectors of the FAT with the entries of those clusters.
LEMMA FatReached ==
  ASSUME vol \in Volumes, InReach2(vol), NEW i \in 1 .. Len(vol.chain)
  PROVE  /\ FatIndexSector(vol.chain[i]) \in Nat
         /\ Reached2(vol.ReservedSectors + FatIndexSector(vol.chain[i]) + Offset(vol))
              = Offset(vol) + vol.ReservedSectors + FatIndexSector(vol.chain[i])
<1> DEFINE o == Offset(vol)
           c == vol.chain[i]
           S == vol.SectorsPerCluster
           r == vol.ReservedSectors
           d == DataSectionLba(vol)
           f == FatIndexSector(c)
           top == 1024 * vol.heads * vol.sectors
<1>1. /\ o \in Nat /\ S \in Nat \ {0} /\ c \in Nat /\ c >= 2
      /\ r \in Nat /\ d \in Nat /\ r <= d
  BY VolumeFacts
<1>2. o + FAT_ClusterToLba(vol, c) + S <= top
  BY VolumeFacts DEF InReach2
<1>3. top \in Nat
  BY GeometryFacts
<1>4. f \in Nat /\ f <= c - 2
  <2>1. FatIndex(vol, c) \in {(c * 3) \div 2, c * 2, c * 4}
    BY DEF FatIndex
  <2>2. FatIndex(vol, c) \in Nat /\ FatIndex(vol, c) <= 4 * c
    <3> DEFINE x == FatIndex(vol, c)
    <3>1. c \in Nat /\ x \in {(c * 3) \div 2, c * 2, c * 4}
      BY <1>1, <2>1
    <3> HIDE DEF c, x
    <3>2. ASSUME x = (c * 3) \div 2 PROVE x \in Nat /\ x <= 4 * c
      BY <3>1, <3>2
    <3>3. ASSUME x = c * 2 PROVE x \in Nat /\ x <= 4 * c
      BY <3>1, <3>3
    <3>4. ASSUME x = c * 4 PROVE x \in Nat /\ x <= 4 * c
      BY <3>1, <3>4
    <3>5. x \in Nat /\ x <= 4 * c
      BY <3>1, <3>2, <3>3, <3>4
    <3> QED
      BY <3>5 DEF x, c
  <2>3. ASSUME NEW x \in Nat, NEW n \in Nat, n >= 2, x <= 4 * n
        PROVE  x \div 512 \in Nat /\ x \div 512 <= n - 2
    BY <2>3
  <2> QED
    BY <1>1, <2>2, <2>3 DEF FatIndexSector, SECTOR_SIZE
<1> DEFINE w == (c - 2) * S
<1>5. w \in Nat /\ c - 2 \in Nat /\ c - 2 <= w
  <2>1. c - 2 \in Nat
    BY <1>1
  <2> QED
    BY <1>1, <2>1, TimesIsMore
<1>6. FAT_ClusterToLba(vol, c) = d + w
  BY DEF FAT_ClusterToLba
<1> HIDE DEF o, c, S, r, d, f, top, w
<1>7. r + f + o \in Nat /\ r + f + o < top /\ r + f + o = o + r + f
  BY <1>1, <1>2, <1>3, <1>4, <1>5, <1>6
<1>8. Reached2(r + f + o) = r + f + o
  BY <1>7, ReachedIsRead DEF top
<1> QED
  BY <1>4, <1>7, <1>8 DEF o, c, r, f
-----------------------------------------------------------------------------
(* Types                                                                   *)

\* FAT_Read, whose count is cut to what is left of the file, starts with counts
\* that fit.
LEMMA CallType ==
  ASSUME FileType, NEW n \in Nat, FAT_Read(n), UNCHANGED <<vol, file>>
  PROVE  /\ FileType' /\ rd'.want = n /\ rd'.got = 0 /\ rd'.out = {}
         /\ rd'.phase \in {"done", "copy"} /\ rd'.left = MinOf(n, file.size - file.pos)
         /\ rd'.phase = "done" <=> rd'.left = 0
<1> DEFINE l == MinOf(n, file.size - file.pos)
<1>1. l \in Nat /\ l <= n /\ l <= file.size - file.pos
  BY DEF FileType, MinOf
<1> HIDE DEF l
<1>2. rd' = [phase |-> IF l = 0 THEN "done" ELSE "copy",
             want |-> n, left |-> l, got |-> 0, out |-> {}]
  BY DEF FAT_Read, l
<1>3. /\ rd'.want = n /\ rd'.got = 0 /\ rd'.out = {} /\ rd'.left = l
      /\ rd'.phase = IF l = 0 THEN "done" ELSE "copy"
  BY <1>2
<1>4. FileType'
  BY <1>1, <1>3 DEF FileType
<1> QED
  BY <1>3, <1>4 DEF l

\* No FAT_Read has begun.
LEMMA NoCallType ==
  ASSUME FileType, rd' = NoRead, UNCHANGED <<vol, file>>
  PROVE  FileType'
BY DEF FileType, NoRead

\* A request, and the end of one.
LEMMA RequestType ==
  ASSUME IoType, NEW d, NEW l, Request(d, l) \/ io' = Idle, UNCHANGED vol
  PROVE  IoType'
<1>1. CASE Request(d, l)
  <2>1. io' = [phase |-> "read", dest |-> d, lba |-> l, at |-> NoSector, tries |-> 0,
               failed |-> 0, ok |-> FALSE]
    BY <1>1, Zenon DEF Request, Idle
  <2>2. io'.phase = "read" /\ io'.tries = 0
    BY <2>1
  <2> QED
    BY <2>2 DEF IoType
<1>2. CASE io' = Idle
  BY <1>2 DEF IoType, Idle
<1> QED
  BY <1>1, <1>2

\* At the start no buffer holds anything and nothing is in progress.
LEMMA InitType == Init => TypeRight
<1> SUFFICES ASSUME Init PROVE TypeRight
  OBVIOUS
<1>1. IoType
  BY DEF Init, DiskInit, IoType, Idle
<1>2. FileType
  BY <1>1, VolumeFacts DEF Init, FatInit, FileType, IoType, NoRead, FileFields
<1>3. HandleType
  BY DEF Init, FatInit, HandleType
<1>4. ElfType
  BY DEF Init, ElfType, Early
<1> QED
  BY <1>1, <1>2, <1>3, <1>4 DEF TypeRight

\* The answers of the BIOS.
LEMMA DiskType ==
  ASSUME Control, TypeRight, DiskNext,
         UNCHANGED <<fatVars, pc, stage2, regions, block, elfVars>>
  PROVE  TypeRight'
<1>1. IoType'
  <2>1. CASE x86_Disk_Read
    BY <2>1 DEF x86_Disk_Read, TypeRight, IoType, Control, Records, Fields
  <2>2. CASE x86_Disk_Reset
    <3>1. io.phase = "reset" /\ io.tries \in 0 .. 2 /\ UNCHANGED vol
      BY <2>2 DEF x86_Disk_Reset, TypeRight, IoType
    <3>2. \/ io'.phase \in {"done", "read"} /\ io'.tries = io.tries + 1
             /\ (io'.phase = "read" => io.tries # 2)
          \/ io'.phase = "done" /\ io'.tries = io.tries
      <4>1. {"phase", "tries"} \subseteq DOMAIN io
        BY DEF Control, Records, Fields
      <4> QED
        BY <2>2, <4>1 DEF x86_Disk_Reset
    <3> QED
      BY <3>1, <3>2 DEF TypeRight, IoType
  <2> QED
    BY <2>1, <2>2 DEF DiskNext
<1>2. UNCHANGED <<vol, file, rd, opened, opening, pc, table, seg, todo>>
  BY DEF DiskNext, x86_Disk_Read, x86_Disk_Reset, fatVars, elfVars
<1> QED
  BY <1>1, <1>2 DEF TypeRight, FileType, HandleType, ElfType

\* A turn of FAT_Read's loop, field by field: within the sector, at its end with
\* the next sector in the next cluster, at its end with the next sector in the
\* same cluster, and that with what passes for the mark of the chain's end.
Within(take, room) ==
  /\ take < room /\ take = rd.left
  /\ rd'.phase = "done" /\ file'.size = file.size /\ file'.sector = file.sector
ToNextCluster(take, room) ==
  /\ take = room /\ file.sector + 1 >= vol.SectorsPerCluster
  /\ rd'.phase = "next" /\ file'.size = file.size /\ file'.sector = 0
ToNextSector(take, room) ==
  /\ take = room /\ file.sector + 1 < vol.SectorsPerCluster
  /\ rd'.phase = "sector" /\ file'.size = file.size /\ file'.sector = file.sector + 1
ToTheEnd(take, room) ==
  /\ take = room /\ file.sector + 1 < vol.SectorsPerCluster
  /\ rd'.phase = "done" /\ file'.size = file.pos + take /\ file'.sector = file.sector + 1

Copied(take, room) ==
  /\ take \in Nat /\ take > 0 /\ take <= rd.left /\ take <= room
  /\ rd'.want = rd.want /\ rd'.left = rd.left - take /\ rd'.got = rd.got + take
  /\ rd'.out = rd.out \cup {[to |-> rd.got, lba |-> file.buf,
                            at |-> file.pos % SECTOR_SIZE, len |-> take]}
  /\ DOMAIN file' = DOMAIN file /\ file'.pos = file.pos + take
  /\ file'.cluster = file.cluster /\ file'.buf = file.buf
  /\ \/ Within(take, room) \/ ToNextCluster(take, room)
     \/ ToNextSector(take, room) \/ ToTheEnd(take, room)

\* Every turn is one of those.
LEMMA CopyStep ==
  ASSUME Control, IoType, FileType, Copy
  PROVE  /\ \E take : Copied(take, SECTOR_SIZE - (file.pos % SECTOR_SIZE))
         /\ rd.phase = "copy"
         /\ UNCHANGED <<diskVars, root, opened, cache, opening, ignored>>
<1> DEFINE room == SECTOR_SIZE - (file.pos % SECTOR_SIZE)
           take == MinOf(rd.left, room)
           next == file.sector + 1 >= vol.SectorsPerCluster
           piece == [to |-> rd.got, lba |-> file.buf, at |-> file.pos % SECTOR_SIZE, len |-> take]
           phase == IF take < room THEN "done" ELSE IF next THEN "next"
                    ELSE IF Ends(file.cluster) THEN "done" ELSE "sector"
<1>1. /\ rd.phase = "copy"
      /\ UNCHANGED <<diskVars, root, opened, cache, opening, ignored>>
      /\ rd' = [rd EXCEPT !.left = @ - take, !.got = @ + take, !.out = @ \cup {piece},
                          !.phase = phase]
      /\ file' = [file EXCEPT !.pos = @ + take,
                    !.size = IF rd'.phase = "done" /\ take = room THEN file.pos + take ELSE @,
                    !.sector = IF take < room THEN @ ELSE IF next THEN 0 ELSE @ + 1]
  BY Zenon DEF Copy
<1>2. room \in Nat /\ room > 0 /\ rd.left \in Nat /\ rd.left > 0
  BY <1>1 DEF FileType, SECTOR_SIZE
<1>3. take \in Nat /\ take > 0 /\ take <= rd.left /\ take <= room /\ (take < room => take = rd.left)
  BY <1>2 DEF MinOf
<1>4. DOMAIN rd = ReadFields /\ DOMAIN file = FileFields
  BY DEF Control, Records, FileType
<1>5. take < room => phase = "done"
  OBVIOUS
<1>6. ~(take < room) /\ next => phase = "next"
  OBVIOUS
<1>7. ~(take < room) /\ ~next => phase \in {"done", "sector"}
  OBVIOUS
<1> HIDE DEF room, take, piece, phase
<1>8. /\ rd'.want = rd.want /\ rd'.left = rd.left - take /\ rd'.got = rd.got + take
      /\ rd'.out = rd.out \cup {piece} /\ rd'.phase = phase
  BY <1>1, <1>4 DEF ReadFields
<1>9. /\ DOMAIN file' = DOMAIN file /\ file'.pos = file.pos + take
      /\ file'.cluster = file.cluster /\ file'.buf = file.buf
      /\ file'.size = IF rd'.phase = "done" /\ take = room THEN file.pos + take ELSE file.size
      /\ file'.sector = IF take < room THEN file.sector ELSE IF next THEN 0 ELSE file.sector + 1
  <2> HIDE DEF next
  <2> QED
    BY <1>1, <1>4 DEF FileFields
<1>10. \/ Within(take, room) \/ ToNextCluster(take, room)
       \/ ToNextSector(take, room) \/ ToTheEnd(take, room)
  <2>1. CASE take < room
    BY <1>2, <1>3, <1>5, <1>8, <1>9, <2>1 DEF Within
  <2>2. CASE ~(take < room) /\ next
    <3>1. take = room /\ rd'.phase = "next"
      BY <1>2, <1>3, <1>6, <1>8, <2>2
    <3> QED
      BY <1>9, <2>2, <3>1 DEF ToNextCluster
  <2>3. CASE ~(take < room) /\ ~next
    <3>1. take = room /\ rd'.phase \in {"done", "sector"}
      BY <1>2, <1>3, <1>7, <1>8, <2>3
    <3>2. file.sector + 1 < vol.SectorsPerCluster
      BY <2>3, VolumeFacts DEF FileType, IoType
    <3> QED
      BY <1>9, <2>3, <3>1, <3>2 DEF ToNextSector, ToTheEnd
  <2> QED
    BY <2>1, <2>2, <2>3
<1>11. Copied(take, room)
  BY <1>3, <1>8, <1>9, <1>10 DEF Copied, piece
<1> QED
  BY <1>1, <1>11 DEF room

\* The counts after a turn fit as those before it did.
LEMMA CopyType ==
  ASSUME Control, IoType, FileType, Copy
  PROVE  FileType' /\ rd'.want = rd.want
<1>1. PICK take : Copied(take, SECTOR_SIZE - (file.pos % SECTOR_SIZE))
  BY CopyStep
<1>2. rd.phase = "copy" /\ UNCHANGED vol
  BY CopyStep DEF diskVars
<1> DEFINE room == SECTOR_SIZE - (file.pos % SECTOR_SIZE)
<1>3. room \in Nat /\ Copied(take, room)
  <2>1. room \in Nat
    BY DEF FileType, SECTOR_SIZE
  <2>2. Copied(take, room)
    BY <1>1
  <2> HIDE DEF room
  <2> QED
    BY <2>1, <2>2
<1> HIDE DEF room
<1>4. /\ rd'.want \in Nat /\ rd'.left \in Nat /\ rd'.got \in Nat
      /\ rd'.got + rd'.left <= rd'.want
      /\ DOMAIN file' = FileFields /\ file'.pos \in Nat
  BY <1>3 DEF Copied, FileType
<1>5. /\ rd'.phase \in {"next", "sector", "done"}
      /\ file'.size \in Nat /\ file'.pos <= file'.size
      /\ file'.sector \in Nat /\ file'.sector < vol.SectorsPerCluster
      /\ rd'.phase \in {"next", "sector"} => rd'.left <= file'.size - file'.pos
  <2>1. vol.SectorsPerCluster \in Nat \ {0}
    BY VolumeFacts DEF IoType
  <2>2. /\ take \in Nat /\ take <= rd.left /\ rd.left <= file.size - file.pos
        /\ file.pos \in Nat /\ file.size \in Nat /\ rd.left \in Nat /\ file.sector \in Nat
        /\ file.sector < vol.SectorsPerCluster
        /\ file'.pos = file.pos + take /\ rd'.left = rd.left - take
    BY <1>2, <1>3 DEF Copied, FileType
  <2>3. CASE Within(take, room)
    BY <2>2, <2>3 DEF Within
  <2>4. CASE ToNextCluster(take, room)
    BY <2>1, <2>2, <2>4 DEF ToNextCluster
  <2>5. CASE ToNextSector(take, room)
    BY <2>2, <2>5 DEF ToNextSector
  <2>6. CASE ToTheEnd(take, room)
    BY <2>2, <2>6 DEF ToTheEnd
  <2> QED
    BY <1>3, <2>3, <2>4, <2>5, <2>6 DEF Copied
<1> QED
  BY <1>2, <1>3, <1>4, <1>5 DEF FileType, Copied

\* Where the file goes on, field by field.
LEMMA GoOnStep ==
  ASSUME Control, FileType, NEW c, GoOnIn(c)
  PROVE  /\ DOMAIN file' = DOMAIN file
         /\ file'.pos = file.pos /\ file'.sector = file.sector /\ file'.buf = file.buf
         /\ file'.cluster = c
         /\ rd'.want = rd.want /\ rd'.left = rd.left /\ rd'.got = rd.got /\ rd'.out = rd.out
         /\ IF Ends(c) THEN file'.size = file.pos /\ rd'.phase = "done"
                       ELSE file'.size = file.size /\ rd'.phase = "sector"
<1> DEFINE ends == Ends(c)
<1>1. /\ file' = [file EXCEPT !.cluster = c, !.size = IF ends THEN file.pos ELSE @]
      /\ rd' = [rd EXCEPT !.phase = IF ends THEN "done" ELSE "sector"]
  BY DEF GoOnIn
<1>2. DOMAIN file = FileFields /\ DOMAIN rd = ReadFields
  BY DEF FileType, Control, Records
<1> HIDE DEF ends
<1>3. /\ DOMAIN file' = DOMAIN file
      /\ file'.pos = file.pos /\ file'.sector = file.sector /\ file'.buf = file.buf
      /\ file'.cluster = c /\ file'.size = IF ends THEN file.pos ELSE file.size
  BY <1>1, <1>2 DEF FileFields
<1>4. /\ rd'.want = rd.want /\ rd'.left = rd.left /\ rd'.got = rd.got /\ rd'.out = rd.out
      /\ rd'.phase = IF ends THEN "done" ELSE "sector"
  BY <1>1, <1>2 DEF ReadFields
<1> QED
  BY <1>3, <1>4 DEF ends

\* The buffer after a read, field by field.
LEMMA BufferStep ==
  ASSUME Control, FileType, SectorRead
  PROVE  /\ DOMAIN file' = DOMAIN file
         /\ file'.pos = file.pos /\ file'.sector = file.sector
         /\ file'.cluster = file.cluster /\ file'.size = file.size
         /\ file'.buf = IF io.ok THEN io.at ELSE file.buf
         /\ rd'.want = rd.want /\ rd'.left = rd.left /\ rd'.got = rd.got /\ rd'.out = rd.out
         /\ rd'.phase = IF io.ok /\ rd.left > 0 THEN "copy" ELSE "done"
         /\ Answered("file") /\ io' = Idle
         /\ ignored' = (ignored \/ (~io.ok /\ rd.left = 0))
         /\ UNCHANGED <<vol, misses, bad, root, opened, cache, opening>>
<1> DEFINE more == io.ok /\ rd.left > 0
<1>1. /\ file' = [file EXCEPT !.buf = IF io.ok THEN io.at ELSE @]
      /\ rd' = [rd EXCEPT !.phase = IF more THEN "copy" ELSE "done"]
      /\ Answered("file") /\ io' = Idle
      /\ ignored' = (ignored \/ (~io.ok /\ rd.left = 0))
      /\ UNCHANGED <<vol, misses, bad, root, opened, cache, opening>>
  BY DEF SectorRead
<1>2. DOMAIN file = FileFields /\ DOMAIN rd = ReadFields
  BY DEF FileType, Control, Records
<1>3. /\ DOMAIN file' = DOMAIN file
      /\ file'.pos = file.pos /\ file'.sector = file.sector
      /\ file'.cluster = file.cluster /\ file'.size = file.size
      /\ file'.buf = IF io.ok THEN io.at ELSE file.buf
  BY <1>1, <1>2 DEF FileFields
<1> HIDE DEF more
<1>4. /\ rd'.want = rd.want /\ rd'.left = rd.left /\ rd'.got = rd.got /\ rd'.out = rd.out
      /\ rd'.phase = IF more THEN "copy" ELSE "done"
  BY <1>1, <1>2 DEF ReadFields
<1> QED
  BY <1>1, <1>3, <1>4 DEF more

\* FAT_OpenEntry takes the first free handle: there is one.
LEMMA OpenStep ==
  ASSUME Control, HandlesRight, TypeRight, EntryRead
  PROVE  /\ opening = "entry" /\ rd.phase = "none" /\ Answered("entry") /\ io' = Idle
         /\ UNCHANGED <<vol, misses, bad, root, cache, rd, ignored>>
         /\ IF io.ok
            THEN /\ opened' \subseteq Handles /\ opening' = "opened"
                 /\ DOMAIN file' = FileFields
                 /\ file'.size = vol.size /\ file'.pos = 0 /\ file'.sector = 0
                 /\ file'.cluster = vol.chain[1] /\ file'.buf = io.at
            ELSE opening' = "failed" /\ UNCHANGED <<opened, file>>
<1>1. /\ Answered("entry") /\ io' = Idle
      /\ UNCHANGED <<vol, misses, bad, root, cache, rd, ignored>>
  BY DEF EntryRead
<1>2. opening = "entry" /\ rd.phase = "none"
  BY <1>1 DEF Control, RequestRight, Answered
<1>3. opened = {} /\ 0 \in Handles
  BY <1>2 DEF HandlesRight, TypeRight, HandleType
<1>4. CASE io.ok
  <2> DEFINE handle == CHOOSE h \in Handles \ opened : \A g \in Handles \ opened : h <= g
  <2>1. handle \in Handles
    BY <1>3 DEF Handles
  <2> HIDE DEF handle
  <2>2. /\ opened' = opened \cup {handle} /\ opening' = "opened"
        /\ file' = [handle |-> handle, size |-> vol.size, pos |-> 0,
                    cluster |-> vol.chain[1], sector |-> 0, buf |-> io.at]
    BY <1>4 DEF EntryRead, handle
  <2> QED
    BY <1>1, <1>2, <1>3, <1>4, <2>1, <2>2 DEF FileFields
<1>5. CASE ~io.ok
  BY <1>1, <1>2, <1>5 DEF EntryRead
<1> QED
  BY <1>4, <1>5

\* The steps of the FAT reader.
LEMMA FatTypes ==
  ASSUME Control, HandlesRight, TypeRight, FatNext, UNCHANGED <<pc, stage2, regions, block, elfVars>>
  PROVE  TypeRight'
<1> USE DEF TypeRight
<1>1. UNCHANGED <<pc, table, seg, todo>>
  BY DEF elfVars
<1>2. ASSUME UNCHANGED <<file, rd, vol>>
      PROVE  FileType' /\ ElfType'
  BY <1>1, <1>2 DEF FileType, ElfType
<1>3. ASSUME FileType', rd'.want = rd.want, rd.phase # "none"
      PROVE  ElfType'
  BY <1>1, <1>3 DEF ElfType
<1>4. CASE FindFile
  <2>1. UNCHANGED <<file, rd, vol, opened>> /\ opening' # "entry"
    BY <1>4 DEF FindFile
  <2>2. io' = io \/ \E d, l : Request(d, l)
    BY <1>4, Zenon DEF FindFile, ReadSector
  <2>3. IoType'
    BY <2>1, <2>2, RequestType DEF IoType
  <2> QED
    BY <1>2, <2>1, <2>3 DEF HandleType
<1>5. CASE RootRead
  <2>1. UNCHANGED <<file, rd, vol, opened, opening>> /\ io' = Idle
    BY <1>5 DEF RootRead
  <2> QED
    BY <1>2, <2>1, RequestType DEF HandleType
<1>6. CASE OpenEntry
  <2>1. /\ opened = {} /\ UNCHANGED <<file, rd, vol, opened>>
        /\ io' = io \/ \E d, l : Request(d, l)
    BY <1>6 DEF OpenEntry, ReadSector, HandlesRight
  <2>2. opening' = "entry" => 0 \in Handles
    <3>1. opening' = "entry" => Handles # {}
      BY <1>6, <2>1 DEF OpenEntry
    <3> QED
      BY <3>1, FatAssumption DEF Handles
  <2>3. IoType'
    BY <2>1, RequestType DEF IoType
  <2> QED
    BY <1>2, <2>1, <2>2, <2>3 DEF HandleType
<1>7. CASE EntryRead
  <2>1. IoType'
    BY <1>7, OpenStep, RequestType
  <2>2. HandleType'
    BY <1>7, OpenStep DEF HandleType
  <2>3. rd.phase = "none" /\ rd' = rd /\ vol' = vol
    BY <1>7, OpenStep
  <2>4. ElfType'
    BY <1>1, <2>3 DEF ElfType
  <2>5. FileType'
    <3>1. CASE ~io.ok
      <4>1. UNCHANGED <<file, rd, vol>>
        BY <1>7, <2>3, <3>1, OpenStep
      <4> QED
        BY <1>2, <4>1
    <3>2. CASE io.ok
      <4>1. /\ DOMAIN file' = FileFields /\ file'.size = vol.size /\ file'.pos = 0
            /\ file'.sector = 0
        BY <1>7, <3>2, OpenStep
      <4>2. vol.size \in Nat /\ vol.SectorsPerCluster \in Nat \ {0}
        BY VolumeFacts DEF IoType
      <4> QED
        BY <2>3, <4>1, <4>2 DEF FileType
    <3> QED
      BY <3>1, <3>2
  <2> QED
    BY <2>1, <2>2, <2>4, <2>5
<1>8. CASE Copy
  <2>1. FileType' /\ rd'.want = rd.want /\ rd.phase = "copy"
    BY <1>8, CopyType, CopyStep
  <2>2. UNCHANGED <<io, vol, opened, opening>>
    BY <1>8, CopyStep DEF diskVars
  <2> QED
    BY <1>3, <2>1, <2>2 DEF IoType, HandleType
<1>9. CASE NextCluster
  <2>1. UNCHANGED <<vol, opened, opening>> /\ rd.phase = "next"
    BY <1>9 DEF NextCluster
  <2>2. CASE Cached(file.cluster)
    <3>1. PICK c : GoOnIn(c)
      BY <1>9, <2>2 DEF NextCluster
    <3>2. io' = io
      BY <1>9, <2>2 DEF NextCluster
    <3>3. FileType' /\ rd'.want = rd.want
      BY <2>1, <3>1, GoOnStep DEF FileType
    <3> QED
      BY <1>3, <2>1, <3>2, <3>3 DEF IoType, HandleType
  <2>3. CASE ~Cached(file.cluster)
    <3>1. UNCHANGED <<file, rd>> /\ \E d, l : Request(d, l)
      BY <1>9, <2>3 DEF NextCluster, ReadSector
    <3> QED
      BY <1>2, <2>1, <3>1, RequestType DEF HandleType
  <2> QED
    BY <2>2, <2>3
<1>10. CASE FatRead
  <2>1. UNCHANGED <<file, rd, vol, opened, opening>> /\ io' = Idle
    BY <1>10 DEF FatRead
  <2> QED
    BY <1>2, <2>1, RequestType DEF HandleType
<1>11. CASE AskSector
  <2>1. UNCHANGED <<file, rd, vol, opened, opening>> /\ \E d, l : Request(d, l)
    BY <1>11 DEF AskSector, ReadSector, fatVars
  <2> QED
    BY <1>2, <2>1, RequestType DEF HandleType
<1>12. CASE SectorRead
  <2>1. UNCHANGED <<vol, opened, opening>> /\ io' = Idle
    BY <1>12, BufferStep
  <2>2. rd.phase = "sector"
    BY <1>12, BufferStep DEF Control, RequestRight, Answered
  <2>3. FileType' /\ rd'.want = rd.want
    BY <1>12, <2>1, <2>2, BufferStep DEF FileType
  <2> QED
    BY <1>3, <2>1, <2>2, <2>3, RequestType DEF HandleType
<1> QED
  BY <1>4, <1>5, <1>6, <1>7, <1>8, <1>9, <1>10, <1>11, <1>12 DEF FatNext

\* A return of ELF_read, and its end.
LEMMA EndTypes ==
  ASSUME TypeRight, UNCHANGED <<diskVars, file>>, opening' = "no",
         rd' = NoRead, FAT_Close \/ opened' = opened
  PROVE  IoType' /\ FileType' /\ HandleType'
<1>1. IoType'
  BY DEF TypeRight, IoType, diskVars
<1>2. FileType'
  BY NoCallType DEF TypeRight, diskVars
<1>3. HandleType'
  BY DEF TypeRight, HandleType, FAT_Close
<1> QED
  BY <1>1, <1>2, <1>3

\* The steps of the loader before ELF_read.
LEMMA StartTypes ==
  ASSUME Control, TypeRight,
         \/ Stage1 \/ Stage1Read \/ Entry \/ AskBootSector \/ BootSectorRead
         \/ FAT_Initialize \/ Memory_detect
  PROVE  TypeRight'
<1>1. /\ UNCHANGED <<vol, file, rd, opened, elfVars>>
      /\ opening' # "entry" \/ opening' = opening
  BY DEF Stage1, Stage1Read, Entry, AskBootSector, BootSectorRead, FAT_Initialize,
         Memory_detect, fatVars
<1>2. io' = io \/ io' = Idle \/ \E d, l : Request(d, l)
  BY Zenon DEF Stage1, Stage1Read, Entry, AskBootSector, BootSectorRead, FAT_Initialize,
         Memory_detect, ReadSector
<1>3. pc \in Early /\ pc' \in Early \cup {"stop", "reboot", "overrun", "wild", "elf"}
  BY DEF Stage1, Stage1Read, Entry, AskBootSector, BootSectorRead, FAT_Initialize,
         Memory_detect, Control, RequestRight, Answered, Early
<1>4. IoType'
  BY <1>1, <1>2, RequestType DEF TypeRight, IoType
<1>5. ElfType'
  BY <1>1, <1>3 DEF TypeRight, ElfType, elfVars, Early
<1> QED
  BY <1>1, <1>4, <1>5 DEF TypeRight, FileType, HandleType

\* The program headers have numbers.
LEMMA HeadersRight ==
  ASSUME NEW v \in Volumes
  PROVE  v.headers \in Seq(SegmentHeaders) /\ v.header_table - sizeof_elf_hdr \in Nat
BY BootLoaderAssumption DEF SegmentHeaders, sizeof_elf_hdr

\* The steps of ELF_read.
LEMMA ElfTypes ==
  ASSUME Control, TypeRight,
         Opened \/ Header \/ Skip \/ Table \/ Segment \/ Reopened \/ Chunk \/ ChunkRead
  PROVE  TypeRight'
<1> USE DEF TypeRight
<1>1. UNCHANGED <<diskVars, file>> /\ UNCHANGED vol
  BY DEF Opened, Header, Skip, Table, Segment, Reopened, Chunk, ChunkRead, ElfFrame, diskVars
<1>2. IoType'
  BY <1>1 DEF IoType, diskVars
<1>3. ASSUME Fail PROVE TypeRight'
  <2>1. IoType' /\ FileType' /\ HandleType'
    BY <1>1, <1>3, EndTypes DEF Fail
  <2>2. ElfType'
    BY <1>3 DEF Fail, ElfType, elfVars, Early
  <2> QED
    BY <2>1, <2>2
<1>4. CASE Opened
  <2>1. opening' = "no" /\ UNCHANGED <<opened, elfVars>> /\ pc = "elf" /\ pc' \in {"header", "stop"}
    BY <1>4 DEF Opened
  <2>2. FileType'
    <3>1. FAT_Read(sizeof_elf_hdr) \/ rd' = rd
      BY <1>4 DEF Opened
    <3> QED
      BY <1>1, <3>1, CallType DEF FileType, sizeof_elf_hdr
  <2>3. ElfType'
    BY <2>1 DEF ElfType, elfVars, Early
  <2> QED
    BY <1>2, <2>1, <2>2, <2>3 DEF HandleType
<1>5. CASE Header
  <2>1. CASE Fail
    BY <1>3, <2>1
  <2>2. CASE ~Fail
    <3>1. /\ pc = "header" /\ pc' = "skip" /\ FAT_Read(vol.header_table - sizeof_elf_hdr)
          /\ UNCHANGED <<opened, opening, elfVars>>
      BY <1>5, <2>2 DEF Header
    <3>2. FileType'
      BY <1>1, <3>1, HeadersRight, CallType DEF IoType
    <3>3. ElfType'
      BY <3>1 DEF ElfType, elfVars, Early
    <3> QED
      BY <1>2, <3>1, <3>2, <3>3 DEF HandleType
  <2> QED
    BY <2>1, <2>2
<1>6. CASE Skip
  <2>1. /\ pc = "skip" /\ pc' = "table" /\ FAT_Read(TableSize)
        /\ UNCHANGED <<opened, opening, elfVars>>
    BY <1>6 DEF Skip
  <2>2. TableSize \in Nat
    BY HeadersRight, LenProperties DEF IoType, TableSize
  <2>3. FileType'
    BY <1>1, <2>1, <2>2, CallType
  <2>4. ElfType'
    BY <2>1 DEF ElfType, elfVars, Early
  <2> QED
    BY <1>2, <2>1, <2>3, <2>4 DEF HandleType
<1>7. CASE Table
  <2>1. CASE Fail
    BY <1>3, <2>1
  <2>2. CASE ~Fail
    <3>1. /\ pc = "table" /\ pc' \in {"segment", "wild"}
          /\ table' = vol.headers \/ table' = << >>
          /\ FAT_Close /\ rd' = NoRead /\ UNCHANGED <<opening, seg, todo>>
      BY <1>7, <2>2 DEF Table
    <3>2. opening = "no"
      BY <1>7 DEF Table, Control
    <3>3. IoType' /\ FileType' /\ HandleType'
      BY <1>1, <3>1, <3>2, EndTypes
    <3>4. table' \in Seq(SegmentHeaders) /\ Len(table') \in Nat
      BY <3>1, HeadersRight, EmptySeq, LenProperties DEF IoType
    <3>5. ElfType'
      BY <3>1, <3>4 DEF ElfType, Early
    <3> QED
      BY <3>3, <3>5
  <2> QED
    BY <2>1, <2>2
<1>8. CASE Segment
  <2>1. /\ pc = "segment" /\ seg' = seg + 1 /\ UNCHANGED <<opened, rd, table>>
        /\ opening' \in {opening, "find"}
        /\ IF seg = Len(table) THEN pc' = "kernel" /\ todo' = todo
           ELSE \/ pc' = "seek" /\ todo' = table[seg + 1].offset
                \/ pc' = "segment" /\ todo' = todo
    BY <1>8 DEF Segment
  <2>2. Len(table) \in Nat /\ seg \in 0 .. Len(table)
    BY <2>1, LenProperties DEF ElfType
  <2>3. seg # Len(table) => table[seg + 1].offset \in Nat
    <3>1. ASSUME seg # Len(table) PROVE table[seg + 1] \in SegmentHeaders
      BY <2>2, <3>1, ElementOfSeq DEF ElfType
    <3> QED
      BY <3>1 DEF SegmentHeaders
  <2>4. rd.phase = "none"
    BY <2>1 DEF Control, Reading
  <2>5. /\ seg + 1 \in 0 .. Len(table) + 1
        /\ seg # Len(table) => seg + 1 \in 1 .. Len(table) /\ seg + 1 # Len(table) + 1
    <3> DEFINE n == Len(table)
    <3>1. n \in Nat /\ seg \in 0 .. n
      BY <2>2
    <3> HIDE DEF n
    <3>2. seg + 1 \in 0 .. n + 1 /\ (seg # n => seg + 1 \in 1 .. n /\ seg + 1 # n + 1)
      BY <3>1
    <3> QED
      BY <3>2 DEF n
  <2>6. ElfType'
    <3>1. /\ table' \in Seq(SegmentHeaders) /\ todo \in Nat
          /\ seg' \in 0 .. Len(table') + 1
          /\ seg # Len(table) => seg' \in 1 .. Len(table') /\ seg' # Len(table') + 1
      BY <2>1, <2>5, Zenon DEF ElfType
    <3>2. CASE seg = Len(table)
      BY <2>1, <3>1, <3>2, Zenon DEF ElfType, Early
    <3>3. CASE seg # Len(table)
      <4>1. pc' \in {"seek", "segment"} /\ todo' \in Nat /\ rd'.phase = "none"
        BY <2>1, <2>3, <2>4, <3>1, <3>3
      <4> QED
        BY <3>1, <3>3, <4>1, Zenon DEF ElfType, Early
    <3> QED
      BY <3>2, <3>3
  <2> QED
    BY <1>1, <1>2, <2>1, <2>6 DEF HandleType, FileType
<1>9. CASE Reopened
  <2>1. /\ pc = "seek" /\ pc' \in {"seek", "wild"} /\ opening' = "no"
        /\ UNCHANGED <<opened, rd, elfVars>>
    BY <1>9 DEF Reopened
  <2>2. ElfType'
    BY <2>1 DEF ElfType, elfVars, Early
  <2> QED
    BY <1>1, <1>2, <2>1, <2>2 DEF HandleType, FileType
<1>10. CASE Chunk
  <2>1. pc \in {"seek", "load"} /\ rd.phase = "none" /\ opening' = opening
    BY <1>10 DEF Chunk
  <2>2. CASE todo > 0
    <3>1. FAT_Read(MinOf(todo, MEMORY_LOAD_SIZE)) /\ UNCHANGED <<pc, opened, elfVars>>
      BY <1>10, <2>2 DEF Chunk
    <3>2. MinOf(todo, MEMORY_LOAD_SIZE) \in 1 .. todo
      BY <2>2, BootLoaderAssumption DEF ElfType, MinOf
    <3>3. FileType' /\ rd'.want \in 1 .. todo
      BY <1>1, <3>1, <3>2, CallType DEF ElfType
    <3>4. ElfType'
      BY <2>1, <3>1, <3>3 DEF ElfType, elfVars, Early
    <3> QED
      BY <1>2, <2>1, <3>1, <3>3, <3>4 DEF HandleType
  <2>3. CASE ~(todo > 0) /\ pc = "seek"
    <3>1. pc' = "load" /\ todo' = table[seg].filesz /\ UNCHANGED <<opened, rd, table, seg>>
      BY <1>10, <2>3 DEF Chunk
    <3>2. table[seg].filesz \in Nat
      <4>1. table[seg] \in SegmentHeaders
        BY <2>3, ElementOfSeq DEF ElfType
      <4> QED
        BY <4>1 DEF SegmentHeaders
    <3>3. ElfType'
      BY <2>1, <2>3, <3>1, <3>2 DEF ElfType, Early
    <3> QED
      BY <1>1, <1>2, <2>1, <3>1, <3>3 DEF HandleType, FileType
  <2>4. CASE ~(todo > 0) /\ pc # "seek"
    <3>1. pc' = "segment" /\ FAT_Close /\ UNCHANGED <<rd, elfVars>>
      BY <1>10, <2>4 DEF Chunk
    <3>2. HandleType'
      BY <2>1, <3>1 DEF HandleType, FAT_Close
    <3>3. ElfType'
      <4>1. seg \in 1 .. Len(table) /\ Len(table) \in Nat
        BY <2>1, LenProperties DEF ElfType
      <4>2. \A n \in Nat : seg \in 1 .. n => seg # n + 1
        BY DEF ElfType
      <4>3. seg # Len(table) + 1
        BY <4>1, <4>2
      <4> QED
        BY <2>1, <3>1, <4>3 DEF ElfType, elfVars, Early
    <3> QED
      BY <1>1, <1>2, <3>1, <3>2, <3>3 DEF FileType
  <2> QED
    BY <2>2, <2>3, <2>4
<1>11. CASE ChunkRead
  <2>1. CASE Fail
    BY <1>3, <2>1
  <2>2. CASE ~Fail
    <3>1. /\ pc \in {"seek", "load"} /\ rd.phase = "done" /\ rd.got = rd.want
          /\ todo' = todo - rd.got /\ rd' = NoRead
          /\ UNCHANGED <<pc, opened, opening, table, seg>>
      BY <1>11, <2>2 DEF ChunkRead
    <3>2. todo' \in Nat
      BY <3>1 DEF ElfType
    <3>3. opening = "no"
      BY <3>1 DEF Control
    <3>4. IoType' /\ FileType' /\ HandleType'
      BY <1>1, <3>1, <3>3, EndTypes
    <3>5. ElfType'
      BY <3>1, <3>2 DEF ElfType, NoRead, Early
    <3> QED
      BY <3>4, <3>5
  <2> QED
    BY <2>1, <2>2
<1> QED
  BY <1>4, <1>5, <1>6, <1>7, <1>8, <1>9, <1>10, <1>11

\* Every step keeps the types.
LEMMA StepTypes == Control /\ HandlesRight /\ TypeRight /\ [Next]_vars => TypeRight'
<1> SUFFICES ASSUME Control, HandlesRight, TypeRight, [Next]_vars PROVE TypeRight'
  OBVIOUS
<1>1. CASE Loader
  BY <1>1, StartTypes, ElfTypes DEF Loader
<1>2. CASE DiskNext /\ UNCHANGED <<fatVars, pc, stage2, regions, block, elfVars>>
  BY <1>2, DiskType
<1>3. CASE FatNext /\ UNCHANGED <<pc, stage2, regions, block, elfVars>>
  BY <1>3, FatTypes
<1>4. CASE UNCHANGED vars
  BY <1>4 DEF vars, diskVars, fatVars, elfVars, TypeRight, IoType, FileType, HandleType, ElfType
<1> QED
  BY <1>1, <1>2, <1>3, <1>4 DEF Next

\* BootTypeOK: whatever the BIOS answers, the counts of FAT_Read stay within the
\* file and within what ELF_read asked for, and the places in file, cluster and
\* table stay in range.
THEOREM BootTypes == Spec => []BootTypeOK
<1>1. Init => Control /\ HandlesRight /\ TypeRight
  BY InitControl, InitType
<1>2. (Control /\ HandlesRight /\ TypeRight) /\ [Next]_vars
        => (Control /\ HandlesRight /\ TypeRight)'
  BY StepControl, StepTypes
<1>3. Control /\ TypeRight => BootTypeOK
  <2> SUFFICES ASSUME Control, TypeRight PROVE BootTypeOK
    OBVIOUS
  <2>1. /\ pc \in Ended \cup {"stage1", "entry", "boot sector", "root", "memory", "elf",
                             "header", "skip", "table", "segment", "seek", "load"}
        /\ opening \in {"no", "find", "found", "entry", "opened", "failed"}
    BY DEF Control, Early, Reading
  <2>2. rd.left >= 0 /\ todo >= 0
    BY DEF TypeRight, FileType, ElfType
  <2> QED
    BY <2>1, <2>2 DEF TypeRight, IoType, FileType, HandleType, ElfType, BootTypeOK
<1> QED
  BY <1>1, <1>2, <1>3, PTL DEF Spec

-----------------------------------------------------------------------------
(* Requests                                                                *)

\* The request is not looked at by a step that leaves it alone: while it is one
\* for the FAT or the file FAT_Read waits.
LEMMA KnownKept ==
  ASSUME Control, RequestKnown, UNCHANGED <<vol, io>>,
         UNCHANGED <<file, rd>> \/ rd.phase \notin {"next", "sector"} \/ io.phase = "idle"
  PROVE  RequestKnown'
<1>1. CASE UNCHANGED <<file, rd>>
  BY <1>1 DEF RequestKnown, Reached2, lba_to_chs, Addressed, FatIndexSector
<1>2. CASE rd.phase \notin {"next", "sector"} \/ io.phase = "idle"
  <2>1. io.phase # "idle" => io.dest \notin {"fat", "file"}
    BY <1>2 DEF RequestKnown, Control, RequestRight
  <2> QED
    BY <2>1 DEF RequestKnown, Reached2, lba_to_chs, Addressed, FatIndexSector
<1> QED
  BY <1>1, <1>2

\* None is in progress.
LEMMA KnownIdle ==
  ASSUME io' = Idle
  PROVE  RequestKnown'
BY DEF RequestKnown, Idle

\* A new one.
LEMMA KnownNew ==
  ASSUME UNCHANGED <<vol, file, rd>>, NEW d, NEW l, ReadSector(d, l),
         d = "entry" => l = FAT_ClusterToLba(vol, vol.chain[1]),
         d = "fat" => rd.phase = "next" /\ l = vol.ReservedSectors + FatIndexSector(file.cluster),
         d = "file" => l = FAT_ClusterToLba(vol, file.cluster) + file.sector
  PROVE  RequestKnown'
<1> DEFINE r == Reached2(l + Offset(vol))
<1>1. io' = [phase |-> "read", dest |-> d, lba |-> r, at |-> NoSector, tries |-> 0,
             failed |-> 0, ok |-> FALSE]
  BY Zenon DEF ReadSector, Request, Idle
<1>2. io'.dest = d /\ io'.lba = r /\ io'.ok = FALSE
  BY <1>1
<1>3. Reached2(FAT_ClusterToLba(vol, vol.chain[1]) + Offset(vol))'
        = Reached2(FAT_ClusterToLba(vol, vol.chain[1]) + Offset(vol))
  BY DEF Reached2, lba_to_chs, Addressed
<1>4. Reached2(vol.ReservedSectors + FatIndexSector(file.cluster) + Offset(vol))'
        = Reached2(vol.ReservedSectors + FatIndexSector(file.cluster) + Offset(vol))
  BY DEF Reached2, lba_to_chs, Addressed, FatIndexSector
<1>5. Reached2(FAT_ClusterToLba(vol, file.cluster) + file.sector + Offset(vol))'
        = Reached2(FAT_ClusterToLba(vol, file.cluster) + file.sector + Offset(vol))
  BY DEF Reached2, lba_to_chs, Addressed
<1> QED
  BY <1>2, <1>3, <1>4, <1>5 DEF RequestKnown

\* The answers of the BIOS: what is read is what was asked for.
LEMMA DiskKnown ==
  ASSUME Control, RequestKnown, DiskNext, UNCHANGED fatVars
  PROVE  RequestKnown'
<1>1. /\ UNCHANGED <<vol, file, rd>>
      /\ io.phase \in {"read", "reset"} /\ io'.lba = io.lba /\ io'.dest = io.dest
      /\ io'.ok => io'.phase = "done" /\ io'.at = io'.lba
  <2>1. CASE x86_Disk_Read
    BY <2>1 DEF x86_Disk_Read, Control, Records, Fields, RequestKnown, fatVars
  <2>2. CASE x86_Disk_Reset
    BY <2>2 DEF x86_Disk_Reset, Control, Records, Fields, RequestKnown, fatVars
  <2> QED
    BY <2>1, <2>2 DEF DiskNext
<1> QED
  BY <1>1 DEF RequestKnown, Reached2, lba_to_chs, Addressed, FatIndexSector

\* The steps of the FAT reader.
LEMMA FatKnown ==
  ASSUME Control, HandlesRight, TypeRight, RequestKnown, FatNext
  PROVE  RequestKnown'
<1>1. CASE FindFile
  <2>1. UNCHANGED <<vol, file, rd>> /\ io.phase = "idle"
    BY <1>1 DEF FindFile, Free
  <2>2. UNCHANGED io \/ \E l : ReadSector("root", l)
    BY <1>1, Zenon DEF FindFile
  <2> QED
    BY <2>1, <2>2, KnownKept, KnownNew
<1>2. CASE RootRead
  BY <1>2, KnownIdle DEF RootRead
<1>3. CASE OpenEntry
  <2>1. UNCHANGED <<vol, file, rd>> /\ io.phase = "idle"
    BY <1>3 DEF OpenEntry, Free
  <2>2. UNCHANGED io \/ ReadSector("entry", FAT_ClusterToLba(vol, vol.chain[1]))
    BY <1>3, Zenon DEF OpenEntry
  <2> QED
    BY <2>1, <2>2, KnownKept, KnownNew
<1>4. CASE EntryRead
  BY <1>4, KnownIdle DEF EntryRead
<1>5. CASE Copy
  BY <1>5, KnownKept DEF Copy, diskVars
<1>6. CASE NextCluster
  <2>1. UNCHANGED vol /\ io.phase = "idle" /\ rd.phase = "next"
    BY <1>6 DEF NextCluster, Free
  <2>2. \/ UNCHANGED io
        \/ /\ UNCHANGED <<file, rd>>
           /\ ReadSector("fat", vol.ReservedSectors + FatIndexSector(file.cluster))
    BY <1>6, Zenon DEF NextCluster
  <2> QED
    BY <2>1, <2>2, KnownKept, KnownNew
<1>7. CASE FatRead
  BY <1>7, KnownIdle DEF FatRead
<1>8. CASE AskSector
  <2>1. UNCHANGED <<vol, file, rd>>
    BY <1>8 DEF AskSector, fatVars
  <2>2. ReadSector("file", FAT_ClusterToLba(vol, file.cluster) + file.sector)
    BY <1>8 DEF AskSector
  <2> QED
    BY <2>1, <2>2, KnownNew
<1>9. CASE SectorRead
  BY <1>9, KnownIdle DEF SectorRead
<1> QED
  BY <1>1, <1>2, <1>3, <1>4, <1>5, <1>6, <1>7, <1>8, <1>9 DEF FatNext

\* The steps of the loader.
LEMMA LoaderKnown ==
  ASSUME Control, RequestKnown, Loader
  PROVE  RequestKnown'
<1>1. CASE Opened \/ Header \/ Skip \/ Table \/ Segment \/ Reopened \/ Chunk \/ ChunkRead
  <2>1. UNCHANGED <<vol, io>>
    BY <1>1 DEF Opened, Header, Skip, Table, Segment, Reopened, Chunk, ChunkRead, ElfFrame, diskVars
  <2>2. rd.phase \in {"none", "done"}
    BY <1>1 DEF Opened, Header, Skip, Table, Segment, Reopened, Chunk, ChunkRead, Control, Reading
  <2> QED
    BY <2>1, <2>2, KnownKept
<1>2. CASE \/ Stage1 \/ Stage1Read \/ Entry \/ AskBootSector \/ BootSectorRead
           \/ FAT_Initialize \/ Memory_detect
  <2>1. UNCHANGED <<vol, file, rd>>
    BY <1>2 DEF Stage1, Stage1Read, Entry, AskBootSector, BootSectorRead, FAT_Initialize,
           Memory_detect, fatVars
  <2>2. \/ UNCHANGED io \/ io' = Idle
        \/ \E l : Request("stage2", l)
        \/ \E l : ReadSector("boot", l)
        \/ \E l : ReadSector("init", l)
    BY <1>2, Zenon DEF Stage1, Stage1Read, Entry, AskBootSector, BootSectorRead, FAT_Initialize,
           Memory_detect
  <2>3. ASSUME NEW l, Request("stage2", l) PROVE RequestKnown'
    <3>1. io' = [phase |-> "read", dest |-> "stage2", lba |-> l, at |-> NoSector, tries |-> 0,
                 failed |-> 0, ok |-> FALSE]
      BY <2>3, Zenon DEF Request, Idle
    <3>2. io'.dest = "stage2" /\ io'.ok = FALSE
      BY <3>1
    <3> QED
      BY <3>2 DEF RequestKnown
  <2> QED
    BY <2>1, <2>2, <2>3, KnownKept, KnownIdle, KnownNew
<1> QED
  BY <1>1, <1>2 DEF Loader

\* Every step keeps what is known of the request.
LEMMA StepKnown ==
  Control /\ HandlesRight /\ TypeRight /\ RequestKnown /\ [Next]_vars => RequestKnown'
<1> SUFFICES ASSUME Control, HandlesRight, TypeRight, RequestKnown, [Next]_vars
             PROVE  RequestKnown'
  OBVIOUS
<1>1. CASE UNCHANGED vars
  BY <1>1, KnownKept DEF vars, diskVars, fatVars
<1> QED
  BY <1>1, DiskKnown, FatKnown, LoaderKnown DEF Next

-----------------------------------------------------------------------------
(* Where FAT_Read is in the chain                                          *)

\* The place of a byte in the chain.
LEMMA PlaceOfByte ==
  ASSUME vol \in Volumes, NEW p \in Nat
  PROVE  /\ ClusterOf(vol, p) \in Nat /\ ClusterOf(vol, p) >= 1
         /\ SectorOf(vol, p) \in Nat /\ SectorOf(vol, p) \in 0 .. vol.SectorsPerCluster - 1
         /\ FileLba(vol, p) = Offset(vol) + SectorOf(vol, p)
                                + FAT_ClusterToLba(vol, vol.chain[ClusterOf(vol, p)])
<1> DEFINE q == p \div SECTOR_SIZE
           S == vol.SectorsPerCluster
<1>1. q \in Nat /\ S \in Nat \ {0}
  BY VolumeFacts DEF SECTOR_SIZE
<1> HIDE DEF q, S
<1>2. q \div S \in Nat /\ q % S \in 0 .. S - 1 /\ q % S \in Nat
  <2>1. q \div S \in Nat /\ q % S \in 0 .. S - 1
    BY <1>1, NextRemainder
  <2> DEFINE r == q % S
  <2>2. r \in 0 .. S - 1
    BY <2>1
  <2> HIDE DEF r
  <2>3. r \in Nat
    BY <1>1, <2>2
  <2> QED
    BY <2>1, <2>3 DEF r
<1>3. ClusterOf(vol, p) = (q \div S) + 1 /\ SectorOf(vol, p) = q % S
  BY DEF ClusterOf, SectorOf, q, S
<1>4. FileLba(vol, p) = Offset(vol) + (q % S) + FAT_ClusterToLba(vol, vol.chain[(q \div S) + 1])
  BY DEF FileLba, q, S
<1> QED
  BY <1>2, <1>3, <1>4 DEF S

\* The place of a byte further on in the sector; of the first one behind it in the
\* same cluster, and in the next one.
LEMMA PlaceOfNext ==
  ASSUME vol \in Volumes, NEW p \in Nat, NEW n \in Nat
  PROVE  /\ (p % SECTOR_SIZE) + n < SECTOR_SIZE =>
              /\ ClusterOf(vol, p + n) = ClusterOf(vol, p) /\ SectorOf(vol, p + n) = SectorOf(vol, p)
              /\ FileLba(vol, p + n) = FileLba(vol, p)
         /\ (p % SECTOR_SIZE) + n = SECTOR_SIZE =>
              IF SectorOf(vol, p) + 1 < vol.SectorsPerCluster
              THEN /\ ClusterOf(vol, p + n) = ClusterOf(vol, p)
                   /\ SectorOf(vol, p + n) = SectorOf(vol, p) + 1
              ELSE /\ ClusterOf(vol, p + n) = ClusterOf(vol, p) + 1
                   /\ SectorOf(vol, p + n) = 0
<1> DEFINE q == p \div SECTOR_SIZE
           r == (p + n) \div SECTOR_SIZE
           S == vol.SectorsPerCluster
<1>1. /\ q \in Nat /\ S \in Nat \ {0}
      /\ (p % SECTOR_SIZE) + n < SECTOR_SIZE => r = q
      /\ (p % SECTOR_SIZE) + n = SECTOR_SIZE => r = q + 1
  BY VolumeFacts, NextByte
<1>2. /\ ClusterOf(vol, p) = (q \div S) + 1 /\ SectorOf(vol, p) = q % S
      /\ ClusterOf(vol, p + n) = (r \div S) + 1 /\ SectorOf(vol, p + n) = r % S
      /\ r = q => FileLba(vol, p + n) = FileLba(vol, p)
  BY DEF ClusterOf, SectorOf, FileLba
<1> HIDE DEF q, r, S
<1>3. /\ q \div S \in Nat /\ q % S \in 0 .. S - 1
      /\ (q % S) + 1 < S => (q + 1) \div S = q \div S /\ (q + 1) % S = (q % S) + 1
      /\ (q % S) + 1 >= S => (q + 1) \div S = (q \div S) + 1 /\ (q + 1) % S = 0
  BY <1>1, NextRemainder
<1>4. CASE (p % SECTOR_SIZE) + n < SECTOR_SIZE
  <2>1. (p % SECTOR_SIZE) + n # SECTOR_SIZE
    BY <1>4 DEF SECTOR_SIZE
  <2> QED
    BY <1>1, <1>2, <1>4, <2>1
<1>5. CASE (p % SECTOR_SIZE) + n = SECTOR_SIZE
  <2>1. r = q + 1 /\ ~((p % SECTOR_SIZE) + n < SECTOR_SIZE)
    BY <1>1, <1>5 DEF SECTOR_SIZE
  <2> DEFINE m == q % S
             k == q \div S
  <2>2. CASE m + 1 < S
    BY <1>2, <1>3, <2>1, <2>2 DEF S
  <2>3. CASE ~(m + 1 < S)
    <3>1. m + 1 >= S
      BY <1>1, <1>3, <2>3
    <3>2. (q + 1) \div S = k + 1 /\ (q + 1) % S = 0
      BY <1>3, <3>1
    <3> QED
      BY <1>2, <2>1, <2>3, <3>2 DEF S
  <2> QED
    BY <2>2, <2>3
<1> QED
  BY <1>4, <1>5

-----------------------------------------------------------------------------
(* What FAT_Read copies                                                    *)

\* One more piece, from the byte where the others end.
LEMMA PieceAdded ==
  ASSUME NEW v, NEW out, NEW p \in Nat, NEW n \in Nat, Pieces(v, out, p, n),
         NEW m \in Nat, m > 0,
         NEW x, x = [to |-> n, lba |-> FileLba(v, p + n), at |-> (p + n) % SECTOR_SIZE, len |-> m]
  PROVE  Pieces(v, out \cup {x}, p, n + m)
<1> DEFINE new == out \cup {x}
<1>1. /\ DOMAIN x = PieceFields /\ x.to = n /\ x.len = m
      /\ x.lba = FileLba(v, p + x.to) /\ x.at = (p + x.to) % SECTOR_SIZE
  BY DEF PieceFields
<1>2. ASSUME NEW y \in new
      PROVE  /\ DOMAIN y = PieceFields
             /\ y.to \in Nat /\ y.len \in Nat /\ y.to + y.len <= n + m
             /\ y.lba = FileLba(v, p + y.to) /\ y.at = (p + y.to) % SECTOR_SIZE
  <2>1. CASE y \in out
    <3>1. /\ DOMAIN y = PieceFields
          /\ y.to \in Nat /\ y.len \in Nat /\ y.to + y.len <= n
          /\ y.lba = FileLba(v, p + y.to) /\ y.at = (p + y.to) % SECTOR_SIZE
      BY <2>1 DEF Pieces
    <3>2. y.to + y.len <= n + m
      BY <3>1
    <3> QED
      BY <3>1, <3>2
  <2>2. CASE y = x
    <3>1. y.to = n /\ y.len = m /\ DOMAIN y = PieceFields
      BY <1>1, <2>2
    <3>2. y.lba = FileLba(v, p + y.to) /\ y.at = (p + y.to) % SECTOR_SIZE
      BY <1>1, <2>2, Zenon
    <3> QED
      BY <3>1, <3>2
  <2> QED
    BY <2>1, <2>2
<1>3. ASSUME NEW e \in {0} \cup {y.to + y.len : y \in new}
      PROVE  e = n + m \/ \E y \in new : y.to = e
  <2>1. CASE e \in {0} \cup {y.to + y.len : y \in out}
    <3>1. e = n \/ \E y \in out : y.to = e
      BY <2>1 DEF Pieces
    <3> QED
      BY <1>1, <3>1
  <2>2. CASE e = x.to + x.len
    BY <1>1, <2>2
  <2> QED
    BY <2>1, <2>2
<1> QED
  BY <1>2, <1>3 DEF Pieces

\* The piece as it lies when n bytes are in front of it.
Moved(x, n) == [x EXCEPT !.to = @ + n]

\* Pieces that follow one another, moved to where the first ones end.
LEMMA PiecesJoined ==
  ASSUME NEW v, NEW out, NEW p \in Nat, NEW n \in Nat, Pieces(v, out, p, n),
         NEW more, NEW m \in Nat, m > 0, Pieces(v, more, p + n, m)
  PROVE  Pieces(v, out \cup {Moved(x, n) : x \in more}, p, n + m)
<1> DEFINE new == out \cup {Moved(x, n) : x \in more}
<1>0. \A x \in more : /\ DOMAIN Moved(x, n) = DOMAIN x
                      /\ Moved(x, n).to = x.to + n /\ Moved(x, n).lba = x.lba
                      /\ Moved(x, n).at = x.at /\ Moved(x, n).len = x.len
  BY DEF Pieces, PieceFields, Moved
<1>1. ASSUME NEW x \in more
      PROVE  /\ DOMAIN Moved(x, n) = PieceFields
             /\ Moved(x, n).to \in Nat /\ Moved(x, n).len \in Nat /\ Moved(x, n).to + Moved(x, n).len <= n + m
             /\ Moved(x, n).lba = FileLba(v, p + Moved(x, n).to)
             /\ Moved(x, n).at = (p + Moved(x, n).to) % SECTOR_SIZE
  <2>1. /\ DOMAIN x = PieceFields
        /\ x.to \in Nat /\ x.len \in Nat /\ x.to + x.len <= m
        /\ x.lba = FileLba(v, (p + n) + x.to) /\ x.at = ((p + n) + x.to) % SECTOR_SIZE
    BY DEF Pieces
  <2>2. (p + n) + x.to = p + (x.to + n)
    BY <2>1
  <2>3. /\ Moved(x, n).to = x.to + n /\ Moved(x, n).len = x.len /\ DOMAIN Moved(x, n) = PieceFields
        /\ Moved(x, n).lba = FileLba(v, p + (x.to + n))
        /\ Moved(x, n).at = (p + (x.to + n)) % SECTOR_SIZE
    BY <1>0, <2>1, <2>2
  <2> QED
    BY <2>1, <2>3
<1>2. ASSUME NEW e \in {0} \cup {y.to + y.len : y \in new}
      PROVE  e = n + m \/ \E y \in new : y.to = e
  <2>1. ASSUME NEW d \in {0} \cup {y.to + y.len : y \in more}, d # m
        PROVE  \E y \in new : y.to = d + n
    <3>1. PICK x \in more : x.to = d
      BY <2>1 DEF Pieces
    <3>2. Moved(x, n) \in new /\ Moved(x, n).to = d + n
      BY <1>0, <3>1
    <3> QED
      BY <3>2
  <2>2. CASE e \in {0} \cup {y.to + y.len : y \in out}
    <3>1. e = n \/ \E y \in out : y.to = e
      BY <2>2 DEF Pieces
    <3>2. CASE e = n
      <4>1. \E y \in new : y.to = 0 + n
        BY <2>1
      <4> QED
        BY <3>2, <4>1
    <3> QED
      BY <3>1, <3>2
  <2>3. ASSUME NEW x \in more, e = Moved(x, n).to + Moved(x, n).len
        PROVE  e = n + m \/ \E y \in new : y.to = e
    <3>1. x.to \in Nat /\ x.len \in Nat /\ Moved(x, n).to = x.to + n /\ Moved(x, n).len = x.len
      BY <1>0 DEF Pieces
    <3>2. e = (x.to + x.len) + n
      BY <2>3, <3>1
    <3>3. CASE x.to + x.len = m
      BY <3>2, <3>3
    <3>4. CASE x.to + x.len # m
      <4>1. \E y \in new : y.to = (x.to + x.len) + n
        BY <2>1, <3>4
      <4> QED
        BY <3>2, <4>1
    <3> QED
      BY <3>3, <3>4
  <2> QED
    BY <2>2, <2>3
<1>3. ASSUME NEW y \in out
      PROVE  /\ DOMAIN y = PieceFields
             /\ y.to \in Nat /\ y.len \in Nat /\ y.to + y.len <= n + m
             /\ y.lba = FileLba(v, p + y.to) /\ y.at = (p + y.to) % SECTOR_SIZE
  <2>1. /\ DOMAIN y = PieceFields
        /\ y.to \in Nat /\ y.len \in Nat /\ y.to + y.len <= n
        /\ y.lba = FileLba(v, p + y.to) /\ y.at = (p + y.to) % SECTOR_SIZE
    BY DEF Pieces
  <2>2. y.to + y.len <= n + m
    BY <2>1
  <2> QED
    BY <2>1, <2>2
<1>4. ASSUME NEW y \in new
      PROVE  /\ DOMAIN y = PieceFields
             /\ y.to \in Nat /\ y.len \in Nat /\ y.to + y.len <= n + m
             /\ y.lba = FileLba(v, p + y.to) /\ y.at = (p + y.to) % SECTOR_SIZE
  <2>1. CASE y \in out
    BY <1>3, <2>1
  <2>2. ASSUME NEW x \in more, y = Moved(x, n)
        PROVE  /\ DOMAIN y = PieceFields
               /\ y.to \in Nat /\ y.len \in Nat /\ y.to + y.len <= n + m
               /\ y.lba = FileLba(v, p + y.to) /\ y.at = (p + y.to) % SECTOR_SIZE
    BY <1>1, <2>2
  <2> QED
    BY <2>1, <2>2
<1> QED
  BY <1>2, <1>4 DEF Pieces

-----------------------------------------------------------------------------
(* The steps of FAT_Read                                                   *)

\* While FAT_Read is in progress the file is in use.
LEMMA ReadingFile ==
  ASSUME Control, rd.phase # "none"
  PROVE  InFile /\ opening = "no"
BY WhileReading DEF InFile

\* What is in memory is not looked at by FAT_Read.
LEMMA SegmentsKept ==
  ASSUME SegmentsRight, UNCHANGED <<vol, pc, elfVars>>
  PROVE  SegmentsRight'
<1>1. UNCHANGED <<vol, pc, table, seg, todo, mem, cleared>>
  BY DEF elfVars
<1> QED
  BY <1>1 DEF SegmentsRight, SegmentIntact

\* As long as position and count go together FAT_Read is one of the same place.
LEMMA PlaceKept ==
  ASSUME FilePlace, rd.phase # "none", Control, UNCHANGED <<vol, pc, opening, elfVars>>,
         rd'.want = rd.want, From' = From
  PROVE  FilePlace'
<1>1. UNCHANGED <<vol, pc, opening, seg, todo>> /\ opening = "no"
  BY ReadingFile DEF elfVars
<1> HIDE DEF From
<1> QED
  BY <1>1 DEF FilePlace

\* So does a step that copies nothing: what was copied is still the file's.
LEMMA ReadKept ==
  ASSUME ReadRight, FilePlace, rd.phase # "none", Control, UNCHANGED <<vol, pc, opening, elfVars>>,
         rd'.want = rd.want, rd'.got = rd.got, rd'.out = rd.out, file'.pos = file.pos
  PROVE  ReadRight' /\ FilePlace'
<1>1. From' = From
  BY DEF From
<1>2. FilePlace'
  BY <1>1, PlaceKept
<1>3. ReadRight'
  BY <1>1 DEF ReadRight, InFile
<1> QED
  BY <1>2, <1>3

\* What is copied is the file's, and at the end of a sector the file is at the next
\* one of its cluster, or behind the cluster.
LEMMA CopyLoads ==
  ASSUME Control, TypeRight, LoadRight, Copy, UNCHANGED <<pc, elfVars>>
  PROVE  LoadRight'
<1>1. PICK take : Copied(take, SECTOR_SIZE - (file.pos % SECTOR_SIZE))
  BY CopyStep DEF TypeRight
<1>2. /\ rd.phase = "copy" /\ UNCHANGED <<diskVars, root, opened, cache, opening, ignored>>
      /\ vol' = vol /\ vol \in Volumes
  BY CopyStep DEF TypeRight, IoType, diskVars
<1> DEFINE p == file.pos
           n == rd.got
           room == SECTOR_SIZE - (p % SECTOR_SIZE)
<1>3. /\ p \in Nat /\ n \in Nat /\ file.size \in Nat /\ file'.size \in Nat
      /\ rd.left \in Nat /\ rd.left > 0 /\ rd.left <= file.size - p
  <2>1. FileType
    BY DEF TypeRight
  <2>2. FileType'
    BY CopyType DEF TypeRight
  <2>3. file'.size \in Nat
    BY <2>2, Zenon DEF FileType
  <2> QED
    BY <1>2, <2>1, <2>3 DEF FileType
<1>4. OnPlace /\ file.buf = FileLba(vol, p)
  <2>1. Reachable
    BY <1>2, ReadingFile DEF LoadRight, PlaceRight
  <2>2. file.pos # file.size
    BY <1>3
  <2> QED
    BY <2>1, <2>2 DEF Reachable
<1>5. n <= p /\ p - n \in Nat /\ Pieces(vol, rd.out, p - n, n)
  BY <1>2, <1>3, ReadingFile DEF LoadRight, ReadRight, From
<1>6. /\ take \in Nat /\ take > 0 /\ rd'.want = rd.want /\ rd'.got = n + take
      /\ rd'.out = rd.out \cup {[to |-> n, lba |-> FileLba(vol, p), at |-> p % SECTOR_SIZE,
                                len |-> take]}
      /\ file'.pos = p + take /\ file'.cluster = file.cluster /\ file'.buf = FileLba(vol, p)
      /\ \/ Within(take, room) \/ ToNextCluster(take, room)
         \/ ToNextSector(take, room) \/ ToTheEnd(take, room)
  BY <1>1, <1>4 DEF Copied
<1>7. From' = From
  BY <1>3, <1>6 DEF From
<1>8. ReadRight'
  <2> DEFINE q == p - n
             x == [to |-> n, lba |-> FileLba(vol, p), at |-> p % SECTOR_SIZE, len |-> take]
  <2>1. q \in Nat /\ q + n = p /\ n + take <= p + take
    BY <1>3, <1>5, <1>6
  <2> HIDE DEF q
  <2>2. x = [to |-> n, lba |-> FileLba(vol, q + n), at |-> (q + n) % SECTOR_SIZE, len |-> take]
    BY <2>1
  <2>3. Pieces(vol, rd.out, q, n)
    BY <1>5 DEF q
  <2>4. Pieces(vol, rd.out \cup {x}, q, n + take)
    BY <1>3, <1>6, <2>1, <2>2, <2>3, PieceAdded
  <2>5. From' = q
    BY <1>7 DEF From, q
  <2> QED
    BY <1>2, <1>6, <2>1, <2>4, <2>5 DEF ReadRight
<1>9. PlaceRight'
  <2>1. /\ ClusterOf(vol, p) \in 1 .. Len(vol.chain)
        /\ file.cluster = vol.chain[ClusterOf(vol, p)] /\ file.sector = SectorOf(vol, p)
    BY <1>4 DEF OnPlace
  <2>2. room \in Nat /\ (p % SECTOR_SIZE) + room = SECTOR_SIZE /\ p % SECTOR_SIZE \in Nat
    BY <1>3 DEF SECTOR_SIZE
  <2> HIDE DEF room
  <2>3. CASE Within(take, room)
    <3>1. (p % SECTOR_SIZE) + take < SECTOR_SIZE
      <4>1. take < room
        BY <2>3 DEF Within
      <4> QED
        BY <1>6, <2>2, <4>1 DEF SECTOR_SIZE
    <3>2. /\ ClusterOf(vol, p + take) = ClusterOf(vol, p)
          /\ SectorOf(vol, p + take) = SectorOf(vol, p)
          /\ FileLba(vol, p + take) = FileLba(vol, p)
      BY <1>2, <1>3, <1>6, <3>1, PlaceOfNext
    <3>3. rd'.phase = "done" /\ file'.sector = file.sector
      BY <2>3 DEF Within
    <3>4. Reachable'
      BY <1>2, <1>6, <2>1, <3>2, <3>3 DEF Reachable, OnPlace
    <3> QED
      BY <3>3, <3>4 DEF PlaceRight
  <2>4. CASE ToNextCluster(take, room)
    <3>1. (p % SECTOR_SIZE) + take = SECTOR_SIZE /\ ~(SectorOf(vol, p) + 1 < vol.SectorsPerCluster)
      <4>1. take = room /\ file.sector + 1 >= vol.SectorsPerCluster
        BY <2>4 DEF ToNextCluster
      <4>2. SectorOf(vol, p) \in Nat /\ vol.SectorsPerCluster \in Nat
        <5>1. vol.SectorsPerCluster \in Nat
          BY <1>2, VolumeFacts
        <5>2. SectorOf(vol, p) \in Nat
          BY <1>2, <1>3, PlaceOfByte
        <5> QED
          BY <5>1, <5>2
      <4>3. SectorOf(vol, p) + 1 >= vol.SectorsPerCluster
        BY <2>1, <4>1
      <4>4. \A a, b \in Nat : a + 1 >= b => ~(a + 1 < b)
        OBVIOUS
      <4> QED
        BY <2>2, <4>1, <4>2, <4>3, <4>4
    <3>2. ClusterOf(vol, p + take) = ClusterOf(vol, p) + 1 /\ SectorOf(vol, p + take) = 0
      BY <1>2, <1>3, <1>6, <3>1, PlaceOfNext
    <3>3. rd'.phase = "next" /\ file'.sector = 0
      BY <2>4 DEF ToNextCluster
    <3>4. ClusterOf(vol, p + take) - 1 = ClusterOf(vol, p)
      BY <2>1, <3>2
    <3>5. BehindCluster'
      BY <1>2, <1>6, <2>1, <3>2, <3>3, <3>4 DEF BehindCluster
    <3> QED
      BY <3>3, <3>5 DEF PlaceRight
  <2>5. CASE ToNextSector(take, room)
    <3>1. (p % SECTOR_SIZE) + take = SECTOR_SIZE /\ SectorOf(vol, p) + 1 < vol.SectorsPerCluster
      BY <2>1, <2>2, <2>5 DEF ToNextSector
    <3>2. /\ ClusterOf(vol, p + take) = ClusterOf(vol, p)
          /\ SectorOf(vol, p + take) = SectorOf(vol, p) + 1
      BY <1>2, <1>3, <1>6, <3>1, PlaceOfNext
    <3>3. rd'.phase = "sector" /\ file'.sector = file.sector + 1
      BY <2>5 DEF ToNextSector
    <3>4. OnPlace'
      BY <1>2, <1>6, <2>1, <3>2, <3>3 DEF OnPlace
    <3> QED
      BY <3>3, <3>4 DEF PlaceRight
  <2>6. CASE ToTheEnd(take, room)
    BY <1>6, <2>6 DEF ToTheEnd, PlaceRight, Reachable
  <2> QED
    BY <1>6, <2>3, <2>4, <2>5, <2>6
<1>10. FilePlace'
  BY <1>2, <1>6, <1>7, PlaceKept DEF LoadRight
<1>11. CacheRight'
  BY <1>2 DEF LoadRight, CacheRight
<1> QED
  BY <1>2, <1>8, <1>9, <1>10, <1>11, SegmentsKept DEF LoadRight

\* The FAT's entry of a cluster of the chain is the next one, or a mark.
LEMMA EntryOfChain ==
  ASSUME vol \in Volumes, NEW k \in 1 .. Len(vol.chain)
  PROVE  FatEntry(vol.chain[k]) = IF k < Len(vol.chain) THEN vol.chain[k + 1] ELSE EndOfChain
<1> DEFINE c == vol.chain
           n == Len(c)
<1>1. n \in Nat \ {0} /\ k \in 1 .. n /\ \A i, j \in 1 .. n : c[i] = c[j] => i = j
  BY VolumeFacts
<1>2. FatEntry(c[k]) =
        IF \E i \in 1 .. n - 1 : c[i] = c[k]
        THEN c[CHOOSE i \in 2 .. n : c[i - 1] = c[k]]
        ELSE IF c[k] = c[n] \/ c[k] < 2 THEN EndOfChain ELSE 0
  BY DEF FatEntry
<1> HIDE DEF c, n
<1>3. CASE k < n
  <2>1. \E i \in 1 .. n - 1 : c[i] = c[k]
    BY <1>1, <1>3
  <2> DEFINE next == CHOOSE i \in 2 .. n : c[i - 1] = c[k]
  <2>2. k + 1 \in 2 .. n /\ c[(k + 1) - 1] = c[k]
    BY <1>1, <1>3
  <2>3. next \in 2 .. n /\ c[next - 1] = c[k]
    BY <2>2
  <2> HIDE DEF next
  <2>4. next - 1 = k
    BY <1>1, <2>3
  <2>5. next = k + 1
    BY <1>1, <2>3, <2>4
  <2>6. FatEntry(c[k]) = c[next]
    BY <1>2, <2>1 DEF next
  <2> QED
    BY <1>3, <2>5, <2>6 DEF c, n
<1>4. CASE ~(k < n)
  <2>1. k = n
    BY <1>1, <1>4
  <2>2. ~ \E i \in 1 .. n - 1 : c[i] = c[k]
    <3>1. ASSUME NEW i \in 1 .. n - 1, c[i] = c[k] PROVE FALSE
      <4>1. i \in 1 .. n
        BY <1>1
      <4>2. i = k
        BY <1>1, <3>1, <4>1
      <4> QED
        BY <1>1, <2>1, <4>2
    <3> QED
      BY <3>1
  <2> QED
    BY <1>2, <1>4, <2>1, <2>2 DEF c, n
<1> QED
  BY <1>3, <1>4 DEF c, n

\* An entry in a cache that holds what its position says is the FAT's, unless it is
\* the one across the end of the cache.
LEMMA NextIsNext ==
  ASSUME vol \in Volumes, NoStraddle(vol), CacheRight, NEW k \in 1 .. Len(vol.chain),
         Cached(vol.chain[k]), NEW c \in FAT_NextCluster(vol.chain[k])
  PROVE  c = IF k < Len(vol.chain) THEN vol.chain[k + 1] ELSE EndOfChain
<1> DEFINE a == vol.chain[k]
           x == FatIndex(vol, a)
<1>1. a \in Nat /\ k \in DOMAIN vol.chain
  BY VolumeFacts
<1>2. cache.pos \in Nat /\ cache.at = Offset(vol) + vol.ReservedSectors + cache.pos
  BY DEF Cached, CacheRight
<1>3. ~(FatType(vol) = 12 /\ x - SECTOR_SIZE * cache.pos = FAT_CACHE_SIZE * SECTOR_SIZE - 1)
  <2> SUFFICES ASSUME FatType(vol) = 12, x - SECTOR_SIZE * cache.pos = FAT_CACHE_SIZE * SECTOR_SIZE - 1
               PROVE  FALSE
    OBVIOUS
  <2>1. x = (a * 3) \div 2
    BY DEF FatIndex
  <2>2. x \in Nat
    BY <1>1, <2>1
  <2>3. x % SECTOR_SIZE # SECTOR_SIZE - 1
    BY <1>1 DEF NoStraddle
  <2> HIDE DEF x
  <2>4. x % 512 = 511
    BY <1>2, <2>2 DEF SECTOR_SIZE, FAT_CACHE_SIZE
  <2> QED
    BY <2>3, <2>4 DEF SECTOR_SIZE
<1>4. FAT_NextCluster(a) = {FatEntry(a)}
  BY <1>2, <1>3 DEF FAT_NextCluster
<1>5. c = FatEntry(a)
  BY <1>4
<1> QED
  BY <1>5, EntryOfChain

\* From the cluster before to the one that follows it in the chain, or to the end of
\* the file.
LEMMA ClusterLoads ==
  ASSUME Control, TypeRight, Good, LoadRight, NextCluster, UNCHANGED <<pc, elfVars>>
  PROVE  LoadRight'
<1>1. /\ rd.phase = "next" /\ vol' = vol /\ vol \in Volumes
      /\ UNCHANGED <<opening, cache>>
  BY DEF NextCluster, TypeRight, IoType
<1>2. CacheRight'
  BY <1>1 DEF LoadRight, CacheRight
<1>3. SegmentsRight'
  BY <1>1, SegmentsKept DEF LoadRight
<1>4. InFile /\ rd.phase # "none"
  BY <1>1, ReadingFile
<1>5. CASE ~Cached(file.cluster)
  <2>1. UNCHANGED <<file, rd>>
    BY <1>5 DEF NextCluster
  <2>2. ReadRight' /\ FilePlace'
    BY <1>1, <1>4, <2>1, ReadKept DEF LoadRight
  <2>3. PlaceRight'
    BY <1>1, <2>1 DEF LoadRight, PlaceRight, InFile, Reachable, OnPlace, BehindCluster
  <2> QED
    BY <1>2, <1>3, <2>2, <2>3 DEF LoadRight
<1>6. CASE Cached(file.cluster)
  <2>1. PICK c \in FAT_NextCluster(file.cluster) : GoOnIn(c)
    BY <1>6 DEF NextCluster
  <2>2. FileType
    BY DEF TypeRight
  <2>3. /\ file'.pos = file.pos /\ file'.sector = file.sector /\ file'.cluster = c
        /\ rd'.want = rd.want /\ rd'.got = rd.got /\ rd'.out = rd.out
        /\ IF Ends(c) THEN file'.size = file.pos /\ rd'.phase = "done" ELSE rd'.phase = "sector"
    BY <2>1, <2>2, GoOnStep
  <2>4. ReadRight' /\ FilePlace'
    BY <1>1, <1>4, <2>3, ReadKept DEF LoadRight
  <2> DEFINE q == ClusterOf(vol, file.pos)
             k == q - 1
  <2>5. /\ k \in 1 .. Len(vol.chain) /\ file.cluster = vol.chain[k]
        /\ file.sector = 0 /\ SectorOf(vol, file.pos) = 0
    BY <1>1, <1>4 DEF LoadRight, PlaceRight, BehindCluster
  <2>6. c = IF k < Len(vol.chain) THEN vol.chain[k + 1] ELSE EndOfChain
    BY <1>1, <1>6, <2>5, NextIsNext DEF Good, LoadRight
  <2>7. ASSUME Ends(c) PROVE PlaceRight'
    BY <2>3, <2>7 DEF PlaceRight, Reachable
  <2>8. ASSUME ~Ends(c) PROVE PlaceRight'
    <3>1. k < Len(vol.chain)
      BY <2>6, <2>8 DEF Ends, EndOfChain
    <3>2. q \in Nat /\ Len(vol.chain) \in Nat
      BY <1>1, <2>2, PlaceOfByte, VolumeFacts DEF FileType
    <3> HIDE DEF q
    <3>3. k + 1 = q /\ q \in 1 .. Len(vol.chain)
      BY <2>5, <3>1, <3>2
    <3>4. c = vol.chain[q]
      BY <2>6, <3>1, <3>3
    <3>5. OnPlace'
      BY <1>1, <2>3, <2>5, <3>3, <3>4 DEF OnPlace, q
    <3> QED
      BY <2>3, <2>8, <3>5 DEF PlaceRight
  <2> QED
    BY <1>2, <1>3, <2>4, <2>7, <2>8 DEF LoadRight
<1> QED
  BY <1>5, <1>6

\* The sectors of the FAT read into the cache are those its position says.
LEMMA CacheLoads ==
  ASSUME Control, TypeRight, RequestKnown, Good, LoadRight, FatRead, ~ignored',
         UNCHANGED <<pc, elfVars>>
  PROVE  LoadRight'
<1>1. /\ io.phase = "done" /\ io.dest = "fat" /\ io.ok /\ UNCHANGED <<vol, file, rd, opening>>
      /\ cache' = [pos |-> FatIndexSector(file.cluster), at |-> IF io.ok THEN io.at ELSE cache.at]
  BY DEF FatRead, Answered
<1>2. /\ rd.phase = "next" /\ vol \in Volumes /\ InReach2(vol)
      /\ io.at = Reached2(vol.ReservedSectors + FatIndexSector(file.cluster) + Offset(vol))
  BY <1>1 DEF RequestKnown, TypeRight, IoType, Good
<1>3. InFile /\ rd.phase # "none"
  BY <1>2, ReadingFile
<1>4. PICK k \in 1 .. Len(vol.chain) : file.cluster = vol.chain[k]
  BY <1>2, <1>3 DEF LoadRight, PlaceRight, BehindCluster
<1>5. /\ FatIndexSector(file.cluster) \in Nat
      /\ io.at = Offset(vol) + vol.ReservedSectors + FatIndexSector(file.cluster)
  BY <1>2, <1>4, FatReached
<1>6. CacheRight'
  <2>1. cache'.pos = FatIndexSector(file.cluster) /\ cache'.at = io.at
    BY <1>1
  <2> QED
    BY <1>1, <1>5, <2>1 DEF CacheRight
<1>7. ReadRight' /\ FilePlace'
  BY <1>1, <1>3, ReadKept DEF LoadRight
<1>8. PlaceRight'
  BY <1>1 DEF LoadRight, PlaceRight, InFile, Reachable, OnPlace, BehindCluster
<1> QED
  BY <1>1, <1>6, <1>7, <1>8, SegmentsKept DEF LoadRight

\* A step that leaves the file alone, and what FAT_Read has copied.
LEMMA FileKept ==
  ASSUME LoadRight, UNCHANGED <<vol, file, rd, cache, pc, opening, elfVars>>
  PROVE  LoadRight'
<1>1. UNCHANGED <<seg, todo>>
  BY DEF elfVars
<1> QED
  BY <1>1, SegmentsKept
     DEF LoadRight, CacheRight, PlaceRight, InFile, Reachable, OnPlace, BehindCluster,
         ReadRight, From, FilePlace

\* The sector read is the one with the file's position.
LEMMA SectorLoads ==
  ASSUME Control, TypeRight, RequestKnown, Good, LoadRight, SectorRead, ~ignored',
         UNCHANGED <<pc, elfVars>>
  PROVE  LoadRight'
<1>1. /\ FileType /\ vol \in Volumes /\ InReach2(vol)
  BY DEF TypeRight, IoType, Good
<1>2. /\ file'.pos = file.pos /\ file'.sector = file.sector
      /\ file'.cluster = file.cluster /\ file'.size = file.size
      /\ file'.buf = IF io.ok THEN io.at ELSE file.buf
      /\ rd'.want = rd.want /\ rd'.left = rd.left /\ rd'.got = rd.got /\ rd'.out = rd.out
      /\ rd'.phase = IF io.ok /\ rd.left > 0 THEN "copy" ELSE "done"
      /\ io.phase = "done" /\ io.dest = "file" /\ (~io.ok => rd.left # 0)
      /\ UNCHANGED <<vol, cache, opening>>
  BY <1>1, BufferStep DEF Answered
<1>3. rd.phase = "sector" /\ file.pos \in Nat
  BY <1>1, <1>2 DEF Control, RequestRight, FileType
<1>4. InFile /\ rd.phase # "none"
  BY <1>3, ReadingFile
<1>5. OnPlace
  BY <1>3, <1>4 DEF LoadRight, PlaceRight
<1>6. OnPlace'
  BY <1>2, <1>5 DEF OnPlace
<1>7. io.ok => io.at = FileLba(vol, file.pos)
  <2>1. ASSUME io.ok
        PROVE  io.at = Reached2(FAT_ClusterToLba(vol, file.cluster) + file.sector + Offset(vol))
    BY <1>2, <2>1 DEF RequestKnown
  <2> DEFINE k == ClusterOf(vol, file.pos)
  <2>2. /\ k \in 1 .. Len(vol.chain) /\ file.cluster = vol.chain[k]
        /\ file.sector = SectorOf(vol, file.pos) /\ file.sector \in 0 .. vol.SectorsPerCluster - 1
        /\ FileLba(vol, file.pos) = Offset(vol) + file.sector + FAT_ClusterToLba(vol, vol.chain[k])
    BY <1>1, <1>3, <1>5, PlaceOfByte DEF OnPlace
  <2> HIDE DEF k
  <2>3. Reached2(FAT_ClusterToLba(vol, file.cluster) + file.sector + Offset(vol))
          = Offset(vol) + file.sector + FAT_ClusterToLba(vol, vol.chain[k])
    BY <1>1, <2>2, ChainReached
  <2> QED
    BY <2>1, <2>2, <2>3
<1>8. PlaceRight'
  <2>1. CASE io.ok
    <3>1. Reachable'
      BY <1>2, <1>6, <1>7, <2>1 DEF Reachable
    <3> QED
      BY <1>2, <3>1 DEF PlaceRight
  <2>2. CASE ~io.ok
    BY <1>2, <2>2 DEF PlaceRight
  <2> QED
    BY <2>1, <2>2
<1>9. ReadRight' /\ FilePlace'
  BY <1>2, <1>4, ReadKept DEF LoadRight
<1>10. CacheRight'
  BY <1>2 DEF LoadRight, CacheRight
<1> QED
  BY <1>2, <1>8, <1>9, <1>10, SegmentsKept DEF LoadRight

\* The file just opened is at its first byte, and its first sector is in the buffer.
LEMMA OpenLoads ==
  ASSUME Control, HandlesRight, TypeRight, RequestKnown, Good, LoadRight, EntryRead,
         UNCHANGED <<pc, elfVars>>
  PROVE  LoadRight'
<1>1. /\ FileType /\ vol \in Volumes /\ InReach2(vol)
  BY DEF TypeRight, IoType, Good
<1>2. /\ opening = "entry" /\ rd = NoRead /\ io.phase = "done" /\ io.dest = "entry"
      /\ UNCHANGED <<vol, cache, rd>>
      /\ pc \in {"elf", "seek"} /\ UNCHANGED <<pc, seg, todo>>
  BY <1>1, OpenStep DEF Answered, FileType, Control, elfVars
<1>3. CacheRight'
  BY <1>2 DEF LoadRight, CacheRight
<1>4. ASSUME ~io.ok PROVE PlaceRight' /\ ReadRight' /\ FilePlace'
  <2>1. opening' = "failed" /\ file' = file
    BY <1>4, OpenStep
  <2> QED
    BY <1>2, <2>1 DEF LoadRight, PlaceRight, ReadRight, FilePlace, InFile, From
<1>5. ASSUME io.ok PROVE PlaceRight' /\ ReadRight' /\ FilePlace'
  <2>1. /\ opening' = "opened" /\ file'.pos = 0 /\ file'.sector = 0
        /\ file'.cluster = vol.chain[1] /\ file'.buf = io.at
    BY <1>5, OpenStep
  <2>2. ClusterOf(vol, 0) = 1 /\ SectorOf(vol, 0) = 0
    <3> DEFINE S == vol.SectorsPerCluster
    <3>1. S \in Nat \ {0} /\ 0 \div SECTOR_SIZE = 0
      BY <1>1, VolumeFacts DEF SECTOR_SIZE
    <3> HIDE DEF S
    <3>2. (S * 0 + 0) \div S = 0 /\ (S * 0 + 0) % S = 0
      BY <3>1, Quotient
    <3>3. 0 \div S = 0 /\ 0 % S = 0
      BY <3>1, <3>2
    <3> QED
      BY <3>1, <3>3 DEF ClusterOf, SectorOf, S
  <2>3. io.at = FileLba(vol, 0)
    <3>1. io.at = Reached2(FAT_ClusterToLba(vol, vol.chain[1]) + Offset(vol))
      BY <1>2, <1>5 DEF RequestKnown
    <3>2. FileLba(vol, 0) = Offset(vol) + 0 + FAT_ClusterToLba(vol, vol.chain[1])
      BY <1>1, <2>2, PlaceOfByte
    <3>3. 1 \in 1 .. Len(vol.chain) /\ 0 \in 0 .. vol.SectorsPerCluster - 1
      BY <1>1, VolumeFacts
    <3> DEFINE l == FAT_ClusterToLba(vol, vol.chain[1])
               o == Offset(vol)
    <3>4. Reached2(l + 0 + o) = o + 0 + l
      BY <1>1, <3>3, ChainReached
    <3>5. l \in Int
      <4>1. vol.chain[1] \in Nat /\ vol.SectorsPerCluster \in Nat /\ DataSectionLba(vol) \in Nat
        BY <1>1, <3>3, VolumeFacts
      <4>2. (vol.chain[1] - 2) * vol.SectorsPerCluster \in Int
        BY <4>1
      <4> QED
        BY <4>1, <4>2 DEF FAT_ClusterToLba
    <3>6. l + 0 = l
      BY <3>5
    <3> QED
      BY <3>1, <3>2, <3>4, <3>6
  <2>4. Reachable'
    <3>1. 1 \in 1 .. Len(vol.chain)
      BY <1>1, VolumeFacts
    <3> QED
      BY <1>2, <2>1, <2>2, <2>3, <3>1 DEF Reachable, OnPlace
  <2>5. rd'.phase = "none" /\ rd'.got = 0 /\ rd'.out = {} /\ From' = 0
    BY <1>2, <2>1 DEF NoRead, From
  <2>6. PlaceRight'
    BY <2>4, <2>5 DEF PlaceRight
  <2>7. ReadRight'
    BY <2>1, <2>5 DEF ReadRight, Pieces
  <2>8. FilePlace'
    BY <1>2, <2>1 DEF LoadRight, FilePlace
  <2> QED
    BY <2>6, <2>7, <2>8
<1> QED
  BY <1>2, <1>3, <1>4, <1>5, SegmentsKept DEF LoadRight

\* The steps of the FAT reader.
LEMMA FatLoads ==
  ASSUME Control, HandlesRight, TypeRight, RequestKnown, Good, LoadRight, FatNext, ~ignored',
         UNCHANGED <<pc, stage2, regions, block, elfVars>>
  PROVE  LoadRight'
<1>1. UNCHANGED <<pc, elfVars>> /\ UNCHANGED <<seg, todo>>
  BY DEF elfVars
<1>2. CASE FindFile \/ OpenEntry
  <2>1. /\ UNCHANGED <<vol, file, rd, cache>>
        /\ opening \in {"find", "found"} /\ opening' \in {"find", "found", "failed", "entry"}
    BY <1>2 DEF FindFile, OpenEntry
  <2>2. pc \in {"elf", "seek"}
    BY <2>1 DEF Control
  <2>3. PlaceRight' /\ ReadRight'
    BY <2>1 DEF PlaceRight, ReadRight, InFile
  <2>4. FilePlace'
    BY <1>1, <2>1, <2>2 DEF LoadRight, FilePlace
  <2>5. CacheRight'
    BY <2>1 DEF LoadRight, CacheRight
  <2> QED
    BY <1>1, <2>1, <2>3, <2>4, <2>5, SegmentsKept DEF LoadRight
<1>3. CASE RootRead
  BY <1>1, <1>3, FileKept DEF RootRead
<1>4. CASE EntryRead
  BY <1>1, <1>4, OpenLoads
<1>5. CASE Copy
  BY <1>1, <1>5, CopyLoads
<1>6. CASE NextCluster
  BY <1>1, <1>6, ClusterLoads
<1>7. CASE FatRead
  BY <1>1, <1>7, CacheLoads
<1>8. CASE AskSector
  BY <1>1, <1>8, FileKept DEF AskSector, fatVars
<1>9. CASE SectorRead
  BY <1>1, <1>9, SectorLoads
<1> QED
  BY <1>2, <1>3, <1>4, <1>5, <1>6, <1>7, <1>8, <1>9 DEF FatNext

-----------------------------------------------------------------------------
(* The steps of ELF_read                                                   *)

\* Where no file is in use only the cache counts.
LEMMA StoppedLoads ==
  ASSUME LoadRight, UNCHANGED <<vol, cache>>, opening' # "opened",
         pc' \notin Reading \cup {"segment", "seek", "kernel"}
  PROVE  LoadRight'
<1>1. CacheRight'
  BY DEF LoadRight, CacheRight
<1>2. PlaceRight' /\ ReadRight'
  BY DEF PlaceRight, ReadRight, InFile
<1>3. FilePlace' /\ SegmentsRight'
  BY DEF FilePlace, SegmentsRight, Reading
<1> QED
  BY <1>1, <1>2, <1>3 DEF LoadRight

\* A call of FAT_Read begins where the file is.
LEMMA CallLoads ==
  ASSUME FileType, NEW n \in Nat, FAT_Read(n), UNCHANGED <<vol, file>>, Reachable
  PROVE  PlaceRight' /\ ReadRight' /\ From' = file.pos /\ rd'.want = n
<1>1. /\ rd'.got = 0 /\ rd'.out = {} /\ rd'.want = n /\ rd'.phase \in {"done", "copy"}
  BY CallType
<1>2. From' = file.pos /\ file'.pos \in Nat
  BY <1>1 DEF From, FileType
<1>3. PlaceRight'
  BY <1>1 DEF PlaceRight, Reachable, OnPlace
<1>4. ReadRight'
  BY <1>1, <1>2 DEF ReadRight, Pieces
<1> QED
  BY <1>1, <1>2, <1>3, <1>4

\* A FAT_Read that copied all that was wanted left the file where it may go on.
LEMMA ReadLoads ==
  ASSUME Control, TypeRight, LoadRight, rd.phase = "done", rd.got = rd.want
  PROVE  /\ Reachable /\ Pieces(vol, rd.out, From, rd.got)
         /\ From \in Nat /\ file.pos \in Nat /\ rd.got \in Nat /\ file.pos = From + rd.got
<1>1. FileType /\ InFile
  BY ReadingFile DEF TypeRight
<1>2. rd.left = 0 /\ rd.got \in Nat /\ file.pos \in Nat
  BY <1>1 DEF FileType
<1>3. rd.got <= file.pos /\ Pieces(vol, rd.out, From, rd.got)
  BY <1>1 DEF LoadRight, ReadRight
<1>4. Reachable
  BY <1>1, <1>2 DEF LoadRight, PlaceRight
<1> QED
  BY <1>2, <1>3, <1>4 DEF From

\* Nor has one begun.
LEMMA NoneLoads ==
  ASSUME TypeRight, LoadRight, InFile, rd.phase = "none"
  PROVE  Reachable /\ From = file.pos /\ file.pos \in Nat /\ rd = NoRead
<1>1. FileType
  BY DEF TypeRight
<1>2. rd = NoRead /\ file.pos \in Nat
  BY <1>1 DEF FileType
<1>3. From = file.pos
  BY <1>2 DEF From, NoRead
<1> QED
  BY <1>2, <1>3 DEF LoadRight, PlaceRight

\* The numbers of a header.
LEMMA HeaderNumbers ==
  ASSUME vol \in Volumes, NEW s \in DOMAIN vol.headers
  PROVE  /\ vol.headers[s].offset \in Nat /\ vol.headers[s].filesz \in Nat
         /\ vol.headers[s].memsz \in Nat
<1>1. vol.headers[s] \in SegmentHeaders
  BY HeadersRight, ElementOfSeq, LenProperties
<1> QED
  BY <1>1 DEF SegmentHeaders

\* A segment in memory stays there when another one's is written.
LEMMA IntactKept ==
  ASSUME NEW s, SegmentIntact(s), UNCHANGED vol, DOMAIN mem' = DOMAIN mem,
         mem'[s] = mem[s], cleared'[s] = cleared[s]
  PROVE  SegmentIntact(s)'
BY DEF SegmentIntact

\* The steps before ELF_read touch neither the cache nor a file.
LEMMA StartLoads ==
  ASSUME Control, LoadRight,
         \/ Stage1 \/ Stage1Read \/ Entry \/ AskBootSector \/ BootSectorRead
         \/ FAT_Initialize \/ Memory_detect
  PROVE  LoadRight'
<1>1. UNCHANGED <<vol, cache>>
  BY DEF Stage1, Stage1Read, Entry, AskBootSector, BootSectorRead, FAT_Initialize,
         Memory_detect, fatVars
<1>2. /\ pc \in Early
      /\ pc' \in {pc, "entry", "reboot", "overrun", "boot sector", "stop", "root", "memory", "wild",
                  "elf"}
      /\ opening' \in {opening, "find"}
  BY DEF Stage1, Stage1Read, Entry, AskBootSector, BootSectorRead, FAT_Initialize,
         Memory_detect, Control, RequestRight, Answered, Early, fatVars
<1>3. opening = "no"
  BY <1>2 DEF Control, Early
<1> QED
  BY <1>1, <1>2, <1>3, StoppedLoads DEF Early, Reading

\* Up to the table: the header at the file's start, then what is skipped.
LEMMA HeaderLoads ==
  ASSUME Control, TypeRight, Good, LoadRight, ~ignored', Opened \/ Header \/ Skip
  PROVE  LoadRight'
<1>1. UNCHANGED <<vol, file, cache>> /\ FileType /\ vol \in Volumes
  BY DEF Opened, Header, Skip, ElfFrame, diskVars, TypeRight, IoType
<1>2. CacheRight'
  BY <1>1 DEF LoadRight, CacheRight
<1>3. CASE Opened
  <2>1. CASE opening = "opened"
    <3>1. /\ opening' = "no" /\ pc' = "header" /\ FAT_Read(sizeof_elf_hdr) /\ rd.phase = "none"
      BY <1>3, <2>1 DEF Opened, Control
    <3>2. Reachable
      BY <2>1, <3>1, NoneLoads DEF InFile
    <3>3. PlaceRight' /\ ReadRight' /\ From' = file.pos /\ rd'.want = sizeof_elf_hdr
      BY <1>1, <3>1, <3>2, CallLoads DEF sizeof_elf_hdr
    <3>4. file.pos = 0
      BY <2>1 DEF LoadRight, FilePlace
    <3>5. FilePlace' /\ SegmentsRight'
      BY <3>1, <3>3, <3>4 DEF FilePlace, SegmentsRight
    <3> QED
      BY <1>2, <3>3, <3>5 DEF LoadRight
  <2>2. CASE opening # "opened"
    <3>1. opening' = "no" /\ pc' = "stop"
      BY <1>3, <2>2 DEF Opened
    <3> QED
      BY <1>1, <3>1, StoppedLoads DEF Reading
  <2> QED
    BY <2>1, <2>2
<1>4. CASE Header
  <2>1. CASE Fail
    BY <1>1, <2>1, StoppedLoads DEF Fail, Reading
  <2>2. CASE ~Fail
    <3> DEFINE n == vol.header_table - sizeof_elf_hdr
    <3>1. /\ pc = "header" /\ rd.phase = "done" /\ rd.got = sizeof_elf_hdr
          /\ pc' = "skip" /\ FAT_Read(n) /\ UNCHANGED opening
      BY <1>4, <2>2 DEF Header
    <3>2. From = 0 /\ rd.want = sizeof_elf_hdr /\ opening = "no"
      BY <3>1 DEF LoadRight, FilePlace, Control
    <3>3. Reachable /\ file.pos = sizeof_elf_hdr
      BY <3>1, <3>2, ReadLoads
    <3>4. n \in Nat
      BY <1>1, HeadersRight
    <3> HIDE DEF n
    <3>5. PlaceRight' /\ ReadRight' /\ From' = sizeof_elf_hdr /\ rd'.want = n
      BY <1>1, <3>1, <3>3, <3>4, CallLoads
    <3>6. FilePlace' /\ SegmentsRight'
      BY <1>1, <3>1, <3>2, <3>5 DEF FilePlace, SegmentsRight, n
    <3> QED
      BY <1>2, <3>5, <3>6 DEF LoadRight
  <2> QED
    BY <2>1, <2>2
<1>5. CASE Skip
  <2>1. /\ pc = "skip" /\ rd.phase = "done" /\ rd.got = rd.want
        /\ pc' = "table" /\ FAT_Read(TableSize) /\ UNCHANGED opening
    BY <1>5 DEF Skip
  <2>2. /\ From = sizeof_elf_hdr /\ rd.want = vol.header_table - sizeof_elf_hdr /\ opening = "no"
    BY <2>1 DEF LoadRight, FilePlace, Control
  <2>3. Reachable /\ file.pos = sizeof_elf_hdr + (vol.header_table - sizeof_elf_hdr)
    BY <2>1, <2>2, ReadLoads
  <2>4. file.pos = vol.header_table
    <3>1. vol.header_table \in Nat
      BY <1>1, BootLoaderAssumption
    <3> QED
      BY <2>3, <3>1 DEF sizeof_elf_hdr
  <2>5. TableSize \in Nat
    BY <1>1, HeadersRight, LenProperties DEF TableSize
  <2>6. PlaceRight' /\ ReadRight' /\ From' = vol.header_table
    BY <1>1, <2>1, <2>3, <2>4, <2>5, CallLoads
  <2>7. FilePlace' /\ SegmentsRight'
    BY <1>1, <2>1, <2>2, <2>6 DEF FilePlace, SegmentsRight
  <2> QED
    BY <1>2, <2>6, <2>7 DEF LoadRight
<1> QED
  BY <1>3, <1>4, <1>5

\* What was read is the table.
LEMMA TableLoads ==
  ASSUME Control, TypeRight, Good, LoadRight, Table
  PROVE  LoadRight'
<1>1. UNCHANGED <<vol, file, cache>> /\ vol \in Volumes
  BY DEF Table, ElfFrame, diskVars, TypeRight, IoType
<1>2. CASE Fail
  BY <1>1, <1>2, StoppedLoads DEF Fail, Reading
<1>3. CASE ~Fail
  <2>1. pc = "table" /\ rd.phase = "done" /\ rd.got = rd.want /\ UNCHANGED <<opening, seg>>
    BY <1>3 DEF Table
  <2>2. From = vol.header_table /\ opening = "no" /\ seg = 0
    BY <2>1 DEF LoadRight, FilePlace, Control, TypeRight, ElfType
  <2>3. Pieces(vol, rd.out, vol.header_table, rd.got)
    BY <2>1, <2>2, ReadLoads
  <2>4. ReadFrom(vol.header_table)
    BY <2>3 DEF ReadFrom, Pieces
  <2>5. /\ pc' = "segment" /\ table' = vol.headers
        /\ mem' = [s \in DOMAIN vol.headers |-> {}]
        /\ cleared' = [s \in DOMAIN vol.headers |-> 0]
    BY <1>3, <2>4 DEF Table
  <2>6. DOMAIN vol.headers = 1 .. Len(vol.headers) /\ Len(vol.headers) \in Nat
    BY <1>1, HeadersRight, LenProperties
  <2>7. SegmentsRight'
    <3>1. \A s \in DOMAIN table' : mem'[s] = {} /\ ~(s < seg') /\ s # seg'
      BY <2>1, <2>2, <2>5, <2>6
    <3> QED
      BY <1>1, <2>5, <3>1 DEF SegmentsRight
  <2>8. CacheRight'
    BY <1>1 DEF LoadRight, CacheRight
  <2>9. PlaceRight' /\ ReadRight' /\ FilePlace'
    BY <2>1, <2>2, <2>5 DEF PlaceRight, ReadRight, FilePlace, InFile, Reading
  <2> QED
    BY <2>7, <2>8, <2>9 DEF LoadRight
<1> QED
  BY <1>2, <1>3

\* The next segment is cleared, and nothing of it read.
LEMMA SegmentLoads ==
  ASSUME Control, TypeRight, Good, LoadRight, Segment
  PROVE  LoadRight'
<1>1. /\ UNCHANGED <<vol, file, cache, table, mem>> /\ vol \in Volumes /\ opening = "no"
      /\ pc = "segment" /\ seg' = seg + 1
  BY DEF Segment, ElfFrame, diskVars, TypeRight, IoType, Control
<1>2. CacheRight'
  BY <1>1 DEF LoadRight, CacheRight
<1>3. /\ table = vol.headers /\ DOMAIN mem = DOMAIN table /\ DOMAIN cleared = DOMAIN table
      /\ \A s \in DOMAIN table : s < seg \/ s = seg => (table[s].load => SegmentIntact(s))
      /\ \A s \in DOMAIN table : s > seg => mem[s] = {}
  BY <1>1 DEF LoadRight, SegmentsRight
<1>4. DOMAIN table = 1 .. Len(table) /\ Len(table) \in Nat /\ seg \in Nat /\ seg <= Len(table)
  <2>1. table \in Seq(SegmentHeaders) /\ seg \in 0 .. Len(table) + 1 /\ seg # Len(table) + 1
    BY <1>1 DEF TypeRight, ElfType
  <2>2. DOMAIN table = 1 .. Len(table) /\ Len(table) \in Nat
    BY <2>1, LenProperties
  <2> QED
    BY <2>1, <2>2
<1>5. ASSUME NEW s \in DOMAIN table, s < seg + 1
      PROVE  s < seg \/ s = seg
  BY <1>4, <1>5
<1>6. ASSUME NEW s \in DOMAIN table, s >= seg + 1
      PROVE  s > seg
  BY <1>4, <1>6
<1>7. CASE seg = Len(table)
  <2>1. pc' = "kernel" /\ UNCHANGED <<cleared, opening>>
    BY <1>7 DEF Segment
  <2>2. PlaceRight' /\ ReadRight' /\ FilePlace'
    BY <1>1, <2>1 DEF PlaceRight, ReadRight, FilePlace, InFile, Reading
  <2>3. \A s \in DOMAIN table : s < seg' => (table[s].load => SegmentIntact(s)')
    BY <1>1, <1>3, <1>5, <2>1, IntactKept
  <2>4. \A s \in DOMAIN table : s > seg' => mem[s] = {}
    BY <1>1, <1>3, <1>4
  <2>5. SegmentsRight'
    BY <1>1, <1>3, <2>1, <2>3, <2>4 DEF SegmentsRight
  <2> QED
    BY <1>2, <2>2, <2>5 DEF LoadRight
<1>8. CASE seg # Len(table) /\ ~table[seg + 1].load
  <2>1. pc' = "segment" /\ UNCHANGED <<cleared, opening>>
    BY <1>1, <1>8 DEF Segment
  <2>2. PlaceRight' /\ ReadRight' /\ FilePlace'
    BY <1>1, <2>1 DEF PlaceRight, ReadRight, FilePlace, InFile, Reading
  <2>3. \A s \in DOMAIN table : s < seg' => (table[s].load => SegmentIntact(s)')
    BY <1>1, <1>3, <1>5, <2>1, IntactKept
  <2>4. \A s \in DOMAIN table : s > seg' => mem[s] = {}
    BY <1>1, <1>3, <1>4
  <2>5. ~table[seg'].load
    BY <1>1, <1>8
  <2>6. SegmentsRight'
    BY <1>1, <1>3, <2>1, <2>3, <2>4, <2>5 DEF SegmentsRight
  <2> QED
    BY <1>2, <2>2, <2>6 DEF LoadRight
<1>9. CASE seg # Len(table) /\ table[seg + 1].load
  <2> DEFINE t == seg + 1
  <2>1. /\ pc' = "seek" /\ opening' = "find" /\ todo' = table[t].offset
        /\ cleared' = [cleared EXCEPT ![t] = table[t].memsz % SizeMod]
    BY <1>9 DEF Segment
  <2>2. t \in DOMAIN table
    <3> DEFINE n == Len(table)
    <3>1. n \in Nat /\ seg \in Nat /\ seg <= n /\ seg # n
      BY <1>4, <1>9
    <3> HIDE DEF n
    <3>2. t \in 1 .. n
      BY <3>1
    <3> QED
      BY <1>4, <3>2 DEF n
  <2>3. seg' = t
    BY <1>1
  <2>4. table[t].load
    BY <1>9
  <2>5. \A s \in DOMAIN table : s < t => s < seg \/ s = seg
    BY <1>5
  <2>6. \A s \in DOMAIN table : s > t \/ s = t => s > seg
    BY <1>4
  <2> HIDE DEF t
  <2>7. DOMAIN cleared' = DOMAIN table /\ \A s \in DOMAIN table : s # t => cleared'[s] = cleared[s]
    BY <1>3, <2>1
  <2>8. cleared'[t] = table[t].memsz
    <3>1. table[t].memsz \in Nat /\ table[t].memsz < SizeMod
      BY <1>1, <1>3, <2>2, HeaderNumbers DEF Good, ShortSegments
    <3>2. table[t].memsz % SizeMod = table[t].memsz
      <4>1. SizeMod \in Nat
        BY BootLoaderAssumption
      <4>2. \A m, d \in Nat : m < d => m % d = m
        OBVIOUS
      <4> QED
        BY <3>1, <4>1, <4>2
    <3> QED
      BY <1>3, <2>1, <2>2, <3>2
  <2>9. \A s \in DOMAIN table : s < t => (table[s].load => SegmentIntact(s)')
    <3>1. \A s \in DOMAIN table : s < t => s # t
      BY <1>4, <2>2
    <3> QED
      BY <1>1, <1>3, <2>5, <2>7, <3>1, IntactKept
  <2>10. \A s \in DOMAIN table : s > t \/ s = t => mem[s] = {}
    BY <1>3, <2>6
  <2>11. SegmentsRight'
    BY <1>1, <1>3, <2>1, <2>3, <2>4, <2>7, <2>8, <2>9, <2>10 DEF SegmentsRight
  <2>12. PlaceRight' /\ ReadRight'
    BY <2>1 DEF PlaceRight, ReadRight, InFile
  <2>13. FilePlace'
    BY <1>1, <1>3, <2>1, <2>3 DEF FilePlace
  <2> QED
    BY <1>2, <2>11, <2>12, <2>13 DEF LoadRight
<1> QED
  BY <1>7, <1>8, <1>9

\* The file is at its start again.
LEMMA ReopenLoads ==
  ASSUME Control, TypeRight, Good, LoadRight, Reopened
  PROVE  LoadRight'
<1>1. UNCHANGED <<vol, file, cache>> /\ UNCHANGED <<rd, elfVars>>
  BY DEF Reopened, ElfFrame, diskVars
<1>2. CASE opening # "opened"
  <2>1. opening' = "no" /\ pc' = "wild"
    BY <1>2 DEF Reopened
  <2> QED
    BY <1>1, <2>1, StoppedLoads DEF Reading
<1>3. CASE opening = "opened"
  <2>1. /\ opening' = "no" /\ pc = "seek" /\ pc' = pc /\ rd.phase = "none"
        /\ UNCHANGED <<seg, todo>>
    BY <1>1, <1>3 DEF Reopened, Control, elfVars
  <2>2. InFile
    BY <1>3 DEF InFile
  <2>3. Reachable /\ From = file.pos /\ file.pos = 0 /\ todo = vol.headers[seg].offset
    BY <1>3, <2>1, <2>2, NoneLoads DEF LoadRight, FilePlace
  <2>4. From' = From
    BY <1>1 DEF From
  <2>5. todo \in Nat
    BY DEF TypeRight, ElfType
  <2>6. PlaceRight' /\ ReadRight'
    BY <1>1, <2>1, <2>2, <2>4 DEF LoadRight, PlaceRight, ReadRight, Reachable, OnPlace, BehindCluster
  <2>7. FilePlace'
    <3>1. From + todo = vol.headers[seg].offset
      BY <2>3, <2>5
    <3> HIDE DEF From
    <3> QED
      BY <1>1, <2>1, <2>4, <3>1 DEF FilePlace
  <2>8. CacheRight'
    BY <1>1 DEF LoadRight, CacheRight
  <2> QED
    BY <1>1, <2>1, <2>6, <2>7, <2>8, SegmentsKept DEF LoadRight
<1> QED
  BY <1>2, <1>3

\* The next chunk begins where the last one ended; up to p_offset nothing of the
\* segment is in memory, and after p_filez bytes all of it is.
LEMMA ChunkLoads ==
  ASSUME Control, TypeRight, Good, LoadRight, Chunk
  PROVE  LoadRight'
<1>1. /\ UNCHANGED <<vol, file, cache, opening>> /\ vol \in Volumes /\ FileType
      /\ pc \in {"seek", "load"} /\ opening = "no" /\ rd.phase = "none"
  BY DEF Chunk, ElfFrame, diskVars, TypeRight, IoType
<1>2. CacheRight'
  BY <1>1 DEF LoadRight, CacheRight
<1>3. InFile
  BY <1>1 DEF InFile, Reading
<1>4. Reachable /\ From = file.pos /\ file.pos \in Nat
  BY <1>1, <1>3, NoneLoads
<1>5. /\ table = vol.headers /\ DOMAIN mem = DOMAIN table /\ DOMAIN cleared = DOMAIN table
      /\ \A s \in DOMAIN table : s < seg => (table[s].load => SegmentIntact(s))
      /\ \A s \in DOMAIN table : s > seg \/ (s = seg /\ pc = "seek") => mem[s] = {}
      /\ table[seg].memsz > table[seg].filesz => cleared[seg] = table[seg].memsz
      /\ table[seg].load
  BY <1>1 DEF LoadRight, SegmentsRight
<1>6. seg \in DOMAIN table
  BY <1>1, LenProperties DEF TypeRight, ElfType
<1>7. table[seg].offset \in Nat /\ table[seg].filesz \in Nat
  BY <1>1, <1>5, <1>6, HeaderNumbers
<1>8. todo \in Nat
  BY DEF TypeRight, ElfType
<1>9. CASE todo > 0
  <2>1. FAT_Read(MinOf(todo, MEMORY_LOAD_SIZE)) /\ UNCHANGED <<pc, elfVars>>
    BY <1>9 DEF Chunk
  <2>2. MinOf(todo, MEMORY_LOAD_SIZE) \in Nat
    BY <1>8, BootLoaderAssumption DEF MinOf
  <2>3. PlaceRight' /\ ReadRight' /\ From' = file.pos
    BY <1>1, <1>4, <2>1, <2>2, CallLoads
  <2>4. UNCHANGED <<pc, seg, todo>> /\ From' = From
    BY <1>4, <2>1, <2>3 DEF elfVars
  <2>5. FilePlace'
    <3> HIDE DEF From
    <3> QED
      BY <1>1, <2>4 DEF LoadRight, FilePlace
  <2> QED
    BY <1>1, <1>2, <2>1, <2>3, <2>5, SegmentsKept DEF LoadRight
<1>10. CASE ~(todo > 0) /\ pc = "seek"
  <2>1. pc' = "load" /\ todo' = table[seg].filesz /\ UNCHANGED <<rd, table, seg, mem, cleared>>
    BY <1>10 DEF Chunk
  <2>2. From' = From /\ InFile'
    BY <1>1, <2>1 DEF From, InFile, Reading
  <2>3. PlaceRight' /\ ReadRight'
    BY <1>1, <1>3, <2>1, <2>2 DEF LoadRight, PlaceRight, ReadRight, Reachable, OnPlace, BehindCluster
  <2>4. FilePlace'
    <3>1. From + todo = vol.headers[seg].offset /\ todo = 0 /\ From \in Nat
      BY <1>1, <1>4, <1>8, <1>10 DEF LoadRight, FilePlace
    <3> HIDE DEF From
    <3>2. From = vol.headers[seg].offset
      BY <3>1
    <3> QED
      BY <1>1, <1>5, <2>1, <2>2, <3>2 DEF FilePlace
  <2>5. Pieces(vol, mem[seg], table[seg].offset, table[seg].filesz - table[seg].filesz)
    <3>1. mem[seg] = {} /\ table[seg].filesz - table[seg].filesz = 0
      BY <1>5, <1>6, <1>7, <1>10
    <3> QED
      BY <3>1 DEF Pieces
  <2>6. \A s \in DOMAIN table : s < seg => (table[s].load => SegmentIntact(s)')
    BY <1>1, <1>5, <2>1, IntactKept
  <2>7. \A s \in DOMAIN table : s > seg => mem[s] = {}
    BY <1>5
  <2>8. table[seg].filesz <= table[seg].filesz
    BY <1>7
  <2>9. SegmentsRight'
    BY <1>1, <1>5, <2>1, <2>5, <2>6, <2>7, <2>8 DEF SegmentsRight
  <2> QED
    BY <1>2, <2>3, <2>4, <2>9 DEF LoadRight
<1>11. CASE ~(todo > 0) /\ pc = "load"
  <2>1. pc' = "segment" /\ UNCHANGED <<table, seg, mem, cleared>>
    BY <1>11 DEF Chunk, elfVars
  <2>2. PlaceRight' /\ ReadRight' /\ FilePlace'
    BY <1>1, <2>1 DEF PlaceRight, ReadRight, FilePlace, InFile, Reading
  <2>3. Pieces(vol, mem[seg], table[seg].offset, table[seg].filesz)
    <3>1. /\ Pieces(vol, mem[seg], table[seg].offset, table[seg].filesz - todo)
          /\ table[seg].filesz - todo = table[seg].filesz
      BY <1>7, <1>8, <1>11 DEF LoadRight, SegmentsRight
    <3> QED
      BY <3>1
  <2>4. SegmentIntact(seg)
    BY <1>5, <1>6, <2>3 DEF SegmentIntact, Pieces
  <2>5. \A s \in DOMAIN table : s < seg \/ s = seg => (table[s].load => SegmentIntact(s)')
    <3>1. \A s \in DOMAIN table : s < seg \/ s = seg => (table[s].load => SegmentIntact(s))
      BY <1>5, <2>4
    <3> QED
      BY <1>1, <2>1, <3>1, IntactKept
  <2>6. \A s \in DOMAIN table : s > seg => mem[s] = {}
    BY <1>5
  <2>7. SegmentsRight'
    BY <1>1, <1>5, <2>1, <2>5, <2>6 DEF SegmentsRight
  <2> QED
    BY <1>2, <2>2, <2>7 DEF LoadRight
<1> QED
  BY <1>1, <1>9, <1>10, <1>11

\* A chunk of a segment is copied behind what is in memory of it.
LEMMA ChunkReadLoads ==
  ASSUME Control, TypeRight, Good, LoadRight, ChunkRead
  PROVE  LoadRight'
<1>1. /\ UNCHANGED <<vol, file, cache>> /\ vol \in Volumes /\ FileType
      /\ pc \in {"seek", "load"} /\ opening = "no" /\ rd.phase = "done"
  BY DEF ChunkRead, ElfFrame, diskVars, TypeRight, IoType, Control
<1>2. CASE Fail
  BY <1>1, <1>2, StoppedLoads DEF Fail, Reading
<1>3. CASE ~Fail
  <2>1. /\ rd.got = rd.want /\ todo' = todo - rd.got /\ rd' = NoRead
        /\ UNCHANGED <<pc, opening, table, seg, cleared>>
        /\ mem' = IF pc = "load" /\ rd.got % SizeMod # 0
                  THEN [mem EXCEPT ![seg] = @ \cup
                         {[p EXCEPT !.to = @ + table[seg].filesz - todo] : p \in rd.out}]
                  ELSE mem
    BY <1>3 DEF ChunkRead
  <2>2. CacheRight'
    BY <1>1 DEF LoadRight, CacheRight
  <2>3. /\ Reachable /\ Pieces(vol, rd.out, From, rd.got)
        /\ From \in Nat /\ file.pos \in Nat /\ rd.got \in Nat /\ file.pos = From + rd.got
    BY <1>1, <2>1, ReadLoads
  <2>4. todo \in Nat /\ rd.got \in 1 .. todo
    BY <1>1, <2>1 DEF TypeRight, ElfType
  <2>5. rd'.phase = "none" /\ rd'.got = 0 /\ rd'.out = {} /\ From' = file.pos
    <3>1. rd'.phase = "none" /\ rd'.got = 0 /\ rd'.out = {}
      BY <2>1 DEF NoRead
    <3>2. From' = file.pos
      BY <1>1, <2>3, <3>1 DEF From
    <3> QED
      BY <3>1, <3>2
  <2>6. PlaceRight' /\ ReadRight'
    <3>1. Reachable'
      BY <1>1, <2>3 DEF Reachable, OnPlace
    <3>2. ReadRight'
      BY <1>1, <2>3, <2>5 DEF ReadRight, Pieces
    <3> QED
      BY <2>5, <3>1, <3>2 DEF PlaceRight
  <2> DEFINE from == From
  <2>7. from \in Nat /\ from' = from + rd.got /\ from' + todo' = from + todo
    BY <2>1, <2>3, <2>4, <2>5
  <2>8. FilePlace'
    <3>1. From' + todo' = From + todo
      BY <2>7
    <3> HIDE DEF From
    <3> QED
      BY <1>1, <2>1, <3>1 DEF LoadRight, FilePlace
  <2>9. /\ table = vol.headers /\ DOMAIN mem = DOMAIN table /\ DOMAIN cleared = DOMAIN table
        /\ \A s \in DOMAIN table : s < seg => (table[s].load => SegmentIntact(s))
        /\ \A s \in DOMAIN table : s > seg \/ (s = seg /\ pc = "seek") => mem[s] = {}
        /\ table[seg].memsz > table[seg].filesz => cleared[seg] = table[seg].memsz
        /\ table[seg].load
    BY <1>1 DEF LoadRight, SegmentsRight
  <2>10. CASE pc = "seek"
    <3>1. mem' = mem
      BY <2>1, <2>10
    <3>2. \A s \in DOMAIN table : s < seg => (table[s].load => SegmentIntact(s)')
      BY <1>1, <2>1, <2>9, <3>1, IntactKept
    <3>3. SegmentsRight'
      BY <1>1, <2>1, <2>9, <2>10, <3>1, <3>2 DEF SegmentsRight
    <3> QED
      BY <2>2, <2>6, <2>8, <3>3 DEF LoadRight
  <2>11. CASE pc = "load"
    <3> DEFINE f == table[seg].filesz
               o == table[seg].offset
               n == f - todo
    <3>1. /\ seg \in DOMAIN table /\ \A s \in DOMAIN table : s < seg \/ s > seg => s # seg
      <4>1. seg \in 1 .. Len(table) /\ DOMAIN table = 1 .. Len(table) /\ Len(table) \in Nat
        BY <1>1, LenProperties DEF TypeRight, ElfType
      <4> QED
        BY <4>1
    <3>2. f \in Nat /\ o \in Nat /\ f < SizeMod
      BY <1>1, <2>9, <3>1, HeaderNumbers DEF Good, ShortSegments
    <3>3. todo <= f /\ Pieces(vol, mem[seg], o, n)
      BY <2>11 DEF LoadRight, SegmentsRight
    <3>4. From + todo = o + f
      BY <2>9, <2>11 DEF LoadRight, FilePlace
    <3> HIDE DEF f, o
    <3>5. n \in Nat /\ o + n = From /\ n + rd.got = f - todo' /\ todo' <= f
      BY <2>1, <2>3, <2>4, <3>2, <3>3, <3>4
    <3>6. rd.got % SizeMod # 0
      <4>1. rd.got \in Nat /\ rd.got < SizeMod /\ rd.got > 0 /\ SizeMod \in Nat
        BY <2>4, <3>2, <3>3, BootLoaderAssumption
      <4>2. rd.got % SizeMod = rd.got
        BY <4>1
      <4> QED
        BY <4>1, <4>2
    <3> HIDE DEF n
    <3>7. \A p \in rd.out : [p EXCEPT !.to = @ + f - todo] = Moved(p, n)
      <4>1. ASSUME NEW p \in rd.out PROVE p.to + f - todo = p.to + n
        <5>1. p.to \in Nat
          BY <2>3 DEF Pieces
        <5> QED
          BY <2>4, <3>2, <5>1 DEF n
      <4> QED
        BY <4>1 DEF Moved
    <3>8. mem' = [mem EXCEPT ![seg] = @ \cup {Moved(p, n) : p \in rd.out}]
      <4>1. {[p EXCEPT !.to = @ + f - todo] : p \in rd.out} = {Moved(p, n) : p \in rd.out}
        BY <3>7
      <4> QED
        BY <2>1, <2>11, <3>6, <4>1 DEF f
    <3>9. /\ DOMAIN mem' = DOMAIN mem
          /\ mem'[seg] = mem[seg] \cup {Moved(p, n) : p \in rd.out}
          /\ \A s \in DOMAIN table : s # seg => mem'[s] = mem[s]
      BY <2>9, <3>1, <3>8
    <3>10. Pieces(vol, mem'[seg], o, n + rd.got)
      <4>1. rd.got \in Nat /\ rd.got > 0
        BY <2>4
      <4>2. Pieces(vol, rd.out, o + n, rd.got)
        BY <2>3, <3>5
      <4> QED
        BY <3>2, <3>3, <3>5, <3>9, <4>1, <4>2, PiecesJoined
    <3>11. Pieces(vol, mem'[seg], table[seg].offset, table[seg].filesz - todo')
           /\ todo' <= table[seg].filesz
      BY <3>5, <3>10 DEF f, o
    <3>12. \A s \in DOMAIN table : s < seg => (table[s].load => SegmentIntact(s)')
      BY <1>1, <2>1, <2>9, <3>1, <3>9, IntactKept
    <3>13. \A s \in DOMAIN table : s > seg => mem'[s] = {}
      BY <2>9, <3>1, <3>9
    <3>14. SegmentsRight'
      BY <1>1, <2>1, <2>9, <2>11, <3>9, <3>11, <3>12, <3>13 DEF SegmentsRight
    <3> QED
      BY <2>2, <2>6, <2>8, <3>14 DEF LoadRight
  <2> QED
    BY <1>1, <2>10, <2>11
<1> QED
  BY <1>2, <1>3

-----------------------------------------------------------------------------
(* The kernel                                                              *)

\* What was ignored stays ignored, and the disk the same.
LEMMA GoodBefore ==
  ASSUME Good', [Next]_vars
  PROVE  Good /\ ~ignored'
<1>1. UNCHANGED vol /\ (~ignored' => ~ignored)
  <2>1. CASE DiskNext /\ UNCHANGED <<fatVars, pc, stage2, regions, block, elfVars>>
    BY <2>1 DEF DiskNext, x86_Disk_Read, x86_Disk_Reset, fatVars
  <2>2. CASE FatNext
    <3>1. CASE FindFile \/ OpenEntry \/ EntryRead \/ Copy \/ NextCluster \/ AskSector
      <4>1. UNCHANGED <<vol, ignored>>
        BY <3>1, Zenon DEF FindFile, OpenEntry, EntryRead, Copy, NextCluster, AskSector,
           diskVars, fatVars
      <4> QED
        BY <4>1
    <3>2. CASE RootRead \/ FatRead
      <4>1. UNCHANGED vol /\ ignored' = (ignored \/ ~io.ok)
        BY <3>2, Zenon DEF RootRead, FatRead
      <4> QED
        BY <4>1, Zenon
    <3>3. CASE SectorRead
      <4>1. UNCHANGED vol /\ ignored' = (ignored \/ (~io.ok /\ rd.left = 0))
        BY <3>3, Zenon DEF SectorRead
      <4> QED
        BY <4>1, Zenon
    <3> QED
      BY <2>2, <3>1, <3>2, <3>3 DEF FatNext
  <2>3. CASE \/ Stage1 \/ Stage1Read \/ Entry \/ AskBootSector \/ BootSectorRead
             \/ FAT_Initialize \/ Memory_detect
    <3>1. UNCHANGED <<vol, ignored>>
      BY <2>3, Zenon DEF Stage1, Stage1Read, Entry, AskBootSector, BootSectorRead, FAT_Initialize,
         Memory_detect, fatVars
    <3> QED
      BY <3>1
  <2>4. CASE Opened \/ Header \/ Skip \/ Table \/ Segment \/ Reopened \/ Chunk \/ ChunkRead
    <3>1. UNCHANGED vol
      BY <2>4, Zenon DEF Opened, Header, Skip, Table, Segment, Reopened, Chunk, ChunkRead,
         ElfFrame, diskVars
    <3>2. CASE Skip
      <4>1. ignored' = (ignored \/ rd.got # rd.want)
        BY <3>2, Zenon DEF Skip
      <4>2. ignored => ignored'
        BY <4>1, Zenon
      <4> QED
        BY <3>1, <4>2
    <3>3. CASE ~Skip
      <4>1. ignored' = ignored
        BY <2>4, <3>3, Zenon DEF Opened, Header, Table, Segment, Reopened, Chunk, ChunkRead
      <4> QED
        BY <3>1, <4>1
    <3> QED
      BY <3>2, <3>3
  <2>5. CASE UNCHANGED vars
    BY <2>5 DEF vars, diskVars, fatVars
  <2> QED
    BY <2>1, <2>2, <2>3, <2>4, <2>5 DEF Next, Loader
<1> QED
  BY <1>1 DEF Good

\* Every step keeps the invariant as long as no failed read is ignored.
LEMMA StepLoads ==
  ASSUME Control, HandlesRight, TypeRight, RequestKnown, Good => LoadRight, [Next]_vars, Good'
  PROVE  LoadRight'
<1>1. Good /\ LoadRight /\ ~ignored'
  BY GoodBefore
<1>2. CASE DiskNext /\ UNCHANGED <<fatVars, pc, stage2, regions, block, elfVars>>
  <2>1. UNCHANGED vol
    BY <1>2 DEF DiskNext, x86_Disk_Read, x86_Disk_Reset
  <2> QED
    BY <1>1, <1>2, <2>1, FileKept DEF fatVars
<1>3. CASE FatNext /\ UNCHANGED <<pc, stage2, regions, block, elfVars>>
  BY <1>1, <1>3, FatLoads
<1>4. CASE Loader
  BY <1>1, <1>4, StartLoads, HeaderLoads, TableLoads, SegmentLoads, ReopenLoads, ChunkLoads,
     ChunkReadLoads DEF Loader
<1>5. CASE UNCHANGED vars
  BY <1>1, <1>5, FileKept DEF vars, diskVars, fatVars
<1> QED
  BY <1>2, <1>3, <1>4, <1>5 DEF Next

\* At the start nothing is asked for, cached, open or in memory.
LEMMA InitLoads == Init => RequestKnown /\ LoadRight
<1> SUFFICES ASSUME Init PROVE RequestKnown /\ LoadRight
  OBVIOUS
<1>1. RequestKnown
  BY DEF Init, DiskInit, Idle, RequestKnown
<1>2. CacheRight
  BY DEF Init, FatInit, CacheRight
<1>3. PlaceRight /\ ReadRight
  BY DEF Init, FatInit, PlaceRight, ReadRight, InFile, Reading
<1>4. FilePlace /\ SegmentsRight
  BY DEF Init, FatInit, FilePlace, SegmentsRight
<1> QED
  BY <1>1, <1>2, <1>3, <1>4 DEF LoadRight

\* KernelIntact: when the kernel is called its segments are in memory, every byte
\* from its place in the file and zeroes behind them, across clusters, refills of
\* the FAT cache, seeks by reading, chunks and retried reads.
THEOREM KernelLoaded == Spec => []KernelIntact
<1> DEFINE Inv == Control /\ HandlesRight /\ KernelInv
<1>1. Init => Inv
  BY InitControl, InitType, InitLoads DEF KernelInv
<1>2. Inv /\ [Next]_vars => Inv'
  <2> SUFFICES ASSUME Inv, [Next]_vars PROVE Inv'
    OBVIOUS
  <2>1. Control' /\ HandlesRight'
    BY StepControl
  <2>2. TypeRight' /\ RequestKnown'
    BY StepTypes, StepKnown DEF KernelInv
  <2>3. (Good => LoadRight)'
    BY StepLoads DEF KernelInv
  <2> QED
    BY <2>1, <2>2, <2>3 DEF KernelInv
<1>3. Inv => KernelIntact
  <2> SUFFICES ASSUME Inv, pc = "kernel", Good, NEW s \in DOMAIN vol.headers, vol.headers[s].load
               PROVE  SegmentIntact(s)
    BY DEF KernelIntact, Good
  <2>1. /\ table = vol.headers
        /\ \A t \in DOMAIN table : t < seg => (table[t].load => SegmentIntact(t))
    BY DEF KernelInv, LoadRight, SegmentsRight
  <2>2. s < seg
    <3>1. table \in Seq(SegmentHeaders) /\ seg = Len(table) + 1
      BY DEF KernelInv, TypeRight, ElfType
    <3>2. Len(table) \in Nat /\ DOMAIN table = 1 .. Len(table)
      BY <3>1, LenProperties
    <3> QED
      BY <2>1, <3>1, <3>2
  <2> QED
    BY <2>1, <2>2
<1> QED
  BY <1>1, <1>2, <1>3, PTL DEF Spec

=============================================================================
