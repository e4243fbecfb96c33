-------------------------- MODULE BootLoader_proofs --------------------------
(***************************************************************************)
(* Theorems about BootLoader, for every disk whose numbers are numbers:    *)
(* any geometry, any table of the second stage's blocks, any chain.        *)
(***************************************************************************)
EXTENDS BootLoader, TLAPS, FiniteSetTheorems

-----------------------------------------------------------------------------
(* Where the loader is                                                     *)

Early == {"stage1", "entry", "boot sector", "root", "memory"}
Reading == {"header", "skip", "table", "load"}

Fields == {"phase", "dest", "lba", "at", "tries", "failed", "ok"}
ReadFields == {"phase", "want", "left", "got", "out"}

\* The fields of the two calls in progress.
Records ==
  /\ DOMAIN io = Fields
  /\ DOMAIN rd = ReadFields
  /\ "handle" \in DOMAIN file

\* Which read of the disk belongs to which code.
RequestRight ==
  io.phase # "idle" =>
    /\ io.dest = "stage2" <=> pc = "stage1"
    /\ io.dest = "boot" => pc = "boot sector"
    /\ io.dest = "init" => pc = "root"
    /\ io.dest = "entry" => opening = "entry"
    /\ io.dest = "file" => rd.phase = "sector"

\* FAT_Open and FAT_Read are never in progress at the same time, nor when
\* ELF_read is not.
Control ==
  /\ Records
  /\ pc \in Early \cup Ended \cup Reading \cup {"elf", "segment", "seek"}
  /\ opening \in {"no", "find", "found", "entry", "opened", "failed"}
  /\ opening # "no" => pc \in {"elf", "seek"} /\ rd.phase = "none"
  /\ rd.phase # "none" => pc \in Reading \cup {"seek"}
  /\ RequestRight

\* The only handle that may be in use is the file's, from a FAT_Open that
\* succeeded to FAT_Close.
HandlesRight ==
  /\ opened \subseteq {file.handle}
  /\ opening \in {"find", "found", "entry", "failed"} => opened = {}
  /\ pc \in Early \cup {"segment", "kernel", "stop", "reboot"} => opened = {}

\* The parts of the state a step of the FAT reader or of the disk leaves alone.
LoaderSame == UNCHANGED <<pc, stage2, regions, block, elfVars>>

\* A request for a sector, and none.
Requests(dest) == DOMAIN io' = Fields /\ io'.phase = "read" /\ io'.dest = dest
IoIdle == DOMAIN io' = Fields /\ io'.phase = "idle"

\* A call of FAT_Read.
Reads == DOMAIN rd' = ReadFields /\ rd'.phase \in {"done", "copy"}

\* At power-on nothing is in progress and no file is open.
LEMMA InitControl == Init => Control /\ HandlesRight
BY DEF Init, DiskInit, FatInit, Idle, NoRead, Control, Records, Fields, ReadFields, RequestRight, HandlesRight,
       Early, Reading, Ended

\* While FAT_Read is in progress nothing else is.
LEMMA WhileReading ==
  ASSUME Control, rd.phase # "none"
  PROVE  /\ opening = "no" /\ pc \in Reading \cup {"seek"}
         /\ io.phase = "idle" \/ io.dest \notin {"stage2", "boot", "init", "entry"}
BY DEF Control, RequestRight, Reading

\* After FAT_Read ELF_read goes on with something else, or fails.
LEMMA ReadEnds ==
  ASSUME Control, HandlesRight, rd.phase = "done", UNCHANGED <<diskVars, file>>,
         opening' = "no", Reads \/ rd' = NoRead,
         \/ pc' \in Reading \cup {"seek"} /\ opened' = opened
         \/ pc' \in {"segment", "wild", "stop"} /\ FAT_Close /\ rd' = NoRead
  PROVE  Control' /\ HandlesRight'
<1>1. /\ opening = "no" /\ pc \in Reading \cup {"seek"}
      /\ io.phase = "idle" \/ io.dest \notin {"stage2", "boot", "init", "entry", "file"}
  BY WhileReading DEF Control, RequestRight
<1>2. io' = io /\ file' = file
  BY DEF diskVars
<1>3. RequestRight'
  BY <1>1, <1>2 DEF RequestRight, Reading
<1>4. DOMAIN rd' = ReadFields /\ rd'.phase \in {"done", "copy", "none"}
  BY DEF Reads, NoRead, ReadFields
<1>5. HandlesRight'
  BY <1>1, <1>2 DEF HandlesRight, FAT_Close, Reading, Early
<1>6. rd' = NoRead => rd'.phase = "none"
  BY DEF NoRead
<1> QED
  BY <1>1, <1>2, <1>3, <1>4, <1>5, <1>6 DEF Control, Records, Reading, Early, Ended

\* The next cluster is in the cache.
LEMMA CachedCluster ==
  ASSUME Records, NextCluster, Cached(file.cluster)
  PROVE  /\ io' = io /\ DOMAIN rd' = DOMAIN rd /\ rd'.phase # "none"
         /\ "handle" \in DOMAIN file' /\ file'.handle = file.handle
<1>1. io' = io
  BY DEF NextCluster
<1>2. PICK cluster : GoOnIn(cluster)
  BY DEF NextCluster
<1> DEFINE phase == IF Ends(cluster) THEN "done" ELSE "sector"
           size == IF Ends(cluster) THEN file.pos ELSE file.size
<1>3. rd' = [rd EXCEPT !.phase = phase] /\ file' = [file EXCEPT !.cluster = cluster, !.size = size]
  BY <1>2, Zenon DEF GoOnIn
<1>4. phase # "none"
  OBVIOUS
<1> HIDE DEF phase, size
<1> QED
  BY <1>1, <1>3, <1>4 DEF Records, ReadFields

\* The BIOS's answers leave the request what it was.
LEMMA DiskControl ==
  ASSUME Control, HandlesRight, DiskNext, UNCHANGED fatVars, LoaderSame
  PROVE  Control' /\ HandlesRight'
<1> USE DEF Control, Records, Fields, ReadFields, RequestRight, HandlesRight, LoaderSame, fatVars
<1>1. CASE x86_Disk_Read
  BY <1>1 DEF x86_Disk_Read
<1>2. CASE x86_Disk_Reset
  BY <1>2 DEF x86_Disk_Reset
<1> QED
  BY <1>1, <1>2 DEF DiskNext

\* A step of the FAT reader takes a handle only in FAT_OpenEntry.
LEMMA FatControl ==
  ASSUME Control, HandlesRight, FatNext, LoaderSame
  PROVE  Control' /\ HandlesRight'
<1> USE DEF Control, Records, Fields, ReadFields, RequestRight, HandlesRight, LoaderSame, Free, Answered, Request,
            ReadSector, Idle, diskVars, fatVars
<1>1. CASE FindFile
  BY <1>1 DEF FindFile
<1>2. CASE RootRead
  BY <1>2 DEF RootRead
<1>3. CASE OpenEntry
  BY <1>3 DEF OpenEntry
<1>4. CASE EntryRead
  <2>1. /\ opening = "entry" /\ io.phase = "done" /\ io.dest = "entry" /\ opened = {}
        /\ io' = Idle /\ rd' = rd
    BY <1>4 DEF EntryRead
  <2>2. CASE io.ok
    <3>1. PICK handle : /\ opened' = opened \cup {handle} /\ opening' = "opened"
                        /\ file' = [handle |-> handle, size |-> vol.size, pos |-> 0,
                                    cluster |-> vol.chain[1], sector |-> 0, buf |-> io.at]
      BY <1>4, <2>2 DEF EntryRead
    <3>2. "handle" \in DOMAIN file' /\ file'.handle = handle
      BY <3>1
    <3> QED
      BY <2>1, <3>1, <3>2 DEF Early, Ended
  <2>3. CASE ~io.ok
    BY <1>4, <2>1, <2>3 DEF EntryRead
  <2> QED
    BY <2>2, <2>3
<1>5. CASE Copy
  BY <1>5 DEF Copy
<1>6. CASE NextCluster
  <2>1. /\ rd.phase = "next" /\ io.phase = "idle"
        /\ UNCHANGED <<vol, misses, bad, root, opened, cache, opening, ignored>>
    BY <1>6 DEF NextCluster
  <2>2. CASE Cached(file.cluster)
    BY <1>6, <2>1, <2>2, CachedCluster, WhileReading
  <2>3. CASE ~Cached(file.cluster)
    <3>1. Requests("fat") /\ UNCHANGED <<file, rd>>
      BY <1>6, <2>3 DEF NextCluster, Requests
    <3> QED
      BY <2>1, <3>1 DEF Requests, Reading
  <2> QED
    BY <2>2, <2>3
<1>7. CASE FatRead
  BY <1>7 DEF FatRead
<1>8. CASE AskSector
  <2>1. rd.phase = "sector" /\ Requests("file") /\ UNCHANGED fatVars
    BY <1>8 DEF AskSector, Requests
  <2> QED
    BY <2>1 DEF Requests, Reading
<1>9. CASE SectorRead
  <2>1. /\ DOMAIN rd' = DOMAIN rd /\ "handle" \in DOMAIN file' /\ file'.handle = file.handle
        /\ io.phase = "done" /\ io.dest = "file" /\ IoIdle
        /\ UNCHANGED <<vol, misses, bad, root, opened, cache, opening>>
    BY <1>9 DEF SectorRead, IoIdle
  <2> QED
    BY <2>1 DEF IoIdle
<1> QED
  BY <1>1, <1>2, <1>3, <1>4, <1>5, <1>6, <1>7, <1>8, <1>9 DEF FatNext

\* A step of the loader starts a call only when none is in progress, and every
\* return of ELF_read has closed the file.
LEMMA LoaderControl ==
  ASSUME Control, HandlesRight, Loader
  PROVE  Control' /\ HandlesRight'
<1> USE DEF Control, Records, Fields, ReadFields, RequestRight, HandlesRight,
            Free, Answered, Request, ReadSector, Idle, diskVars, fatVars, elfVars,
            ElfFrame, Early, Ended, Reading, NoRead, Fail, FAT_Close, FAT_Read
<1>1. CASE Stage1
  BY <1>1 DEF Stage1
<1>2. CASE Stage1Read
  BY <1>2 DEF Stage1Read
<1>3. CASE Entry
  BY <1>3 DEF Entry
<1>4. CASE AskBootSector
  BY <1>4 DEF AskBootSector
<1>5. CASE BootSectorRead
  <2>1. /\ io.dest = "boot" /\ io.phase = "done"
        /\ (pc' = "root" /\ Requests("init")) \/ (pc' = "stop" /\ IoIdle)
        /\ UNCHANGED <<vol, misses, bad, fatVars, stage2, regions, block, elfVars>>
    <3>1. CASE io.ok
      BY <1>5, <3>1 DEF BootSectorRead, Requests
    <3>2. CASE ~io.ok
      <4>1. pc' = "stop" /\ io' = Idle
        BY <1>5, <3>2 DEF BootSectorRead
      <4> QED
        BY <1>5, <4>1 DEF BootSectorRead, IoIdle
    <3> QED
      BY <3>1, <3>2
  <2> QED
    BY <2>1 DEF Requests, IoIdle
<1>6. CASE FAT_Initialize
  BY <1>6 DEF FAT_Initialize
<1>7. CASE Memory_detect
  BY <1>7 DEF Memory_detect
<1>8. CASE Opened
  BY <1>8 DEF Opened
<1>9. CASE Header
  <2>1. /\ pc = "header" /\ rd.phase = "done" /\ UNCHANGED <<diskVars, file>>
        /\ \/ pc' = "skip" /\ Reads /\ UNCHANGED <<opened, opening>>
           \/ Fail
    BY <1>9 DEF Header, Reads
  <2> QED
    BY <2>1, WhileReading, ReadEnds
<1>10. CASE Skip
  BY <1>10 DEF Skip
<1>11. CASE Table
  <2>1. /\ pc = "table" /\ rd.phase = "done" /\ UNCHANGED <<diskVars, file>>
        /\ \/ Fail
           \/ pc' \in {"segment", "wild"} /\ FAT_Close /\ rd' = NoRead /\ UNCHANGED opening
    BY <1>11 DEF Table
  <2> QED
    BY <2>1, WhileReading, ReadEnds
<1>12. CASE Segment
  BY <1>12 DEF Segment
<1>13. CASE Reopened
  BY <1>13 DEF Reopened
<1>14. CASE Chunk
  BY <1>14 DEF Chunk
<1>15. CASE ChunkRead
  <2>1. /\ pc \in {"seek", "load"} /\ rd.phase = "done" /\ UNCHANGED <<diskVars, file>>
        /\ \/ Fail
           \/ rd' = NoRead /\ UNCHANGED <<pc, opened, opening>>
    BY <1>15 DEF ChunkRead
  <2> QED
    BY <2>1, WhileReading, ReadEnds
<1> QED
  BY <1>1, <1>2, <1>3, <1>4, <1>5, <1>6, <1>7, <1>8, <1>9, <1>10, <1>11, <1>12, <1>13, <1>14, <1>15
     DEF Loader

\* Every step keeps the invariant.
LEMMA StepControl == Control /\ HandlesRight /\ [Next]_vars => Control' /\ HandlesRight'
<1> SUFFICES ASSUME Control, HandlesRight, [Next]_vars
             PROVE  Control' /\ HandlesRight'
  OBVIOUS
<1>1. CASE Loader
  BY <1>1, LoaderControl
<1>2. CASE DiskNext /\ UNCHANGED <<fatVars, pc, stage2, regions, block, elfVars>>
  BY <1>2, DiskControl DEF LoaderSame
<1>3. CASE FatNext /\ UNCHANGED <<pc, stage2, regions, block, elfVars>>
  BY <1>3, FatControl DEF LoaderSame
<1>4. CASE UNCHANGED vars
  BY <1>4 DEF vars, diskVars, fatVars, elfVars, Control, Records, Fields, ReadFields, RequestRight, HandlesRight
<1> QED
  BY <1>1, <1>2, <1>3, <1>4 DEF Next

\* However ELF_read ends, every handle is free again, and one file at most is
\* open, for every disk and every failure.
THEOREM HandlesAreReturned == Spec => []HandlesReturned
<1>1. Init => Control /\ HandlesRight
  BY InitControl
<1>2. Control /\ HandlesRight /\ [Next]_vars => Control' /\ HandlesRight'
  BY StepControl
<1>3. HandlesRight => HandlesReturned
  <2> SUFFICES ASSUME HandlesRight
               PROVE  HandlesReturned
    OBVIOUS
  <2>1. opened = {} \/ opened = {file.handle}
    BY DEF HandlesRight
  <2>2. Cardinality(opened) \in {0, 1}
    BY <2>1, FS_EmptySet, FS_Singleton
  <2> QED
    BY <2>2 DEF HandlesReturned, HandlesRight
<1> QED
  BY <1>1, <1>2, <1>3, PTL DEF Spec

-----------------------------------------------------------------------------
(* The second stage                                                        *)

\* Quotient and remainder are unique.
LEMMA OneQuotient ==
  ASSUME NEW m \in Nat \ {0}, NEW a \in Nat, NEW b \in Nat,
         NEW x \in 0 .. m - 1, NEW y \in 0 .. m - 1, m * a + x = m * b + y
  PROVE  a = b
<1>1. ASSUME NEW c \in Nat, NEW d \in Nat, c >= d + 1
      PROVE  m * c >= m * d + m
  <2>1. PICK k \in Nat : c = d + 1 + k
    BY <1>1
  <2>2. m * c = m * d + m + m * k /\ m * k \in Nat
    BY <2>1
  <2> QED
    BY <2>2
<1> DEFINE ma == m * a
           mb == m * b
<1>2. ma \in Nat /\ mb \in Nat /\ ma + x = mb + y
  OBVIOUS
<1>3. a >= b + 1 => ma >= mb + m
  BY <1>1
<1>4. b >= a + 1 => mb >= ma + m
  BY <1>1
<1> HIDE DEF ma, mb
<1> QED
  BY <1>2, <1>3, <1>4

\* The number of a sector, split into cylinder, head and sector and put
\* together again, is the same.
LEMMA SplitNumber ==
  ASSUME NEW l \in Nat, NEW H \in Nat \ {0}, NEW S \in Nat \ {0}
  PROVE  /\ ((l \div (S * H)) * H + ((l \div S) % H)) * S + (l % S) = l
         /\ l \div (S * H) \in Nat /\ (l \div S) % H \in Nat /\ l % S \in Nat
<1> DEFINE q == l \div S
           r == l % S
           d == q \div H
           e == q % H
           m == S * H
           c == l \div m
           t == l % m
<1>1. m \in Nat \ {0}
  OBVIOUS
<1>2. q \in Nat /\ r \in 0 .. S - 1 /\ l = S * q + r
  OBVIOUS
<1> HIDE DEF m, q, r
<1>3. c \in Nat /\ t \in 0 .. m - 1 /\ l = m * c + t
  BY <1>1
<1>4. d \in Nat /\ e \in 0 .. H - 1 /\ q = H * d + e
  BY <1>2
<1> HIDE DEF c, t, d, e
<1> DEFINE u == S * e + r
<1>5. u \in 0 .. m - 1
  <2>1. PICK k \in Nat : H = e + 1 + k
    BY <1>4
  <2>2. m = S * e + S + S * k /\ S * k \in Nat /\ S * e \in Nat
    BY <2>1, <1>4 DEF m
  <2> QED
    BY <1>2, <2>2
<1>6. l = m * d + u
  <2>1. S * (H * d + e) = (S * H) * d + S * e
    BY <1>4
  <2> QED
    BY <1>2, <1>4, <2>1 DEF m
<1> HIDE DEF u
<1>7. c = d
  BY <1>1, <1>3, <1>4, <1>5, <1>6, OneQuotient
<1>8. (d * H + e) * S + r = l
  BY <1>2, <1>4
<1>9. c * H + e = d * H + e
  BY <1>7
<1> QED
  BY <1>2, <1>3, <1>4, <1>8, <1>9 DEF c, d, e, q, r, m

\* The cylinder of a number below that of the cylinder N.
LEMMA CylinderBelow ==
  ASSUME NEW l \in Nat, NEW m \in Nat \ {0}, NEW N \in Nat, l < N * m
  PROVE  l \div m < N
<1> DEFINE c == l \div m
<1>1. c \in Nat /\ m * c <= l
  OBVIOUS
<1> HIDE DEF c
<1>2. ASSUME c >= N PROVE FALSE
  <2>1. PICK k \in Nat : c = N + k
    BY <1>1, <1>2
  <2>2. m * c = N * m + m * k /\ m * k \in Nat /\ N * m \in Nat
    BY <2>1
  <2> QED
    BY <1>1, <2>2
<1> QED
  BY <1>1, <1>2 DEF c

\* The table of the second stage's blocks.
LEMMA Positions ==
  ASSUME vol \in Volumes, NEW i \in 1 .. PosEntries
  PROVE  vol.stage2_pos[i].lba \in Nat /\ vol.stage2_pos[i].count \in Nat
<1>1. vol.stage2_pos[i] \in [lba : Nat, count : Nat]
  BY VolumesAssumption
<1> QED
  BY <1>1

\* The list goes on with the next entry that is not 0.
LEMMA NextListed ==
  ASSUME NEW n \in Nat, 1 .. n \subseteq Listed(vol)
  PROVE  IF n + 1 <= PosEntries /\ vol.stage2_pos[n + 1].lba # 0
         THEN n + 1 \in Listed(vol)
         ELSE Listed(vol) = 1 .. n
<1>1. CASE n + 1 <= PosEntries /\ vol.stage2_pos[n + 1].lba # 0
  <2>1. n + 1 \in 1 .. PosEntries
    BY <1>1
  <2>2. ASSUME NEW j \in 1 .. n + 1
        PROVE  vol.stage2_pos[j].lba # 0
    <3>1. CASE j = n + 1
      BY <1>1, <3>1
    <3>2. CASE j # n + 1
      <4>1. j \in Listed(vol) /\ j \in 1 .. j
        BY <3>2
      <4> QED
        BY <4>1 DEF Listed
    <3> QED
      BY <3>1, <3>2
  <2> QED
    BY <1>1, <2>1, <2>2 DEF Listed
<1>2. CASE ~(n + 1 <= PosEntries /\ vol.stage2_pos[n + 1].lba # 0)
  <2>1. ASSUME NEW i \in Listed(vol)
        PROVE  i <= n
    <3>1. SUFFICES ASSUME i > n
                   PROVE  FALSE
      BY DEF Listed
    <3>2. i \in 1 .. PosEntries /\ n + 1 \in 1 .. i
      BY <3>1 DEF Listed
    <3>3. n + 1 <= PosEntries /\ vol.stage2_pos[n + 1].lba # 0
      BY <3>2 DEF Listed, PosEntries
    <3> QED
      BY <1>2, <3>3
  <2>2. Listed(vol) \subseteq 1 .. n
    BY <2>1 DEF Listed
  <2> QED
    BY <1>2, <2>2
<1> QED
  BY <1>1, <1>2

\* A block in memory.
Placed == [to : Nat, lba : Nat, count : Nat]

\* Without the BIOS's extensions the sector of a number below the limits is
\* the number's own if the boot sector knows the geometry, with them it is
\* anyway.
LEMMA ReachedIsAsked ==
  ASSUME vol \in Volumes, InReach1(vol), NEW i \in Listed(vol)
  PROVE  Reached1(vol.stage2_pos[i].lba) = vol.stage2_pos[i].lba
<1> DEFINE l == vol.stage2_pos[i].lba
           H == vol.heads
           S == vol.sectors
<1>1. H \in Nat \ {0} /\ S \in Nat \ {0} /\ l \in Nat /\ H <= 256 /\ S <= 63
  BY Positions, VolumesAssumption, GeometryAssumption DEF Listed
<1>2. CASE vol.extension
  BY <1>2 DEF Reached1
<1>3. CASE ~vol.extension
  <2>1. /\ l < MinOf(65536, 256 * H * S)
        /\ vol.bpb_heads = H /\ vol.bpb_sectors = S
    BY <1>3 DEF InReach1
  <2> HIDE DEF l, H, S
  <2> DEFINE m == S * H
  <2>2. m \in Nat \ {0} /\ 256 * H * S = 256 * m
    BY <1>1
  <2> HIDE DEF m
  <2>3. l < 65536 /\ l < 256 * m
    BY <1>1, <2>1, <2>2 DEF MinOf
  <2>4. l \div m < 256
    BY <1>1, <2>2, <2>3, CylinderBelow
  <2>5. l % 65536 = l
    BY <1>1, <2>3
  <2>6. /\ ((l \div m) * H + ((l \div S) % H)) * S + (l % S) = l
        /\ l \div m \in Nat /\ (l \div S) % H \in Nat /\ l % S \in Nat
    BY <1>1, SplitNumber DEF m
  <2> DEFINE c == l \div m
             h == (l \div S) % H
             s == (l % S) + 1
  <2>7. /\ (c % 256) + 256 * ((s \div 64) % 4) = c /\ h % 256 = h /\ s % 64 = s
    <3>1. c \in Nat /\ c < 256
      BY <2>4, <2>6
    <3>2. h \in Nat /\ h < 256
      BY <1>1, <2>6
    <3>3. s \in Nat /\ s < 64
      BY <1>1, <2>6
    <3> HIDE DEF c, h, s
    <3>4. c % 256 = c /\ h % 256 = h /\ s % 64 = s /\ s \div 64 = 0
      BY <3>1, <3>2, <3>3
    <3> QED
      BY <3>1, <3>4
  <2>8. Reached1(l) = (c * H + h) * S + s - 1
    <3>1. Reached1(l) = Addressed((c % 256) + 256 * ((s \div 64) % 4), h % 256, s % 64)
      BY <1>3, <2>1, <2>5 DEF Reached1, H, S, m
    <3> HIDE DEF c, h, s
    <3> QED
      BY <2>7, <3>1 DEF Addressed, H, S
  <2> DEFINE x == ((l \div m) * H + ((l \div S) % H)) * S
             y == l % S
  <2>9. x + y = l /\ y \in Nat /\ x \in Int /\ Reached1(l) = x + (y + 1) - 1
    BY <1>1, <2>6, <2>8 DEF c, h, s
  <2> HIDE DEF x, y
  <2>10. Reached1(l) = l
    BY <2>9
  <2> QED
    BY <2>10 DEF l
<1> QED
  BY <1>2, <1>3

\* The blocks of a list in memory, one behind the other.
Behind(s, list) ==
  \A i \in 1 .. Len(s) :
    /\ s[i].lba = list[i].lba /\ s[i].count = list[i].count
    /\ s[i].to = IF i = 1 THEN 0 ELSE s[i - 1].to + list[i - 1].count

\* One block more, behind the last.
LEMMA OneMore ==
  ASSUME NEW s \in Seq(Placed), NEW list, NEW lba \in Nat, NEW count \in Nat,
         Behind(s, list), list[Len(s) + 1].lba = lba, list[Len(s) + 1].count = count
  PROVE  LET t == Append(s, [to |-> End(s), lba |-> lba, count |-> count])
         IN  t \in Seq(Placed) /\ Len(t) = Len(s) + 1 /\ Behind(t, list)
<1> DEFINE n == Len(s)
           x == [to |-> End(s), lba |-> lba, count |-> count]
           t == Append(s, x)
<1>1. n \in Nat /\ \A i \in 1 .. n : s[i] \in Placed
  OBVIOUS
<1>2. End(s) = IF n = 0 THEN 0 ELSE s[n].to + s[n].count
  BY DEF End
<1>3. End(s) \in Nat
  <2>1. CASE n = 0
    BY <1>2, <2>1
  <2>2. CASE n # 0
    <3>1. n \in 1 .. n
      BY <1>1, <2>2
    <3>2. s[n].to \in Nat /\ s[n].count \in Nat
      BY <1>1, <3>1 DEF Placed
    <3> QED
      BY <1>2, <2>2, <3>2
  <2> QED
    BY <2>1, <2>2
<1>4. x \in Placed /\ x.to = End(s) /\ x.lba = lba /\ x.count = count
  BY <1>3 DEF Placed
<1> HIDE DEF x
<1>5. /\ t \in Seq(Placed) /\ Len(t) = n + 1
      /\ t[n + 1] = x /\ \A i \in 1 .. n : t[i] = s[i]
  BY <1>4
<1> HIDE DEF t
<1>6. n # 0 => s[n].count = list[n].count
  <2> SUFFICES ASSUME n # 0
               PROVE  s[n].count = list[n].count
    OBVIOUS
  <2>1. n \in 1 .. n
    BY <1>1
  <2> QED
    BY <2>1 DEF Behind
<1>7. ASSUME NEW i \in 1 .. n + 1
      PROVE  /\ t[i].lba = list[i].lba /\ t[i].count = list[i].count
             /\ t[i].to = IF i = 1 THEN 0 ELSE t[i - 1].to + list[i - 1].count
  <2>1. CASE i = n + 1
    <3>1. t[i] = x /\ i - 1 = n /\ (i = 1 <=> n = 0)
      BY <1>1, <1>5, <2>1
    <3>2. n # 0 => t[n] = s[n]
      BY <1>1, <1>5
    <3> QED
      BY <1>2, <1>4, <1>6, <2>1, <3>1, <3>2
  <2>2. CASE i # n + 1
    <3>1. i \in 1 .. n /\ (i # 1 => i - 1 \in 1 .. n)
      BY <1>1, <2>2
    <3>2. t[i] = s[i] /\ (i # 1 => t[i - 1] = s[i - 1])
      BY <1>5, <3>1
    <3> QED
      BY <3>1, <3>2 DEF Behind
  <2> QED
    BY <2>1, <2>2
<1>8. Behind(t, list)
  BY <1>5, <1>7 DEF Behind
<1> QED
  BY <1>5, <1>8 DEF t, x

\* The blocks in memory are those of the list, one behind the other; while the
\* first stage is at work the read in progress is that of the next one, and
\* it is reported as done only with the sector in memory.
BlocksRight ==
  /\ stage2 \in Seq(Placed)
  /\ 1 .. Len(stage2) \subseteq Listed(vol)
  /\ Behind(stage2, vol.stage2_pos)
  /\ pc = "stage1" /\ io.phase # "idle" =>
       /\ Len(stage2) + 1 \in Listed(vol)
       /\ io.lba = vol.stage2_pos[Len(stage2) + 1].lba
       /\ io.phase = "done" /\ io.ok => io.at = io.lba
  /\ pc \notin {"stage1", "reboot", "overrun"} => 1 .. Len(stage2) = Listed(vol)

\* A disk within reach; no read is reported before it is done.
StageRight ==
  /\ vol \in Volumes
  /\ io.phase # "done" => ~io.ok
  /\ InReach1(vol) => BlocksRight

\* At power-on no block is in memory.
LEMMA InitStage == Init => StageRight
<1> SUFFICES ASSUME Init
             PROVE  StageRight
  OBVIOUS
<1>1. vol \in Volumes /\ pc = "stage1" /\ stage2 = << >> /\ io.phase = "idle" /\ ~io.ok
  BY DEF Init, DiskInit, Idle
<1> QED
  BY <1>1 DEF StageRight, BlocksRight, Behind

\* The code behind the first stage.
LEMMA BehindStage1 ==
  ASSUME Control, Loader, ~Stage1, ~Stage1Read
  PROVE  /\ UNCHANGED <<vol, stage2>>
         /\ pc \notin {"stage1", "reboot", "overrun"} /\ pc' \notin {"stage1", "reboot", "overrun"}
         /\ io' = io \/ ~io'.ok
<1> USE DEF Control, RequestRight, Records, Free, Answered, Request, ReadSector, Idle, diskVars,
            fatVars, ElfFrame, Reading, Fail
<1>1. CASE Entry
  BY <1>1 DEF Entry
<1>2. CASE AskBootSector
  BY <1>2 DEF AskBootSector
<1>3. CASE BootSectorRead
  <2>1. io.dest = "boot" /\ io.phase = "done" /\ UNCHANGED <<vol, stage2>>
    BY <1>3 DEF BootSectorRead
  <2>2. CASE io.ok
    <3>1. pc' = "root" /\ ReadSector("init", RootDirLba(vol))
      BY <1>3, <2>2 DEF BootSectorRead
    <3>2. ~io'.ok
      BY <3>1
    <3> QED
      BY <2>1, <3>1, <3>2
  <2>3. CASE ~io.ok
    <3>1. pc' = "stop" /\ io' = Idle
      BY <1>3, <2>3 DEF BootSectorRead
    <3> QED
      BY <2>1, <3>1
  <2> QED
    BY <2>2, <2>3
<1>4. CASE FAT_Initialize
  BY <1>4 DEF FAT_Initialize
<1>5. CASE Memory_detect
  BY <1>5 DEF Memory_detect
<1>6. CASE Opened
  BY <1>6 DEF Opened
<1>7. CASE Header
  BY <1>7 DEF Header
<1>8. CASE Skip
  BY <1>8 DEF Skip
<1>9. CASE Table
  BY <1>9 DEF Table
<1>10. CASE Segment
  BY <1>10 DEF Segment
<1>11. CASE Reopened
  BY <1>11 DEF Reopened
<1>12. CASE Chunk
  BY <1>12 DEF Chunk
<1>13. CASE ChunkRead
  BY <1>13 DEF ChunkRead
<1> QED
  BY <1>1, <1>2, <1>3, <1>4, <1>5, <1>6, <1>7, <1>8, <1>9, <1>10, <1>11, <1>12, <1>13 DEF Loader

\* The first stage asks for the blocks of the list in their order.
LEMMA Stage1Asks ==
  ASSUME StageRight, Control, Stage1
  PROVE  StageRight'
<1> DEFINE n == Len(stage2)
           more == n + 1 <= PosEntries /\ vol.stage2_pos[n + 1].lba # 0
<1>1. /\ pc = "stage1" /\ io.phase = "idle" /\ vol' = vol /\ stage2' = stage2
      /\ vol \in Volumes
  BY DEF Stage1, Free, StageRight
<1>2. BlocksRight => n \in Nat /\ 1 .. n \subseteq Listed(vol)
  BY DEF BlocksRight
<1>3. CASE more
  <2>1. ~(Asked > PosEntries) /\ Asked = n + 1
    BY <1>3 DEF Asked, PosEntries
  <2>2. Request("stage2", Reached1(vol.stage2_pos[n + 1].lba)) /\ pc' = pc
    BY <1>3, <2>1 DEF Stage1
  <2>3. io'.phase = "read" /\ io'.lba = Reached1(vol.stage2_pos[n + 1].lba) /\ ~io'.ok
    BY <2>2 DEF Request, Idle
  <2>4. ASSUME InReach1(vol), BlocksRight
        PROVE  BlocksRight'
    <3>2. n + 1 \in Listed(vol)
      BY <1>2, <1>3, <2>4, NextListed
    <3>3. io'.lba = vol.stage2_pos[n + 1].lba
      BY <1>1, <2>3, <2>4, <3>2, ReachedIsAsked
    <3> QED
      BY <1>1, <2>2, <2>3, <2>4, <3>2, <3>3 DEF BlocksRight, Listed
  <2> QED
    BY <1>1, <2>3, <2>4 DEF StageRight, InReach1, Listed
<1>4. CASE ~more
  <2>1. pc' \in {"entry", "reboot", "overrun"} /\ io' = io
    <3>1. Asked > PosEntries \/ vol.stage2_pos[Asked].lba = 0
      BY <1>4 DEF Asked, PosEntries
    <3> QED
      BY <3>1 DEF Stage1
  <2>2. BlocksRight => Listed(vol) = 1 .. n
    BY <1>2, <1>4, NextListed
  <2>3. BlocksRight => BlocksRight'
    BY <1>1, <2>1, <2>2 DEF BlocksRight, Listed
  <2> QED
    BY <1>1, <2>1, <2>3 DEF StageRight, InReach1, Listed
<1> QED
  BY <1>3, <1>4

\* What comes back is put behind the blocks in memory.
LEMMA Stage1Places ==
  ASSUME StageRight, Control, Stage1Read
  PROVE  StageRight'
<1> DEFINE n == Len(stage2)
           list == vol.stage2_pos
           count == list[Asked].count
           fits == End(stage2) + count <= LoadRoom
<1>1. /\ io.phase = "done" /\ io.dest = "stage2" /\ vol' = vol /\ vol \in Volumes
      /\ io'.phase = "idle" /\ ~io'.ok
  BY DEF Stage1Read, Answered, Idle, StageRight
<1>2. pc = "stage1"
  BY <1>1 DEF Control, RequestRight
<1>3. \A i \in Listed(vol) : list[i].lba \in Nat /\ list[i].count \in Nat
  BY <1>1, Positions DEF Listed
<1>4. CASE io.ok /\ fits
  <2>1. /\ stage2' = Append(stage2, [to |-> End(stage2), lba |-> io.at, count |-> list[n + 1].count])
        /\ pc' = pc
    BY <1>4 DEF Stage1Read, Asked
  <2>2. ASSUME BlocksRight
        PROVE  BlocksRight'
    <3>1. /\ stage2 \in Seq(Placed) /\ Behind(stage2, list)
          /\ n + 1 \in Listed(vol) /\ io.at = list[n + 1].lba
      BY <1>1, <1>2, <1>4, <2>2 DEF BlocksRight
    <3> HIDE DEF list
    <3>2. n \in Nat
      BY <3>1
    <3>3. list[n + 1].lba \in Nat /\ list[n + 1].count \in Nat
      BY <1>3, <3>1
    <3>4. stage2' \in Seq(Placed) /\ Len(stage2') = n + 1 /\ Behind(stage2', list)
      BY <2>1, <3>1, <3>3, OneMore
    <3>5. 1 .. Len(stage2') \subseteq Listed(vol)
      BY <2>2, <3>1, <3>2, <3>4 DEF BlocksRight
    <3> QED
      BY <1>1, <1>2, <2>1, <3>4, <3>5 DEF BlocksRight, Listed, list
  <2> QED
    BY <1>1, <2>2 DEF StageRight, InReach1, Listed
<1>5. CASE ~(io.ok /\ fits)
  <2>1. pc' \in {"reboot", "overrun"} /\ stage2' = stage2
    BY <1>5 DEF Stage1Read
  <2> QED
    BY <1>1, <2>1 DEF StageRight, InReach1, BlocksRight, Listed
<1> QED
  BY <1>4, <1>5

\* The two steps of the first stage together.
LEMMA Stage1Keeps ==
  ASSUME Control, StageRight, Stage1 \/ Stage1Read
  PROVE  StageRight'
BY Stage1Asks, Stage1Places

\* The BIOS's answers, and the three tries.
LEMMA DiskKeeps ==
  ASSUME Control, StageRight, DiskNext, UNCHANGED <<pc, stage2>>
  PROVE  StageRight'
<1>1. /\ UNCHANGED vol
      /\ io.phase \in {"read", "reset"} /\ io'.phase # "idle" /\ io'.lba = io.lba
      /\ io'.ok => io'.phase = "done" /\ io'.at = io'.lba
  <2>1. CASE x86_Disk_Read
    BY <2>1 DEF x86_Disk_Read, Control, Records, Fields, StageRight
  <2>2. CASE x86_Disk_Reset
    BY <2>2 DEF x86_Disk_Reset, Control, Records, Fields, StageRight
  <2> QED
    BY <2>1, <2>2 DEF DiskNext
<1> QED
  BY <1>1 DEF StageRight, InReach1, BlocksRight, Listed

\* The FAT reader is not called by the first stage.
LEMMA FatKeeps ==
  ASSUME Control, StageRight, FatNext, UNCHANGED <<pc, stage2>>
  PROVE  StageRight'
<1>1. UNCHANGED vol /\ pc # "stage1" /\ (io' = io \/ ~io'.ok)
  <2> USE DEF Control, RequestRight, Records, Free, Answered, Request, ReadSector, Idle, diskVars,
              fatVars, Reading
  <2>1. CASE FindFile
    BY <2>1 DEF FindFile
  <2>2. CASE RootRead
    BY <2>2 DEF RootRead
  <2>3. CASE OpenEntry
    BY <2>3 DEF OpenEntry
  <2>4. CASE EntryRead
    BY <2>4 DEF EntryRead
  <2>5. CASE Copy
    BY <2>5 DEF Copy
  <2>6. CASE NextCluster
    BY <2>6 DEF NextCluster
  <2>7. CASE FatRead
    BY <2>7 DEF FatRead
  <2>8. CASE AskSector
    BY <2>8 DEF AskSector
  <2>9. CASE SectorRead
    BY <2>9 DEF SectorRead
  <2> QED
    BY <2>1, <2>2, <2>3, <2>4, <2>5, <2>6, <2>7, <2>8, <2>9 DEF FatNext
<1> QED
  BY <1>1 DEF StageRight, InReach1, BlocksRight, Listed

\* Every step keeps the list of blocks.
LEMMA StepStage == Control /\ StageRight /\ [Next]_vars => StageRight'
<1> SUFFICES ASSUME Control, StageRight, [Next]_vars
             PROVE  StageRight'
  OBVIOUS
<1>1. CASE Stage1 \/ Stage1Read
  BY <1>1, Stage1Keeps
<1>2. CASE Loader /\ ~Stage1 /\ ~Stage1Read
  BY <1>2, BehindStage1 DEF StageRight, InReach1, BlocksRight, Listed
<1>3. CASE DiskNext /\ UNCHANGED <<fatVars, pc, stage2, regions, block, elfVars>>
  BY <1>3, DiskKeeps
<1>4. CASE FatNext /\ UNCHANGED <<pc, stage2, regions, block, elfVars>>
  BY <1>4, FatKeeps
<1>5. CASE UNCHANGED vars
  BY <1>5 DEF vars, diskVars, StageRight, InReach1, BlocksRight, Listed
<1> QED
  BY <1>1, <1>2, <1>3, <1>4, <1>5 DEF Next

\* The second stage starts only with the blocks in memory that its table lists
\* up to the first number 0, in order and without a gap, whatever reads failed
\* on the way: for every table and every geometry, with the BIOS's extensions,
\* or without them if the boot sector holds the drive's geometry and the
\* numbers are within reach.  Blocks and entries that run over the first stage
\* are not among what is claimed.
THEOREM SecondStageComplete == Spec => []Stage2Intact
<1>1. Init => Control /\ HandlesRight /\ StageRight
  BY InitControl, InitStage
<1>2. Control /\ HandlesRight /\ StageRight /\ [Next]_vars => Control' /\ HandlesRight' /\ StageRight'
  BY StepControl, StepStage
<1>3. StageRight => Stage2Intact
  <2> SUFFICES ASSUME StageRight, pc \notin {"stage1", "reboot", "overrun"}, InReach1(vol)
               PROVE  /\ DOMAIN stage2 = Listed(vol)
                      /\ \A i \in DOMAIN stage2 :
                           /\ stage2[i].lba = vol.stage2_pos[i].lba
                           /\ stage2[i].to = IF i = 1 THEN 0
                                             ELSE stage2[i - 1].to + vol.stage2_pos[i - 1].count
    BY DEF Stage2Intact
  <2>1. BlocksRight
    BY DEF StageRight
  <2>2. DOMAIN stage2 = 1 .. Len(stage2)
    BY <2>1 DEF BlocksRight
  <2> QED
    BY <2>1, <2>2 DEF BlocksRight, Behind
<1> QED
  BY <1>1, <1>2, <1>3, PTL DEF Spec
=============================================================================
