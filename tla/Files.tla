------------------------------- MODULE Files -------------------------------
(***************************************************************************)
(* The terminal's file commands over the VFS and the kernel's FAT driver   *)
(*   src/kernel/main.c:148-225       term: ls, cat, touch, write           *)
(*   src/kernel/vfs/vfs.c            open, read, write, seek, close, list  *)
(*   src/kernel/filesystem/fat.c     everything but FAT_init               *)
(*                                                                         *)
(* One thread runs it, so a command is one step.  A cluster is one sector, *)
(* as on the disks the build makes; what the terminal writes is shorter.   *)
(* Handles that a command leaks are never used again, so of opened_files   *)
(* only the open flags outlive a command.                                  *)
(*                                                                         *)
(* update_fat writes to the sector whose number is the first FAT sector    *)
(* plus the byte offset of the cluster's entry (fat.c:312).  For cluster 0 *)
(* that is the sector the driver reads when it starts.  Bound: for others  *)
(* it is one the driver does not read again, as on disks whose two FATs    *)
(* are longer than four times the number of any cluster that is linked.    *)
(* Bounds: the memory before opened_files[0], which handle 0 stands for,   *)
(* holds nothing else; no directory has a second cluster.                  *)
(***************************************************************************)
EXTENDS Integers, Sequences, FiniteSets

CONSTANTS
  TotalClusters,      \* total_clusters
  EntriesPerSector,   \* entries of a FAT sector; 128 for FAT32
  ReloadAfter,        \* 512: from here on find_free_cluster rereads the FAT
  MaxOpenFile,        \* MAX_OPEN_FILE: 50 in the code
  DirCapacity,        \* entries of a directory's cluster; 16 in the code
  Paths,              \* bound: the paths the user names, [dir, name]
  Texts,              \* bound: the texts the user writes
  Volumes             \* the formatted volumes: [table, data]

RootCluster == 2      \* root_dir.first_cluster
NoDir == "none"       \* a path without a directory part
EOC == -1             \* 0xFFFFFFF8, the end of a chain this kernel wrote
FormattedEnd == -2    \* 0x0FFFFFF8, the end that mkfs.fat writes on FAT32
Nothing == "nothing"

Clusters == 0 .. TotalClusters - 1
Entries == [name : STRING, cluster : Clusters, is_dir : BOOLEAN]
Tables == [0 .. EntriesPerSector - 1 -> Clusters \cup {EOC, FormattedEnd}]
IsDir(content) == content \in [kind : {"dir"}, entries : Seq(Entries)]

\* The directories of a disk that holds d, and where their entries stand.
EntriesIn(d, c) == IF d[c].kind = "dir" THEN d[c].entries ELSE << >>
Directories(d) ==
  LET root == EntriesIn(d, RootCluster)
  IN  {RootCluster} \cup {root[i].cluster : i \in {j \in DOMAIN root : root[j].is_dir}}
Places(d) ==
  {e \in Directories(d) \X (1 .. DirCapacity) : e[2] \in DOMAIN EntriesIn(d, e[1])}
EntryAt(d, e) == EntriesIn(d, e[1])[e[2]]

\* The clusters that have a next one in t.
Linked(t) == {c \in DOMAIN t : t[c] >= 2}

\* Every cluster is referred to at most once, by an entry or by the cluster
\* before it, and is then marked used: no cluster is in two chains, and as the
\* first of a chain is not the next of another, every chain ends.  The driver
\* finds the table's entries of the first sector only.
ChainsApart(t, d) ==
  /\ \A e, f \in Places(d) : e # f => EntryAt(d, e).cluster # EntryAt(d, f).cluster
  /\ \A b, c \in Linked(t) : b # c => t[b] # t[c]
  /\ \A c \in Linked(t), e \in Places(d) : t[c] # EntryAt(d, e).cluster
  /\ \A c \in {EntryAt(d, e).cluster : e \in Places(d)} \cup {t[b] : b \in Linked(t)} :
       c < EntriesPerSector => t[c] # 0

\* What mkfs.fat and mtools leave.  Bound: no file is empty or starts beyond
\* the first sector of the table, and no directory has a second cluster.
Sound(t, d) ==
  /\ t \in Tables /\ 0 \notin {t[0], t[1], t[RootCluster]}
  /\ DOMAIN d = Clusters /\ \A c \in Clusters : d[c].kind = "text" \/ IsDir(d[c])
  /\ \A c \in Directories(d) : IsDir(d[c]) /\ Len(d[c].entries) <= DirCapacity
  /\ \A e \in Places(d) :
       /\ EntryAt(d, e).cluster > RootCluster
       /\ ~EntryAt(d, e).is_dir =>
            EntryAt(d, e).cluster < EntriesPerSector /\ EntryAt(d, e).cluster \notin Directories(d)
  /\ ChainsApart(t, d)

ASSUME FilesAssumption ==
  /\ TotalClusters \in Nat /\ EntriesPerSector \in Nat /\ ReloadAfter \in Nat
  /\ MaxOpenFile \in Nat /\ DirCapacity \in Nat
  /\ TotalClusters > RootCluster /\ EntriesPerSector > RootCluster
  /\ Paths \subseteq [dir : STRING, name : STRING]
  /\ Nothing \notin Texts /\ "" \notin Texts
  /\ \A v \in Volumes : Sound(v.table, v.data)

VARIABLES
  volume,    \* the FAT on the disk
  table,     \* fat.table: the FAT sector in memory
  data,      \* the content of each cluster on the disk
  opened,    \* the handles whose open flag is set, from 1 on
  last,      \* what the last command showed, if it was cat: [path, out, after]
  hung,      \* the terminal is in a loop that never ends
  wrote,     \* history: per path the text last written there
  trouble    \* history: what has gone wrong

vars == <<volume, table, data, opened, last, hung, wrote, trouble>>

\* What a cluster holds: directory entries, or text.
Entry(name, cluster, is_dir) == [name |-> name, cluster |-> cluster, is_dir |-> is_dir]
Dir(entries) == [kind |-> "dir", entries |-> entries]
Text(t) == [kind |-> "text", text |-> t]
Zeros == Text("")       \* read as an empty file
Long == Text("long")    \* 512 bytes, none of them 0 or 0xFF
Junk == Text("junk")    \* a directory entry in the middle of a text

-----------------------------------------------------------------------------
(* The allocation table                                                    *)

\* Only the offset within a sector survives in ent_offset, so a cluster's
\* entry is looked up in the one sector that is in memory.
next_cluster(t, c) == t[c % EntriesPerSector]

\* The FAT in memory and the one on the disk: [table, volume].
Fat == [table |-> table, volume |-> volume]

\* The sector in memory is written behind the FAT's first one, and over it
\* when the byte offset is 0.
update_fat(f, c, n) ==
  LET t == [f.table EXCEPT ![c % EntriesPerSector] = n]
  IN  [table |-> t, volume |-> IF c = 0 THEN t ELSE f.volume]

Least(S) == CHOOSE i \in S : \A j \in S : i <= j

\* The cluster found, 0 for none, and the FAT afterwards: beyond ReloadAfter
\* the scan rereads the sector from the disk.
find_free_cluster(f) ==
  LET cached == {i \in 2 .. TotalClusters - 1 : i <= ReloadAfter /\ next_cluster(f.table, i) = 0}
      reread == {i \in 2 .. TotalClusters - 1 : i > ReloadAfter /\ next_cluster(f.volume, i) = 0}
  IN  IF cached # {} THEN [cluster |-> Least(cached), fat |-> f]
      ELSE [cluster |-> IF reread = {} THEN 0 ELSE Least(reread),
            fat |-> [f EXCEPT !.table = IF TotalClusters - 1 > ReloadAfter THEN f.volume ELSE @]]

\* No cluster was left, or it was looked for where the scan rereads.
Scarce(c) == IF c = 0 THEN {"full"} ELSE IF c > ReloadAfter THEN {"reread"} ELSE {}

-----------------------------------------------------------------------------
(* Looking up paths, and handles                                           *)

EntriesOf(c) == EntriesIn(data, c)

\* find_file: the first entry of that name.
Matches(c, name) == {i \in DOMAIN EntriesOf(c) : EntriesOf(c)[i].name = name}
Exists(c, name) == Matches(c, name) # {}
find_file(c, name) == EntriesOf(c)[Least(Matches(c, name))]

\* The directory the last component of a path is looked up in.
DirFound(p) ==
  \/ p.dir = NoDir
  \/ Exists(RootCluster, p.dir) /\ find_file(RootCluster, p.dir).is_dir
DirOf(p) == IF p.dir = NoDir THEN RootCluster ELSE find_file(RootCluster, p.dir).cluster

Found(p) == DirFound(p) /\ Exists(DirOf(p), p.name)
FileAt(p) == find_file(DirOf(p), p.name)

\* Mistake: the scan looks at one slot too many.
find_free_handle_OneMore(o) ==
  LET free == (1 .. MaxOpenFile + 1) \ o IN IF free = {} THEN 0 ELSE Least(free)

\* find_free_handle: 0 when all are open, which FAT_open takes for a handle;
\* to the VFS it is STDIN.
find_free_handle(o) ==
  LET free == (1 .. MaxOpenFile) \ o IN IF free = {} THEN 0 ELSE Least(free)

\* FAT_open of a file that is there.
Open(o) == o \cup ({find_free_handle(o)} \ {0})
Exhausted(o) == IF find_free_handle(o) = 0 THEN {"exhausted"} ELSE {}

NoCat == [path |-> [dir |-> Nothing, name |-> Nothing], out |-> Zeros, after |-> ""]

\* The command is over; what cat has shown is kept for one step.
Shows(p, out, after) == last' = [path |-> p, out |-> out, after |-> after] /\ hung' = FALSE
Done == last' = NoCat /\ hung' = FALSE

Init ==
  /\ \E v \in Volumes : volume = v.table /\ table = v.table /\ data = v.data
  /\ opened = {}
  /\ last = NoCat
  /\ hung = FALSE
  /\ wrote = [p \in Paths |-> Nothing]
  /\ trouble = {}

-----------------------------------------------------------------------------
(* The commands                                                            *)

\* ls: the handle stays open; what is not there is listed as the root.
Ls(p) ==
  /\ ~hung
  /\ opened' = IF Found(p) THEN Open(opened) ELSE opened
  /\ trouble' = trouble \cup (IF Found(p) THEN Exhausted(opened) ELSE {})
  /\ Done
  /\ UNCHANGED <<volume, table, data, wrote>>

CatMissing(p) ==
  /\ ~hung /\ ~Found(p)
  /\ Shows(p, Text("aie"), "")
  /\ UNCHANGED <<volume, table, data, opened, wrote, trouble>>

\* A cluster without an end: FAT_append never gets out of it.
NoRoom(c) ==
  \/ data[c] = Long
  \/ data[c].kind = "dir" /\ Len(data[c].entries) = DirCapacity

\* FAT_seek to the end stays in the first cluster, for ever if that is full.
SeekHangs(p) ==
  data[FileAt(p).cluster] = Long \/ (FileAt(p).is_dir /\ NoRoom(FileAt(p).cluster))

CatHangs(p) ==
  /\ ~hung /\ Found(p) /\ SeekHangs(p)
  /\ opened' = Open(opened)
  /\ trouble' = trouble \cup Exhausted(opened)
  /\ hung' = TRUE
  /\ UNCHANGED <<volume, table, data, last, wrote>>

\* An empty file, and a directory, whose size is 0: the handle stays open.
CatEmpty(p) ==
  /\ ~hung /\ Found(p) /\ ~SeekHangs(p)
  /\ FileAt(p).is_dir \/ data[FileAt(p).cluster] = Zeros
  /\ opened' = Open(opened)
  /\ trouble' = trouble \cup Exhausted(opened)
  /\ Shows(p, Text("file is empty"), "")
  /\ UNCHANGED <<volume, table, data, wrote>>

\* The text, and the handle is closed.  Through handle 0 read takes a line
\* from the keyboard instead.  The buffer is as long as the text and holds no
\* zero: printf goes on with what the heap has behind it, up to a zero.
CatText(p) ==
  /\ ~hung /\ Found(p) /\ ~SeekHangs(p) /\ ~FileAt(p).is_dir
  /\ data[FileAt(p).cluster] # Zeros
  /\ trouble' = trouble \cup Exhausted(opened)
  /\ \E after \in {"", "stale"} :
       Shows(p, IF Exhausted(opened) = {} THEN data[FileAt(p).cluster] ELSE Text("keyboard"), after)
  /\ UNCHANGED <<volume, table, data, opened, wrote>>

\* touch of a file that is there opens it, as ls does.
TouchExisting(p) ==
  /\ ~hung /\ Found(p)
  /\ opened' = Open(opened)
  /\ trouble' = trouble \cup Exhausted(opened)
  /\ Done
  /\ UNCHANGED <<volume, table, data, wrote>>

\* Where FAT_create_file puts the entry: FAT_open of the directory part fails
\* with -1 when there is none or it does not exist, and -1 is the root's handle.
ParentOpens(p) == p.dir # NoDir /\ Exists(RootCluster, p.dir)
Parent(p) == IF ParentOpens(p) THEN find_file(RootCluster, p.dir).cluster ELSE RootCluster
AfterParent(p) == IF ParentOpens(p) THEN Open(opened) ELSE opened

\* Mistake: the entry goes to the start of the directory.
Appended_AtStart(c, e) ==
  IF data[c].kind = "dir" THEN Dir(<<e>> \o SubSeq(data[c].entries, 2, Len(data[c].entries)))
  ELSE Junk

\* A directory gets its entry; a regular file taken for one gets it as text.
Appended(c, e) ==
  IF data[c].kind = "dir" THEN Dir(Append(data[c].entries, e)) ELSE Junk

\* Mistake: the cluster of the new file is not marked used.
FatWithFile_StillFree(new) == new.fat

\* The new file's cluster ends its chain.
FatWithFile(new) == update_fat(new.fat, new.cluster, EOC)

\* touch of a file that is not there: FAT_create_file, then FAT_open again.
Touch(p) ==
  LET new == find_free_cluster(Fat)
      parent == Parent(p)
  IN
  /\ ~hung /\ ~Found(p)
  /\ table' = FatWithFile(new).table /\ volume' = FatWithFile(new).volume
  /\ IF NoRoom(parent)
       THEN hung' = TRUE /\ opened' = AfterParent(p) /\ UNCHANGED <<data, last>>
       ELSE /\ data' = [data EXCEPT ![parent] = Appended(parent, Entry(p.name, new.cluster, FALSE))]
            /\ opened' = IF Found(p)' THEN Open(AfterParent(p)) ELSE AfterParent(p)
            /\ Done
  /\ trouble' = trouble
       \cup Scarce(new.cluster)
       \cup (IF data[parent].kind = "text" THEN {"into a file"} ELSE {})
       \cup (IF DirFound(p) THEN {} ELSE {"wrong directory"})
       \cup (IF ParentOpens(p) THEN Exhausted(opened) ELSE {})
       \cup (IF Found(p)' THEN Exhausted(AfterParent(p)) ELSE {})
  /\ UNCHANGED wrote

WriteMissing(p) ==
  /\ ~hung /\ ~Found(p)
  /\ Done
  /\ UNCHANGED <<volume, table, data, opened, wrote, trouble>>

\* Handle 0: the text is put on the terminal's own input.
WriteToStdin(p, t) ==
  /\ ~hung /\ Found(p) /\ find_free_handle(opened) = 0
  /\ trouble' = trouble \cup {"exhausted"}
  /\ Done
  /\ UNCHANGED <<volume, table, data, opened, wrote>>

\* After the sector is written the next cluster is looked up, and when the
\* chain ends a cluster is added, needed or not.
Extended(c) ==
  LET new == find_free_cluster(Fat)
  IN  IF next_cluster(table, c) # EOC THEN [cluster |-> c, fat |-> Fat]
      ELSE [cluster |-> new.cluster,
            fat |-> update_fat(update_fat(new.fat, c, new.cluster), new.cluster, EOC)]

\* FAT_write through a fresh handle: the first sector is overwritten.  Bound:
\* the user does not write to a directory.
Write(p, t) ==
  LET c == FileAt(p).cluster
  IN
  /\ ~hung /\ Found(p) /\ ~FileAt(p).is_dir /\ find_free_handle(opened) # 0
  /\ opened' = Open(opened)
  /\ data' = [data EXCEPT ![c] = Text(t)]
  /\ table' = Extended(c).fat.table /\ volume' = Extended(c).fat.volume
  /\ trouble' = trouble \cup Scarce(Extended(c).cluster)
  /\ wrote' = [wrote EXCEPT ![p] = t]
  /\ Done

\* The machine is started again: the FAT is read from the disk.
Reboot ==
  /\ table' = volume
  /\ opened' = {}
  /\ Done
  /\ trouble' = trouble \cup (IF table # volume THEN {"reboot"} ELSE {})
  /\ UNCHANGED <<volume, data, wrote>>

Command(p) ==
  \/ Ls(p)
  \/ CatMissing(p) \/ CatHangs(p) \/ CatEmpty(p) \/ CatText(p)
  \/ TouchExisting(p) \/ Touch(p)
  \/ WriteMissing(p) \/ \E t \in Texts : (WriteToStdin(p, t) \/ Write(p, t))

Next == Reboot \/ \E p \in Paths : Command(p)

Spec == Init /\ [][Next]_vars

-----------------------------------------------------------------------------

FilesTypeOK ==
  /\ table \in Tables /\ volume \in Tables
  /\ DOMAIN data = Clusters
  /\ \A c \in Clusters : data[c].kind \in {"dir", "text"}
  /\ opened \subseteq 1 .. MaxOpenFile
  /\ hung \in BOOLEAN
  /\ wrote \in [Paths -> Texts \cup {Nothing}]

\* No cluster is in two chains and every chain ends, whatever is created and
\* written, as long as the scan for free clusters found one below ReloadAfter
\* and the machine was not started again after a change: both read the FAT on
\* the disk, which no change reaches but one to cluster 0.
NoCrossLinks ==
  trouble \cap {"full", "reread", "reboot"} = {} => ChainsApart(table, data)

\* What cat prints begins with what was last written (CatText says what may
\* come after it), unless one of these went wrong: the handles ran out, free
\* clusters did, the machine was started again, or a file was used as a
\* directory.
CatShowsLastWrite ==
  last # NoCat /\ wrote[last.path] # Nothing
    /\ trouble \cap {"exhausted", "full", "reread", "reboot", "into a file"} = {}
    => last.out = Text(wrote[last.path])

\* A path that names a file names the same file for ever: commands that fail,
\* a full volume and restarts included, as long as no cluster was taken where
\* the scan rereads, which may be a directory's.
NamesAreStable ==
  [][\A p \in Paths :
       Found(p) /\ "reread" \notin trouble => Found(p)' /\ FileAt(p)' = FileAt(p)]_vars

-----------------------------------------------------------------------------
(* What the program's own help says and the code does not do.              *)

\* main.c:213, `cat <file>: lis le fichier': a file that was written to can be
\* read, however many commands came before.
CatReadsTheFile ==
  last # NoCat /\ wrote[last.path] # Nothing
    /\ trouble \cap {"full", "reread", "reboot", "into a file"} = {}
    => last.out = Text(wrote[last.path])
=============================================================================
