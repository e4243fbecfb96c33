---------------------------- MODULE Files_proofs ----------------------------
(***************************************************************************)
(* Proofs about the terminal's file commands, for every size of the FAT,   *)
(* every number of handles and every set of paths, texts and sound volumes *)
(***************************************************************************)
EXTENDS Files, TLAPS, WellFoundedInduction

-----------------------------------------------------------------------------
(* Numbers                                                                 *)

\* A non-empty set of numbers has its least element, the first match of a scan.
LEMMA LeastIsIn ==
  ASSUME NEW S, S \subseteq Nat, S # {}
  PROVE  Least(S) \in S /\ \A j \in S : Least(S) <= j
<1>1. PICK i \in S : \A j \in S : ~(<<j, i>> \in OpToRel(<, Nat))
  BY NatLessThanWellFounded, WFMin
<1>2. \A j \in S : i <= j
  <2> SUFFICES ASSUME NEW j \in S, ~(i <= j)
               PROVE  FALSE
    OBVIOUS
  <2>1. i \in Nat /\ j \in Nat /\ j < i
    OBVIOUS
  <2>2. <<j, i>> \in OpToRel(<, Nat)
    BY <2>1 DEF OpToRel
  <2> QED
    BY <2>2, <1>1
<1> QED
  BY <1>2 DEF Least

\* The entry of a cluster is in the sector, and its own one in the first sector.
LEMMA Offset ==
  ASSUME NEW c \in Nat, EntriesPerSector \in Nat \ {0}
  PROVE  /\ c % EntriesPerSector \in 0 .. EntriesPerSector - 1
         /\ c < EntriesPerSector => c % EntriesPerSector = c
         /\ c >= EntriesPerSector => c % EntriesPerSector < c
  OBVIOUS

-----------------------------------------------------------------------------
(* The free cluster                                                        *)

\* What the proofs use of the constants.
LEMMA Sizes ==
  /\ TotalClusters \in Nat /\ TotalClusters > 2 /\ EntriesPerSector \in Nat
  /\ EntriesPerSector > 2 /\ ReloadAfter \in Nat /\ MaxOpenFile \in Nat
  /\ DirCapacity \in Nat
  BY FilesAssumption DEF RootCluster

\* A table with one entry replaced, and what update_fat makes of both tables.
Updated(t, c, n) == [t EXCEPT ![c % EntriesPerSector] = n]

LEMMA UpdateFat ==
  ASSUME NEW t, NEW v, NEW c, NEW n
  PROVE  update_fat([table |-> t, volume |-> v], c, n) =
           [table |-> Updated(t, c, n), volume |-> IF c = 0 THEN Updated(t, c, n) ELSE v]
BY DEF update_fat, Updated

\* The scan answers a cluster or 0 and leaves one of the two tables in memory.
\* Below ReloadAfter the cluster is in the first sector and marked free there,
\* if the first two entries are not, and the table is the one that was scanned.
LEMMA FreeCluster ==
  LET new == find_free_cluster(Fat)
  IN  /\ new.cluster \in Clusters
      /\ new.cluster # 1
      /\ new.fat = [table |-> new.fat.table, volume |-> volume]
      /\ new.fat.table \in {table, volume}
      /\ Scarce(new.cluster) = {} => new.fat.table = table
      /\ Scarce(new.cluster) = {} /\ table[0] # 0 /\ table[1] # 0 =>
           new.cluster \in 2 .. EntriesPerSector - 1 /\ table[new.cluster] = 0
      /\ "reread" \notin Scarce(new.cluster) /\ table[0] # 0 /\ table[1] # 0 =>
           new.cluster \in {0} \cup 2 .. EntriesPerSector - 1
<1> DEFINE cached == {i \in 2 .. TotalClusters - 1 : i <= ReloadAfter /\ next_cluster(table, i) = 0}
           reread == {i \in 2 .. TotalClusters - 1 : i > ReloadAfter /\ next_cluster(volume, i) = 0}
           new == find_free_cluster(Fat)
<1>1. cached \subseteq Nat /\ reread \subseteq Nat
  BY Sizes
<1>2. CASE cached # {}
  <2>1. new = [cluster |-> Least(cached), fat |-> Fat] /\ Fat.table = table /\ Fat.volume = volume
    BY <1>2 DEF find_free_cluster, Fat
  <2> DEFINE c == Least(cached)
  <2>2. c \in cached /\ \A j \in cached : c <= j
    BY <1>1, <1>2, LeastIsIn
  <2> HIDE DEF c, new
  <2>3. c \in 2 .. TotalClusters - 1 /\ c <= ReloadAfter /\ table[c % EntriesPerSector] = 0
    BY <2>2 DEF next_cluster
  <2>4. Scarce(c) = {}
    BY <2>3, Sizes DEF Scarce
  <2>5. new.cluster = c /\ new.fat.table = table /\ new.fat = [table |-> table, volume |-> volume]
    BY <2>1 DEF c, Fat
  <2>6. ASSUME table[0] # 0, table[1] # 0
        PROVE  c < EntriesPerSector
    <3> SUFFICES ASSUME c >= EntriesPerSector
                 PROVE  FALSE
      BY <2>3, Sizes
    <3> DEFINE i == c % EntriesPerSector
    <3>1. i \in 0 .. EntriesPerSector - 1 /\ i < c
      BY <2>3, Sizes, Offset
    <3> HIDE DEF i
    <3>2. table[i] = 0
      BY <2>3 DEF i
    <3>3. i \in 2 .. TotalClusters - 1 /\ i <= ReloadAfter
      BY <3>1, <3>2, <2>6, <2>3, Sizes
    <3>4. i % EntriesPerSector = i
      BY <3>1, <3>3, Sizes, Offset
    <3>5. i \in cached
      BY <3>2, <3>3, <3>4 DEF next_cluster
    <3> QED
      BY <3>5, <2>2, <2>3, <3>1, Sizes
  <2>7. ASSUME table[0] # 0, table[1] # 0
        PROVE  c \in 2 .. EntriesPerSector - 1 /\ table[c] = 0
    BY <2>6, <2>7, <2>3, Sizes, Offset
  <2>8. c \in Clusters /\ c # 1
    BY <2>3, Sizes DEF Clusters
  <2> QED
    BY <2>4, <2>5, <2>7, <2>8 DEF new
<1>3. CASE cached = {}
  <2>1. new = [cluster |-> IF reread = {} THEN 0 ELSE Least(reread),
               fat |-> [Fat EXCEPT !.table =
                         IF TotalClusters - 1 > ReloadAfter THEN volume ELSE table]]
    BY <1>3 DEF find_free_cluster, Fat
  <2>2. new.fat.table \in {table, volume} /\ new.fat = [table |-> new.fat.table, volume |-> volume]
    BY <2>1 DEF Fat
  <2>3. CASE reread = {}
    <3>1. new.cluster = 0 /\ Scarce(new.cluster) = {"full"}
      BY <2>1, <2>3 DEF Scarce
    <3> QED
      BY <3>1, <2>2, Sizes DEF Clusters
  <2>4. CASE reread # {}
    <3> DEFINE c == Least(reread)
    <3>1. c \in reread
      BY <1>1, <2>4, LeastIsIn
    <3>2. new.cluster = c
      BY <2>1, <2>4
    <3> HIDE DEF c, new
    <3>3. c \in Clusters /\ c # 1 /\ Scarce(c) = {"reread"}
      BY <3>1, Sizes DEF Clusters, Scarce
    <3> QED
      BY <3>2, <3>3, <2>2 DEF new
  <2> QED
    BY <2>3, <2>4
<1> QED
  BY <1>2, <1>3
-----------------------------------------------------------------------------
(* Directories                                                             *)

\* A sequence, and what is the same in it after an element was appended.
LEMMA Appends ==
  ASSUME NEW S, NEW s \in Seq(S), NEW e \in S
  PROVE  /\ Len(s) \in Nat
         /\ DOMAIN s = 1 .. Len(s)
         /\ \A i \in DOMAIN s : s[i] \in S /\ Append(s, e)[i] = s[i]
         /\ Append(s, e) \in Seq(S)
         /\ Len(Append(s, e)) = Len(s) + 1
         /\ DOMAIN Append(s, e) = 1 .. Len(s) + 1
         /\ Append(s, e)[Len(s) + 1] = e
  OBVIOUS

\* The elements of a sequence are elements of its set.
LEMMA Elements ==
  ASSUME NEW S, NEW s \in Seq(S)
  PROVE  DOMAIN s = 1 .. Len(s) /\ Len(s) \in Nat /\ \A i \in DOMAIN s : s[i] \in S
  OBVIOUS

\* Every cluster holds a text or directory entries.
Typed(d) == DOMAIN d = Clusters /\ \A c \in Clusters : d[c].kind = "text" \/ IsDir(d[c])

\* The directories are directories, within their capacity; files start in the
\* first sector's clusters and never in a directory's.
TreeRight(d) ==
  /\ \A c \in Directories(d) : c >= RootCluster /\ IsDir(d[c]) /\ Len(d[c].entries) <= DirCapacity
  /\ \A e \in Places(d) :
       /\ EntryAt(d, e).is_dir => EntryAt(d, e).cluster > RootCluster
       /\ ~EntryAt(d, e).is_dir =>
            /\ EntryAt(d, e).cluster < EntriesPerSector
            /\ EntryAt(d, e).cluster # 1
            /\ EntryAt(d, e).cluster \notin Directories(d)

\* What is read as entries are entries, and directories are clusters.
LEMMA EntriesTyped ==
  ASSUME NEW d, Typed(d), NEW c \in Clusters
  PROVE  EntriesIn(d, c) \in Seq(Entries)
  BY DEF Typed, IsDir, EntriesIn

\* Directories are clusters, the root among them.
LEMMA DirectoriesTyped ==
  ASSUME NEW d, Typed(d)
  PROVE  Directories(d) \subseteq Clusters /\ RootCluster \in Directories(d)
<1>1. RootCluster \in Clusters
  BY Sizes DEF RootCluster, Clusters
<1>2. EntriesIn(d, RootCluster) \in Seq(Entries)
  BY <1>1, EntriesTyped
<1>3. \A i \in DOMAIN EntriesIn(d, RootCluster) : EntriesIn(d, RootCluster)[i].cluster \in Clusters
  <2>1. \A i \in DOMAIN EntriesIn(d, RootCluster) : EntriesIn(d, RootCluster)[i] \in Entries
    BY <1>2, Elements
  <2> QED
    BY <2>1 DEF Entries
<1> QED
  BY <1>1, <1>3 DEF Directories

\* An entry that a directory holds has a place, and the other way round.
LEMMA PlaceOf ==
  ASSUME NEW d, Typed(d), TreeRight(d), NEW c \in Directories(d), NEW i \in DOMAIN EntriesIn(d, c)
  PROVE  /\ <<c, i>> \in Places(d)
         /\ EntryAt(d, <<c, i>>) = EntriesIn(d, c)[i]
         /\ EntriesIn(d, c)[i] \in Entries
<1>1. IsDir(d[c]) /\ Len(d[c].entries) <= DirCapacity
  BY DEF TreeRight
<1>2. EntriesIn(d, c) = d[c].entries /\ EntriesIn(d, c) \in Seq(Entries)
  BY <1>1 DEF IsDir, EntriesIn
<1>3. i \in 1 .. DirCapacity
  BY <1>1, <1>2, Sizes
<1>4. EntriesIn(d, c)[i] \in Entries
  BY <1>2
<1> QED
  BY <1>3, <1>4 DEF Places, EntryAt

\* What a place is made of.
LEMMA PlaceIs ==
  ASSUME NEW d, NEW e \in Places(d)
  PROVE  /\ e = <<e[1], e[2]>> /\ e[1] \in Directories(d) /\ e[2] \in DOMAIN EntriesIn(d, e[1])
         /\ EntryAt(d, e) = EntriesIn(d, e[1])[e[2]]
  BY DEF Places, EntryAt

\* d2 has the directories of d, with at least their entries.
Grows(d, d2) ==
  /\ Directories(d2) = Directories(d)
  /\ \A c \in Directories(d) :
       /\ DOMAIN EntriesIn(d, c) \subseteq DOMAIN EntriesIn(d2, c)
       /\ \A i \in DOMAIN EntriesIn(d, c) : EntriesIn(d2, c)[i] = EntriesIn(d, c)[i]

\* d2 has the directories of d and their entries.
Alike(d, d2) ==
  /\ Directories(d2) = Directories(d)
  /\ \A b \in Directories(d) : d2[b] = d[b]
  /\ Places(d2) = Places(d)
  /\ \A e \in Places(d) : EntryAt(d2, e) = EntryAt(d, e)
  /\ Grows(d, d2)

\* What is written into a cluster that is no directory leaves them alone.
LEMMA OutsideTheTree ==
  ASSUME NEW d, Typed(d), NEW c \in Clusters, c \notin Directories(d), NEW x
  PROVE  /\ Alike(d, [d EXCEPT ![c] = x])
         /\ TreeRight(d) => TreeRight([d EXCEPT ![c] = x])
<1> DEFINE d2 == [d EXCEPT ![c] = x]
<1>1. \A b \in Directories(d) : d2[b] = d[b] /\ EntriesIn(d2, b) = EntriesIn(d, b)
  BY DirectoriesTyped DEF Typed, EntriesIn
<1> HIDE DEF d2
<1>2. Directories(d2) = Directories(d)
  BY <1>1, DirectoriesTyped DEF Directories
<1>3. Places(d2) = Places(d)
  BY <1>1, <1>2 DEF Places
<1>4. \A e \in Places(d) : EntryAt(d2, e) = EntryAt(d, e)
  BY <1>1, PlaceIs DEF EntryAt
<1>5. Grows(d, d2)
  BY <1>1, <1>2 DEF Grows
<1>6. TreeRight(d) => TreeRight(d2)
  BY <1>1, <1>2, <1>3, <1>4 DEF TreeRight
<1> QED
  BY <1>1, <1>2, <1>3, <1>4, <1>5, <1>6 DEF Alike, d2

\* d2 is d with the entry e at the end of directory c.
Added(d, d2, c, e) ==
  LET place == <<c, Len(d[c].entries) + 1>>
  IN  /\ Directories(d2) = Directories(d)
      /\ Places(d2) = Places(d) \cup {place}
      /\ place \notin Places(d)
      /\ EntryAt(d2, place) = e
      /\ \A f \in Places(d) : EntryAt(d2, f) = EntryAt(d, f)
      /\ Grows(d, d2)
      /\ \A b \in Directories(d) : IsDir(d2[b]) /\ Len(d2[b].entries) <= DirCapacity

\* The capacity of a directory and its length are numbers, so there is room
\* for one more entry when it is not full.
LEMMA Appending ==
  ASSUME NEW d, Typed(d), TreeRight(d), NEW c \in Directories(d), Len(d[c].entries) # DirCapacity,
         NEW e \in Entries, ~e.is_dir
  PROVE  Added(d, [d EXCEPT ![c] = Dir(Append(d[c].entries, e))], c, e)
<1> DEFINE n == Len(d[c].entries)
           d2 == [d EXCEPT ![c] = Dir(Append(d[c].entries, e))]
           place == <<c, n + 1>>
<1>1. IsDir(d[c]) /\ n \in Nat /\ n < DirCapacity /\ EntriesIn(d, c) = d[c].entries
  BY Sizes DEF TreeRight, IsDir, EntriesIn
<1>2. c \in Clusters /\ DOMAIN d = Clusters
  BY DirectoriesTyped DEF Typed
<1>3. d2[c] = Dir(Append(d[c].entries, e)) /\ \A b \in Directories(d) \ {c} : d2[b] = d[b]
  BY <1>2
<1> HIDE DEF d2
<1>4. EntriesIn(d2, c) = Append(EntriesIn(d, c), e) /\ EntriesIn(d2, c) \in Seq(Entries)
  BY <1>1, <1>3 DEF EntriesIn, Dir, IsDir
<1>5. \A b \in Directories(d) \ {c} : EntriesIn(d2, b) = EntriesIn(d, b)
  BY <1>3 DEF EntriesIn
<1>6. /\ EntriesIn(d, c) \in Seq(Entries)
      /\ DOMAIN EntriesIn(d, c) = 1 .. n
      /\ DOMAIN EntriesIn(d2, c) = 1 .. n + 1
      /\ \A i \in 1 .. n : EntriesIn(d2, c)[i] = EntriesIn(d, c)[i]
      /\ EntriesIn(d2, c)[n + 1] = e
  <2>1. EntriesIn(d, c) \in Seq(Entries)
    BY <1>1 DEF IsDir
  <2> DEFINE s == EntriesIn(d, c)
             s2 == EntriesIn(d2, c)
  <2>2. s \in Seq(Entries) /\ s2 = Append(s, e) /\ n = Len(s)
    BY <2>1, <1>1, <1>4
  <2> HIDE DEF s, s2, n
  <2>3. /\ DOMAIN s = 1 .. n /\ DOMAIN Append(s, e) = 1 .. n + 1
        /\ \A i \in DOMAIN s : Append(s, e)[i] = s[i]
        /\ Append(s, e)[n + 1] = e
    BY <2>2, Appends
  <2>4. /\ s \in Seq(Entries) /\ DOMAIN s = 1 .. n /\ DOMAIN s2 = 1 .. n + 1
        /\ \A i \in 1 .. n : s2[i] = s[i]
        /\ s2[n + 1] = e
    BY <2>2, <2>3
  <2> QED
    BY <2>4 DEF s, s2
<1>7. \A b \in Directories(d) : IsDir(d2[b]) /\ Len(d2[b].entries) <= DirCapacity
  <2>1. \A b \in Directories(d) \ {c} : IsDir(d2[b]) /\ Len(d2[b].entries) <= DirCapacity
    BY <1>3 DEF TreeRight
  <2>2. IsDir(d2[c]) /\ d2[c].entries = EntriesIn(d2, c)
    BY <1>3, <1>4 DEF IsDir, Dir, EntriesIn
  <2>3. Len(EntriesIn(d2, c)) = n + 1
    BY <1>4, <1>6, <1>1
  <2> QED
    BY <2>1, <2>2, <2>3, <1>1, Sizes
<1>8. Directories(d2) = Directories(d)
  <2> DEFINE r == EntriesIn(d, RootCluster)
             r2 == EntriesIn(d2, RootCluster)
  <2>0. RootCluster \in Directories(d)
    BY DirectoriesTyped
  <2>1. CASE c = RootCluster
    <3> HIDE DEF n
    <3>0. /\ DOMAIN r = 1 .. n /\ DOMAIN r2 = 1 .. n + 1 /\ n \in Nat
          /\ \A i \in 1 .. n : r2[i] = r[i]
          /\ r2[n + 1] = e
      BY <2>1, <1>6, <1>1
    <3> HIDE DEF r, r2
    <3>1. \A i \in DOMAIN r2 : r2[i].is_dir => i \in DOMAIN r /\ r2[i] = r[i]
      <4> SUFFICES ASSUME NEW i \in DOMAIN r2, r2[i].is_dir
                   PROVE  i \in DOMAIN r /\ r2[i] = r[i]
        OBVIOUS
      <4>1. i \in 1 .. n + 1 /\ i # n + 1
        BY <3>0
      <4> QED
        BY <4>1, <3>0
    <3>2. \A i \in DOMAIN r : i \in DOMAIN r2 /\ r2[i] = r[i]
      BY <3>0
    <3>3. {r2[i].cluster : i \in {j \in DOMAIN r2 : r2[j].is_dir}}
          = {r[i].cluster : i \in {j \in DOMAIN r : r[j].is_dir}}
      BY <3>1, <3>2
    <3> QED
      BY <3>3 DEF Directories, r, r2
  <2>2. CASE c # RootCluster
    BY <2>0, <2>2, <1>5 DEF Directories
  <2> QED
    BY <2>1, <2>2
<1>9. place \in Directories(d) \X (1 .. DirCapacity)
  BY <1>1, Sizes
<1>10. Places(d2) = Places(d) \cup {place} /\ place \notin Places(d)
  <2>1. place \notin Places(d)
    BY <1>6, <1>1 DEF Places
  <2>2. place \in Places(d2)
    BY <1>6, <1>1, <1>8, <1>9 DEF Places
  <2>3. ASSUME NEW f \in Places(d)
        PROVE  f \in Places(d2)
    <3>0. f \in Directories(d) \X (1 .. DirCapacity) /\ f[2] \in DOMAIN EntriesIn(d, f[1])
      BY DEF Places
    <3>1. f[2] \in DOMAIN EntriesIn(d2, f[1])
      <4>1. CASE f[1] = c
        BY <4>1, <3>0, <1>6, <1>1
      <4>2. CASE f[1] # c
        BY <4>2, <3>0, <1>5
      <4> QED
        BY <4>1, <4>2
    <3> QED
      BY <3>0, <3>1, <1>8 DEF Places
  <2>4. ASSUME NEW f \in Places(d2), f \notin Places(d)
        PROVE  f = place
    <3>1. f \in Directories(d) \X (1 .. DirCapacity) /\ f[2] \in DOMAIN EntriesIn(d2, f[1])
      BY <1>8 DEF Places
    <3>2. f[2] \notin DOMAIN EntriesIn(d, f[1])
      BY <3>1, <2>4 DEF Places
    <3>3. f[1] = c
      BY <3>1, <3>2, <1>5
    <3>4. f[2] = n + 1
      BY <3>1, <3>2, <3>3, <1>6, <1>1
    <3> QED
      BY <3>1, <3>3, <3>4
  <2> QED
    BY <2>1, <2>2, <2>3, <2>4
<1>11. EntryAt(d2, place) = e
  BY <1>6 DEF EntryAt
<1>12. Grows(d, d2)
  <2>1. DOMAIN EntriesIn(d, c) \subseteq DOMAIN EntriesIn(d2, c)
    BY <1>1, <1>6
  <2>2. \A i \in DOMAIN EntriesIn(d, c) : EntriesIn(d2, c)[i] = EntriesIn(d, c)[i]
    BY <1>6
  <2> HIDE DEF n
  <2> QED
    BY <2>1, <2>2, <1>5, <1>8 DEF Grows
<1>13. \A f \in Places(d) : EntryAt(d2, f) = EntryAt(d, f)
  BY <1>12, PlaceIs DEF EntryAt, Grows
<1> QED
  BY <1>7, <1>8, <1>10, <1>11, <1>12, <1>13 DEF Added, d2
-----------------------------------------------------------------------------
(* Looking up paths                                                        *)

\* What a look-up finds in a directory is an entry of that name at some place.
LEMMA Lookup ==
  ASSUME Typed(data), TreeRight(data), NEW c \in Directories(data), NEW name, Exists(c, name)
  PROVE  LET i == Least(Matches(c, name))
         IN  /\ i \in DOMAIN EntriesIn(data, c)
             /\ find_file(c, name) = EntriesIn(data, c)[i]
             /\ find_file(c, name).name = name
             /\ <<c, i>> \in Places(data)
             /\ EntryAt(data, <<c, i>>) = find_file(c, name)
             /\ find_file(c, name) \in Entries
<1> DEFINE i == Least(Matches(c, name))
<1>1. c \in Clusters
  BY DirectoriesTyped
<1>2. Matches(c, name) = {j \in DOMAIN EntriesIn(data, c) : EntriesIn(data, c)[j].name = name}
  BY DEF Matches, EntriesOf
<1>3. DOMAIN EntriesIn(data, c) \subseteq Nat
  BY <1>1, EntriesTyped, Elements
<1>4. i \in Matches(c, name)
  BY <1>2, <1>3, LeastIsIn DEF Exists
<1> HIDE DEF i
<1>5. i \in DOMAIN EntriesIn(data, c) /\ EntriesIn(data, c)[i].name = name
  BY <1>2, <1>4
<1>6. find_file(c, name) = EntriesIn(data, c)[i]
  BY DEF find_file, EntriesOf, i
<1>7. <<c, i>> \in Places(data) /\ EntryAt(data, <<c, i>>) = EntriesIn(data, c)[i]
      /\ EntriesIn(data, c)[i] \in Entries
  BY <1>5, PlaceOf
<1> QED
  BY <1>5, <1>6, <1>7 DEF i

\* The directory a path leads to is one of the directories.
LEMMA DirOfIsOne ==
  ASSUME Typed(data), TreeRight(data), NEW p, DirFound(p)
  PROVE  DirOf(p) \in Directories(data)
<1>1. RootCluster \in Directories(data)
  BY DirectoriesTyped
<1>2. CASE p.dir = NoDir
  BY <1>1, <1>2 DEF DirOf
<1>3. CASE p.dir # NoDir
  <2> DEFINE i == Least(Matches(RootCluster, p.dir))
  <2>1. Exists(RootCluster, p.dir) /\ find_file(RootCluster, p.dir).is_dir
    BY <1>3 DEF DirFound
  <2>2. i \in DOMAIN EntriesIn(data, RootCluster)
        /\ find_file(RootCluster, p.dir) = EntriesIn(data, RootCluster)[i]
    BY <1>1, <2>1, Lookup
  <2> HIDE DEF i
  <2>3. EntriesIn(data, RootCluster)[i].cluster \in Directories(data)
    BY <2>1, <2>2 DEF Directories
  <2> QED
    BY <2>2, <2>3, <1>3 DEF DirOf
<1> QED
  BY <1>2, <1>3

\* The file a path leads to: an entry of a directory.
LEMMA FileIsThere ==
  ASSUME Typed(data), TreeRight(data), NEW p, Found(p)
  PROVE  LET e == <<DirOf(p), Least(Matches(DirOf(p), p.name))>>
         IN  /\ e \in Places(data)
             /\ EntryAt(data, e) = FileAt(p)
             /\ FileAt(p).name = p.name
             /\ FileAt(p) \in Entries
<1>1. DirOf(p) \in Directories(data) /\ Exists(DirOf(p), p.name)
  BY DirOfIsOne DEF Found
<1> QED
  BY <1>1, Lookup DEF FileAt

\* The first match stays the first when entries are only appended.
LEMMA FirstStays ==
  ASSUME NEW d, NEW d2, Typed(d), Typed(d2), Grows(d, d2), NEW c \in Directories(d), NEW name,
         {i \in DOMAIN EntriesIn(d, c) : EntriesIn(d, c)[i].name = name} # {}
  PROVE  LET M == {i \in DOMAIN EntriesIn(d, c) : EntriesIn(d, c)[i].name = name}
             M2 == {i \in DOMAIN EntriesIn(d2, c) : EntriesIn(d2, c)[i].name = name}
         IN  M2 # {} /\ EntriesIn(d2, c)[Least(M2)] = EntriesIn(d, c)[Least(M)]
<1> DEFINE s == EntriesIn(d, c)
           s2 == EntriesIn(d2, c)
           M == {i \in DOMAIN s : s[i].name = name}
           M2 == {i \in DOMAIN s2 : s2[i].name = name}
           k == Least(M)
           k2 == Least(M2)
<1>1. c \in Clusters
  BY DirectoriesTyped
<1>2. s \in Seq(Entries) /\ s2 \in Seq(Entries)
  BY <1>1, EntriesTyped
<1>3. DOMAIN s \subseteq DOMAIN s2 /\ \A i \in DOMAIN s : s2[i] = s[i]
  BY DEF Grows
<1> HIDE DEF s, s2
<1>4. /\ DOMAIN s = 1 .. Len(s) /\ Len(s) \in Nat
      /\ DOMAIN s2 = 1 .. Len(s2) /\ Len(s2) \in Nat
  BY <1>2, Elements
<1>5. M # {} /\ M \subseteq Nat /\ M2 \subseteq Nat /\ M \subseteq M2
  BY <1>3, <1>4 DEF s
<1> HIDE DEF M, M2
<1>6. k \in M /\ k2 \in M2 /\ (\A j \in M : k <= j) /\ (\A j \in M2 : k2 <= j)
  BY <1>5, LeastIsIn
<1> HIDE DEF k, k2
<1>7. k2 <= k /\ k \in DOMAIN s /\ k2 \in DOMAIN s2
  BY <1>5, <1>6 DEF M, M2
<1>8. k2 \in DOMAIN s
  BY <1>7, <1>4
<1>9. k2 \in M
  BY <1>8, <1>6, <1>3 DEF M, M2
<1>10. k = k2
  BY <1>7, <1>9, <1>6, <1>5
<1>11. M2 # {} /\ s2[k2] = s[k]
  BY <1>5, <1>10, <1>8, <1>3
<1> QED
  BY <1>11 DEF k, k2, M, M2, s, s2

\* So every path leads where it led.
LEMMA PathsStay ==
  ASSUME Typed(data), Typed(data'), TreeRight(data), Grows(data, data'), NEW p, Found(p)
  PROVE  Found(p)' /\ FileAt(p)' = FileAt(p) /\ DirOf(p)' = DirOf(p)
<1>1. ASSUME NEW c \in Directories(data), NEW name, Exists(c, name)
      PROVE  Exists(c, name)' /\ find_file(c, name)' = find_file(c, name)
  BY <1>1, FirstStays DEF Exists, Matches, EntriesOf, find_file
<1>2. RootCluster \in Directories(data)
  BY DirectoriesTyped
<1>3. DirFound(p)' /\ DirOf(p)' = DirOf(p)
  <2>1. CASE p.dir = NoDir
    BY <2>1 DEF DirFound, DirOf
  <2>2. CASE p.dir # NoDir
    <3>1. Exists(RootCluster, p.dir) /\ find_file(RootCluster, p.dir).is_dir
      BY <2>2 DEF Found, DirFound
    <3>2. Exists(RootCluster, p.dir)' /\ find_file(RootCluster, p.dir)' = find_file(RootCluster, p.dir)
      BY <3>1, <1>1, <1>2
    <3> QED
      BY <3>1, <3>2, <2>2 DEF DirFound, DirOf
  <2> QED
    BY <2>1, <2>2
<1>4. DirOf(p) \in Directories(data) /\ Exists(DirOf(p), p.name)
  BY DirOfIsOne DEF Found
<1>5. PICK c : c = DirOf(p)
  OBVIOUS
<1>6. Exists(c, p.name)' /\ find_file(c, p.name)' = find_file(c, p.name)
  BY <1>1, <1>4, <1>5
<1>7. DirOf(p)' = c
  BY <1>3, <1>5
<1>8. Found(p)'
  BY <1>3, <1>6, <1>7 DEF Found, Exists, Matches, EntriesOf
<1>9. FileAt(p)' = find_file(c, p.name)'
  BY <1>7 DEF FileAt, find_file, Matches, EntriesOf
<1> QED
  BY <1>3, <1>5, <1>6, <1>8, <1>9 DEF FileAt
-----------------------------------------------------------------------------
(* Types                                                                   *)

TypeInv == FilesTypeOK /\ Typed(data)

\* A FAT entry is replaced by a cluster or the end of a chain.
LEMMA UpdateTyped ==
  ASSUME NEW t \in Tables, NEW c, NEW n \in Clusters \cup {EOC}
  PROVE  Updated(t, c, n) \in Tables
  BY DEF Updated, Tables

\* A handle that is given out is one of the table's.
LEMMA OpenTyped ==
  ASSUME NEW o, o \subseteq 1 .. MaxOpenFile
  PROVE  Open(o) \subseteq 1 .. MaxOpenFile
<1> DEFINE free == (1 .. MaxOpenFile) \ o
<1>1. CASE free = {}
  BY <1>1 DEF Open, find_free_handle
<1>2. CASE free # {}
  <2>1. Least(free) \in free
    BY <1>2, Sizes, LeastIsIn
  <2> QED
    BY <1>2, <2>1 DEF Open, find_free_handle
<1> QED
  BY <1>1, <1>2

\* A directory that gets an entry, or a text that gets one, is right again.
LEMMA AppendedTyped ==
  ASSUME Typed(data), NEW c, NEW e \in Entries
  PROVE  Typed([data EXCEPT ![c] = Appended(c, e)])
<1> DEFINE d2 == [data EXCEPT ![c] = Appended(c, e)]
<1>1. DOMAIN d2 = Clusters
  BY DEF Typed
<1>2. \A b \in Clusters : b # c => d2[b] = data[b]
  BY DEF Typed
<1>3. ASSUME c \in Clusters
      PROVE  d2[c].kind = "text" \/ IsDir(d2[c])
  <2>0. d2[c] = Appended(c, e)
    BY <1>3 DEF Typed
  <2>1. CASE data[c].kind = "dir"
    <3>1. data[c].entries \in Seq(Entries)
      BY <1>3, <2>1 DEF Typed, IsDir
    <3>2. Append(data[c].entries, e) \in Seq(Entries)
      BY <3>1, Appends
    <3> QED
      BY <2>0, <2>1, <3>2 DEF Appended, Dir, IsDir
  <2>2. CASE data[c].kind # "dir"
    BY <2>0, <2>2 DEF Appended, Junk, Text
  <2> QED
    BY <2>1, <2>2
<1> HIDE DEF d2
<1>4. Typed(d2)
  BY <1>1, <1>2, <1>3 DEF Typed
<1> QED
  BY <1>4 DEF d2

\* What touch does to the tables, the disk and the history.
LEMMA TouchDoes ==
  ASSUME TypeInv, NEW p \in Paths, Touch(p)
  PROVE  LET new == find_free_cluster(Fat)
             e == Entry(p.name, new.cluster, FALSE)
         IN  /\ table' = Updated(new.fat.table, new.cluster, EOC)
             /\ volume' \in {volume, table'} /\ wrote' = wrote
             /\ trouble \cup Scarce(new.cluster) \subseteq trouble'
             /\ e \in Entries /\ ~e.is_dir /\ e.cluster = new.cluster
             /\ \/ data' = data
                \/ /\ ~NoRoom(Parent(p))
                   /\ data' = [data EXCEPT ![Parent(p)] = Appended(Parent(p), e)]
                   /\ data[Parent(p)].kind = "text" => "into a file" \in trouble'
<1> DEFINE new == find_free_cluster(Fat)
<1>1. new.cluster \in Clusters
  BY FreeCluster
<1>2. p.name \in STRING
  BY FilesAssumption
<1> HIDE DEF new
<1>3. LET e == Entry(p.name, new.cluster, FALSE)
      IN  e \in Entries /\ ~e.is_dir /\ e.cluster = new.cluster
  BY <1>1, <1>2 DEF Entry, Entries
<1>4. /\ table' = Updated(new.fat.table, new.cluster, EOC)
      /\ volume' \in {volume, table'}
  <2>1. table' = FatWithFile(new).table /\ volume' = FatWithFile(new).volume
    BY DEF Touch, new
  <2>2. new.fat = [table |-> new.fat.table, volume |-> volume]
    BY FreeCluster DEF new
  <2>3. update_fat(new.fat, new.cluster, EOC) =
          [table |-> Updated(new.fat.table, new.cluster, EOC),
           volume |-> IF new.cluster = 0 THEN Updated(new.fat.table, new.cluster, EOC) ELSE volume]
    BY <2>2, UpdateFat
  <2> QED
    BY <2>1, <2>3 DEF FatWithFile
<1>5. wrote' = wrote /\ trouble \cup Scarce(new.cluster) \subseteq trouble'
  BY DEF Touch, new
<1>6. data[Parent(p)].kind = "text" => "into a file" \in trouble'
  BY DEF Touch
<1>7. \/ data' = data
      \/ /\ ~NoRoom(Parent(p))
         /\ data' = [data EXCEPT ![Parent(p)] = Appended(Parent(p), Entry(p.name, new.cluster, FALSE))]
  BY DEF Touch, new
<1> QED
  BY <1>3, <1>4, <1>5, <1>6, <1>7 DEF new

\* What write does to them.
LEMMA WriteDoes ==
  ASSUME TypeInv, NEW p \in Paths, NEW t \in Texts, Write(p, t)
  PROVE  LET c == FileAt(p).cluster
             new == find_free_cluster(Fat)
             t1 == Updated(new.fat.table, c, new.cluster)
         IN  /\ Found(p) /\ ~FileAt(p).is_dir
             /\ wrote' = [wrote EXCEPT ![p] = t]
             /\ data' = [data EXCEPT ![c] = Text(t)]
             /\ trouble \subseteq trouble'
             /\ \/ table' = table /\ volume' = volume
                \/ /\ next_cluster(table, c) = EOC
                   /\ table' = Updated(t1, new.cluster, EOC)
                   /\ \/ volume' \in {volume, table'}
                      \/ c = 0 /\ new.cluster # 0 /\ volume' = t1
                   /\ Scarce(new.cluster) \subseteq trouble'
<1> DEFINE c == FileAt(p).cluster
           new == find_free_cluster(Fat)
           t1 == Updated(new.fat.table, c, new.cluster)
<1>0. /\ Found(p) /\ ~FileAt(p).is_dir
      /\ wrote' = [wrote EXCEPT ![p] = t]
      /\ data' = [data EXCEPT ![c] = Text(t)]
      /\ trouble' = trouble \cup Scarce(Extended(c).cluster)
      /\ table' = Extended(c).fat.table /\ volume' = Extended(c).fat.volume
  BY DEF Write
<1>1. CASE next_cluster(table, c) # EOC
  BY <1>0, <1>1 DEF Extended, Fat
<1>2. CASE next_cluster(table, c) = EOC
  <2>1. new.fat = [table |-> new.fat.table, volume |-> volume]
    BY FreeCluster
  <2> HIDE DEF c, new
  <2>2. Extended(c) = [cluster |-> new.cluster,
                       fat |-> update_fat(update_fat(new.fat, c, new.cluster), new.cluster, EOC)]
    BY <1>2 DEF Extended, new
  <2>3. update_fat(new.fat, c, new.cluster) =
          [table |-> t1, volume |-> IF c = 0 THEN t1 ELSE volume]
    BY <2>1, UpdateFat
  <2> HIDE DEF t1
  <2> DEFINE v1 == IF c = 0 THEN t1 ELSE volume
  <2>4. update_fat(update_fat(new.fat, c, new.cluster), new.cluster, EOC) =
          [table |-> Updated(t1, new.cluster, EOC),
           volume |-> IF new.cluster = 0 THEN Updated(t1, new.cluster, EOC) ELSE v1]
    <3> HIDE DEF v1
    <3>1. update_fat([table |-> t1, volume |-> v1], new.cluster, EOC) =
            [table |-> Updated(t1, new.cluster, EOC),
             volume |-> IF new.cluster = 0 THEN Updated(t1, new.cluster, EOC) ELSE v1]
      BY UpdateFat
    <3> QED
      BY <3>1, <2>3 DEF v1
  <2>5. /\ table' = Updated(t1, new.cluster, EOC)
        /\ volume' = IF new.cluster = 0 THEN table' ELSE IF c = 0 THEN t1 ELSE volume
    BY <1>0, <2>2, <2>4
  <2> QED
    BY <1>0, <1>2, <2>2, <2>5 DEF c, new, t1
<1> QED
  BY <1>1, <1>2

\* The commands that change neither the tables nor the disk.
Quiet ==
  /\ volume' = volume /\ table' = table /\ data' = data /\ wrote' = wrote
  /\ trouble \subseteq trouble'

\* Reading, listing and the commands that fail write nothing.
LEMMA OthersAreQuiet ==
  ASSUME NEW p,
         \/ Ls(p) \/ CatMissing(p) \/ CatHangs(p) \/ CatEmpty(p) \/ CatText(p)
         \/ TouchExisting(p) \/ WriteMissing(p) \/ \E t \in Texts : WriteToStdin(p, t)
  PROVE  Quiet
<1>1. CASE Ls(p)
  BY <1>1 DEF Ls, Quiet
<1>2. CASE CatMissing(p)
  BY <1>2 DEF CatMissing, Quiet
<1>3. CASE CatHangs(p)
  BY <1>3 DEF CatHangs, Quiet
<1>4. CASE CatEmpty(p)
  BY <1>4 DEF CatEmpty, Quiet
<1>5. CASE CatText(p)
  BY <1>5 DEF CatText, Quiet
<1>6. CASE TouchExisting(p)
  BY <1>6 DEF TouchExisting, Quiet
<1>7. CASE WriteMissing(p)
  BY <1>7 DEF WriteMissing, Quiet
<1>8. CASE \E t \in Texts : WriteToStdin(p, t)
  BY <1>8 DEF WriteToStdin, Quiet
<1> QED
  BY <1>1, <1>2, <1>3, <1>4, <1>5, <1>6, <1>7, <1>8

\* The step of a command is quiet, a touch of a new file, or a write.
LEMMA CommandIs ==
  ASSUME NEW p \in Paths, Command(p)
  PROVE  Quiet \/ Touch(p) \/ \E t \in Texts : Write(p, t)
  BY OthersAreQuiet DEF Command
\* Every step keeps the open flags to the table and hung a truth value.
LEMMA HandlesKeep ==
  ASSUME opened \subseteq 1 .. MaxOpenFile, hung \in BOOLEAN, [Next]_vars
  PROVE  opened' \subseteq 1 .. MaxOpenFile /\ hung' \in BOOLEAN
<1>1. Open(opened) \subseteq 1 .. MaxOpenFile
  BY OpenTyped
<1>2. \A p : AfterParent(p) \subseteq 1 .. MaxOpenFile /\ Open(AfterParent(p)) \subseteq 1 .. MaxOpenFile
  BY <1>1, OpenTyped DEF AfterParent
<1>3. CASE UNCHANGED vars
  BY <1>3 DEF vars
<1>4. CASE Reboot
  BY <1>4 DEF Reboot, Done
<1>5. ASSUME NEW p \in Paths, Command(p)
      PROVE  opened' \subseteq 1 .. MaxOpenFile /\ hung' \in BOOLEAN
  <2>1. CASE Ls(p)
    BY <2>1, <1>1 DEF Ls, Done
  <2>2. CASE CatMissing(p)
    BY <2>2 DEF CatMissing, Shows
  <2>3. CASE CatHangs(p)
    BY <2>3, <1>1 DEF CatHangs
  <2>4. CASE CatEmpty(p)
    BY <2>4, <1>1 DEF CatEmpty, Shows
  <2>5. CASE CatText(p)
    BY <2>5 DEF CatText, Shows
  <2>6. CASE TouchExisting(p)
    BY <2>6, <1>1 DEF TouchExisting, Done
  <2>7. CASE Touch(p)
    BY <2>7, <1>2 DEF Touch, Done
  <2>8. CASE WriteMissing(p)
    BY <2>8 DEF WriteMissing, Done
  <2>9. CASE \E t \in Texts : WriteToStdin(p, t)
    BY <2>9 DEF WriteToStdin, Done
  <2>10. CASE \E t \in Texts : Write(p, t)
    BY <2>10, <1>1 DEF Write, Done
  <2> QED
    BY <1>5, <2>1, <2>2, <2>3, <2>4, <2>5, <2>6, <2>7, <2>8, <2>9, <2>10 DEF Command
<1> QED
  BY <1>3, <1>4, <1>5 DEF Next

\* A text written anywhere leaves every cluster a text or a directory.
LEMMA TextTyped ==
  ASSUME NEW d, Typed(d), NEW c, NEW t
  PROVE  Typed([d EXCEPT ![c] = Text(t)])
<1> DEFINE d2 == [d EXCEPT ![c] = Text(t)]
<1>1. DOMAIN d2 = Clusters /\ \A b \in Clusters : b # c => d2[b] = d[b]
  BY DEF Typed
<1>2. c \in Clusters => d2[c] = Text(t)
  BY DEF Typed
<1> HIDE DEF d2
<1>3. Typed(d2)
  BY <1>1, <1>2 DEF Typed, Text
<1> QED
  BY <1>3 DEF d2

\* The part of the types that the tables, the disk and the history have.
StateTyped ==
  /\ table \in Tables /\ volume \in Tables /\ Typed(data)
  /\ wrote \in [Paths -> Texts \cup {Nothing}]

\* Types are kept by every step.
LEMMA TypesKeep ==
  ASSUME TypeInv, [Next]_vars
  PROVE  TypeInv'
<1>0. /\ table \in Tables /\ volume \in Tables /\ Typed(data)
      /\ wrote \in [Paths -> Texts \cup {Nothing}]
      /\ opened \subseteq 1 .. MaxOpenFile /\ hung \in BOOLEAN
  BY DEF TypeInv, FilesTypeOK
<1>1. opened' \subseteq 1 .. MaxOpenFile /\ hung' \in BOOLEAN
  BY <1>0, HandlesKeep
<1>2. StateTyped'
  <2>1. CASE UNCHANGED vars
    BY <2>1, <1>0 DEF vars, StateTyped
  <2>2. CASE Reboot
    BY <2>2, <1>0 DEF Reboot, StateTyped
  <2>3. ASSUME NEW p \in Paths, Quiet
        PROVE  StateTyped'
    BY <2>3, <1>0 DEF Quiet, StateTyped
  <2>4. ASSUME NEW p \in Paths, Touch(p)
        PROVE  StateTyped'
    <3> DEFINE new == find_free_cluster(Fat)
               e == Entry(p.name, new.cluster, FALSE)
    <3>1. /\ table' = Updated(new.fat.table, new.cluster, EOC)
          /\ volume' \in {volume, table'} /\ wrote' = wrote /\ e \in Entries
          /\ \/ data' = data
             \/ data' = [data EXCEPT ![Parent(p)] = Appended(Parent(p), e)]
      BY <2>4, TouchDoes
    <3>2. new.fat.table \in {table, volume}
      BY FreeCluster
    <3> HIDE DEF new, e
    <3>3. table' \in Tables
      BY <3>1, <3>2, <1>0, UpdateTyped
    <3>4. Typed(data')
      <4>1. PICK q : q = Parent(p)
        OBVIOUS
      <4>2. Typed([data EXCEPT ![q] = Appended(q, e)])
        BY <3>1, <1>0, AppendedTyped
      <4> QED
        BY <4>1, <4>2, <3>1, <1>0
    <3> QED
      BY <3>1, <3>3, <3>4, <1>0 DEF StateTyped
  <2>5. ASSUME NEW p \in Paths, NEW t \in Texts, Write(p, t)
        PROVE  StateTyped'
    <3> DEFINE new == find_free_cluster(Fat)
               c == FileAt(p).cluster
    <3>1. /\ wrote' = [wrote EXCEPT ![p] = t]
          /\ data' = [data EXCEPT ![c] = Text(t)]
          /\ \/ table' = table /\ volume' = volume
             \/ /\ table' = Updated(Updated(new.fat.table, c, new.cluster), new.cluster, EOC)
                /\ \/ volume' \in {volume, table'}
                   \/ volume' = Updated(new.fat.table, c, new.cluster)
      BY <2>5, WriteDoes
    <3>2. new.fat.table \in {table, volume} /\ new.cluster \in Clusters
      BY FreeCluster
    <3> HIDE DEF new, c
    <3>3. table' \in Tables /\ volume' \in Tables
      BY <3>1, <3>2, <1>0, UpdateTyped
    <3>4. Typed(data')
      BY <3>1, <1>0, TextTyped
    <3>5. wrote' \in [Paths -> Texts \cup {Nothing}]
      BY <3>1, <1>0
    <3> QED
      BY <3>1, <3>3, <3>4, <3>5, <1>0 DEF StateTyped
  <2> QED
    BY <2>1, <2>2, <2>3, <2>4, <2>5, CommandIs DEF Next
<1>3. DOMAIN data' = Clusters /\ \A c \in Clusters : data'[c].kind \in {"dir", "text"}
  BY <1>2 DEF StateTyped, Typed, IsDir
<1> QED
  BY <1>1, <1>2, <1>3 DEF TypeInv, FilesTypeOK, StateTyped
-----------------------------------------------------------------------------
(* Names stay                                                              *)

\* The first two entries of a table, and those of directories, are in use.
Guarded(t, d) ==
  /\ t[0] # 0 /\ t[1] # 0
  /\ \A c \in Directories(d) : c < EntriesPerSector => t[c] # 0

\* As long as no cluster was taken where the scan rereads: the directories are
\* sound and no table gives their clusters to a file.
TreeInv ==
  "reread" \notin trouble =>
    TreeRight(data) /\ Guarded(table, data) /\ Guarded(volume, data)

\* A new file's cluster is 0 or one that was free, never a directory's.
LEMMA NewCluster ==
  ASSUME TypeInv, TreeRight(data), Guarded(table, data), Guarded(volume, data),
         "reread" \notin Scarce(find_free_cluster(Fat).cluster)
  PROVE  LET new == find_free_cluster(Fat)
         IN  /\ Guarded(new.fat.table, data)
             /\ new.cluster \in Clusters /\ new.cluster < EntriesPerSector /\ new.cluster # 1
             /\ new.cluster \notin Directories(data)
             /\ new.cluster # 0 => new.fat.table = table /\ table[new.cluster] = 0 /\ new.cluster >= 2
             /\ Scarce(new.cluster) = {} => new.cluster # 0
<1> DEFINE new == find_free_cluster(Fat)
           c == new.cluster
<1>1. /\ c \in Clusters /\ c # 1
      /\ new.fat.table \in {table, volume}
      /\ Scarce(c) = {} => new.fat.table = table
      /\ Scarce(c) = {} => c \in 2 .. EntriesPerSector - 1 /\ table[c] = 0
      /\ c \in {0} \cup 2 .. EntriesPerSector - 1
  BY FreeCluster DEF Guarded
<1> HIDE DEF new, c
<1>2. c # 0 => Scarce(c) = {}
  <2>1. c \in Nat
    BY <1>1
  <2> QED
    BY <2>1 DEF Scarce, c, new
<1>3. c \notin Directories(data)
  <2>1. CASE c = 0
    BY <2>1 DEF TreeRight, RootCluster
  <2>2. CASE c # 0
    BY <2>2, <1>1, <1>2, Sizes DEF Guarded
  <2> QED
    BY <2>1, <2>2
<1>4. Guarded(new.fat.table, data)
  BY <1>1
<1>5. c < EntriesPerSector /\ (c # 0 => c >= 2)
  BY <1>1, Sizes
<1> QED
  BY <1>1, <1>2, <1>3, <1>4, <1>5 DEF c, new

\* An entry of the first sector is set, unless it is one of those in use to 0.
LEMMA UpdateGuarded ==
  ASSUME NEW t \in Tables, NEW d, Guarded(t, d), NEW c \in Clusters, c < EntriesPerSector,
         NEW n, n # 0 \/ c \notin {0, 1} \cup Directories(d)
  PROVE  Guarded(Updated(t, c, n), d)
<1>1. c % EntriesPerSector = c /\ c \in 0 .. EntriesPerSector - 1
  BY Sizes, Offset DEF Clusters
<1>2. DOMAIN t = 0 .. EntriesPerSector - 1
  BY DEF Tables
<1>3. Updated(t, c, n) = [t EXCEPT ![c] = n]
  BY <1>1 DEF Updated
<1> DEFINE u == [t EXCEPT ![c] = n]
<1>4. u[c] = n /\ \A b : b # c => u[b] = t[b]
  BY <1>1, <1>2
<1> HIDE DEF u
<1>5. Guarded(u, d)
  BY <1>4 DEF Guarded
<1> QED
  BY <1>3, <1>5 DEF u

\* The same with the tree changed but not its directories.
LEMMA GuardedSame ==
  ASSUME NEW t, NEW d, NEW d2, Guarded(t, d), Directories(d2) = Directories(d)
  PROVE  Guarded(t, d2)
  BY DEF Guarded

\* Where touch puts the entry: a directory, or a file that starts elsewhere.
LEMMA ParentIs ==
  ASSUME TypeInv, TreeRight(data), NEW p
  PROVE  /\ Parent(p) \in Clusters
         /\ Parent(p) \in Directories(data) =>
              \A e : Appended(Parent(p), e) = Dir(Append(data[Parent(p)].entries, e))
<1>0. Typed(data) /\ RootCluster \in Directories(data) /\ Directories(data) \subseteq Clusters
  BY DirectoriesTyped DEF TypeInv
<1>1. Parent(p) \in Clusters
  <2>1. CASE ParentOpens(p)
    <3>1. find_file(RootCluster, p.dir) \in Entries
      BY <1>0, <2>1, Lookup DEF ParentOpens
    <3> QED
      BY <3>1, <2>1 DEF Parent, Entries
  <2>2. CASE ~ParentOpens(p)
    BY <2>2, <1>0 DEF Parent
  <2> QED
    BY <2>1, <2>2
<1>2. ASSUME NEW c \in Directories(data), NEW e
      PROVE  Appended(c, e) = Dir(Append(data[c].entries, e))
  BY DEF TreeRight, IsDir, Appended
<1> QED
  BY <1>1, <1>2

\* No entry changes, and at most one is new: it starts in cluster c.
NewPlace(c) ==
  /\ \A f \in Places(data) : EntryAt(data', f) = EntryAt(data, f)
  /\ \/ Places(data') = Places(data)
     \/ \E x : /\ x \notin Places(data) /\ Places(data') = Places(data) \cup {x}
               /\ EntryAt(data', x).cluster = c

\* Touch keeps the tree and lets it only grow.
LEMMA TouchKeepsTree ==
  ASSUME TypeInv, TreeRight(data), Guarded(table, data), Guarded(volume, data),
         NEW p \in Paths, Touch(p)
  PROVE  /\ Grows(data, data')
         /\ "reread" \notin trouble' => TreeRight(data')
         /\ NewPlace(find_free_cluster(Fat).cluster)
<1> DEFINE new == find_free_cluster(Fat)
           e == Entry(p.name, new.cluster, FALSE)
           c == Parent(p)
<1>1. /\ Scarce(new.cluster) \subseteq trouble'
      /\ e \in Entries /\ ~e.is_dir /\ e.cluster = new.cluster
      /\ \/ data' = data
         \/ ~NoRoom(c) /\ data' = [data EXCEPT ![c] = Appended(c, e)]
  BY TouchDoes
<1>2. Typed(data)
  BY DEF TypeInv
<1>3. "reread" \notin Scarce(new.cluster) =>
        new.cluster < EntriesPerSector /\ new.cluster # 1 /\ new.cluster \notin Directories(data)
  BY NewCluster
<1>4. c \in Clusters
      /\ (c \in Directories(data) => Appended(c, e) = Dir(Append(data[c].entries, e)))
  BY ParentIs
<1> HIDE DEF new, e, c
<1>5. CASE data' = data
  BY <1>5 DEF Grows, NewPlace
<1>6. CASE data' = [data EXCEPT ![c] = Appended(c, e)] /\ c \notin Directories(data)
  <2>0. PICK x : x = Appended(c, e)
    OBVIOUS
  <2>1. PICK b \in Clusters : b = c
    BY <1>4
  <2>2. Alike(data, data') /\ TreeRight(data')
    BY <2>0, <2>1, <1>6, <1>2, OutsideTheTree
  <2> QED
    BY <2>2 DEF Alike, NewPlace, new
<1>7. CASE ~NoRoom(c) /\ data' = [data EXCEPT ![c] = Appended(c, e)] /\ c \in Directories(data)
  <2>1. PICK b \in Directories(data) : b = c
    BY <1>7
  <2>2. ~(Len(data[b].entries) = DirCapacity)
    BY <1>7, <2>1 DEF NoRoom, TreeRight, IsDir
  <2>3. data' = [data EXCEPT ![b] = Dir(Append(data[b].entries, e))]
    BY <1>4, <1>7, <2>1
  <2> DEFINE place == <<b, Len(data[b].entries) + 1>>
  <2>4. /\ Directories(data') = Directories(data)
        /\ Places(data') = Places(data) \cup {place} /\ place \notin Places(data)
        /\ EntryAt(data', place) = e
        /\ \A f \in Places(data) : EntryAt(data', f) = EntryAt(data, f)
        /\ Grows(data, data')
        /\ \A a \in Directories(data) : IsDir(data'[a]) /\ Len(data'[a].entries) <= DirCapacity
    <3>1. Added(data, data', b, e)
      BY <2>2, <2>3, <1>1, <1>2, Appending
    <3> QED
      BY <3>1 DEF Added
  <2> HIDE DEF place
  <2>5. ASSUME "reread" \notin trouble'
        PROVE  TreeRight(data')
    <3>1. e.cluster < EntriesPerSector /\ e.cluster # 1 /\ e.cluster \notin Directories(data)
      BY <2>5, <1>1, <1>3
    <3>2. \A a \in Directories(data') :
            a >= RootCluster /\ IsDir(data'[a]) /\ Len(data'[a].entries) <= DirCapacity
      BY <2>4 DEF TreeRight
    <3>3. ASSUME NEW f \in Places(data')
          PROVE  /\ EntryAt(data', f).is_dir => EntryAt(data', f).cluster > RootCluster
                 /\ ~EntryAt(data', f).is_dir =>
                      /\ EntryAt(data', f).cluster < EntriesPerSector
                      /\ EntryAt(data', f).cluster # 1
                      /\ EntryAt(data', f).cluster \notin Directories(data')
      <4>1. CASE f = place
        BY <4>1, <3>1, <2>4, <1>1
      <4>2. CASE f \in Places(data)
        BY <4>2, <2>4 DEF TreeRight
      <4> QED
        BY <4>1, <4>2, <2>4
    <3> QED
      BY <3>2, <3>3 DEF TreeRight
  <2>6. NewPlace(new.cluster)
    BY <2>4, <1>1 DEF NewPlace
  <2> QED
    BY <2>4, <2>5, <2>6 DEF new
<1>8. TreeRight(data)
  OBVIOUS
<1> QED
  BY <1>1, <1>5, <1>6, <1>7, <1>8 DEF new
\* Write goes to a file's own cluster, which is no directory's.
LEMMA WriteKeepsTree ==
  ASSUME TypeInv, TreeRight(data), NEW p \in Paths, NEW t \in Texts, Write(p, t)
  PROVE  /\ Alike(data, data') /\ TreeRight(data')
         /\ FileAt(p).cluster \in Clusters \ (Directories(data) \cup {1})
         /\ FileAt(p).cluster < EntriesPerSector
<1>1. Typed(data) /\ Found(p) /\ ~FileAt(p).is_dir
      /\ data' = [data EXCEPT ![FileAt(p).cluster] = Text(t)]
  BY WriteDoes DEF TypeInv
<1>2. PICK e \in Places(data) : EntryAt(data, e) = FileAt(p)
  BY <1>1, FileIsThere
<1>3. FileAt(p) \in Entries
  BY <1>1, FileIsThere
<1>4. /\ FileAt(p).cluster < EntriesPerSector /\ FileAt(p).cluster # 1
      /\ FileAt(p).cluster \notin Directories(data)
  BY <1>1, <1>2 DEF TreeRight
<1>5. PICK c \in Clusters : c = FileAt(p).cluster
  BY <1>3 DEF Entries
<1>6. Alike(data, data') /\ TreeRight(data')
  BY <1>1, <1>4, <1>5, OutsideTheTree
<1> QED
  BY <1>4, <1>5, <1>6

\* The tables keep their guard when touch marks a cluster used.
LEMMA TouchKeepsGuard ==
  ASSUME TypeInv, TreeRight(data), Guarded(table, data), Guarded(volume, data),
         NEW p \in Paths, Touch(p), "reread" \notin trouble'
  PROVE  Guarded(table', data) /\ Guarded(volume', data)
<1> DEFINE new == find_free_cluster(Fat)
<1>1. /\ table' = Updated(new.fat.table, new.cluster, EOC) /\ volume' \in {volume, table'}
      /\ Scarce(new.cluster) \subseteq trouble'
  BY TouchDoes
<1>2. Guarded(new.fat.table, data) /\ new.cluster \in Clusters /\ new.cluster < EntriesPerSector
  BY <1>1, NewCluster
<1>3. new.fat.table \in Tables
  BY FreeCluster DEF TypeInv, FilesTypeOK
<1> HIDE DEF new
<1>4. EOC # 0
  BY DEF EOC
<1> QED
  BY <1>1, <1>2, <1>3, <1>4, UpdateGuarded

\* And when write adds a cluster: full, it may free the file's own one.
LEMMA WriteKeepsGuard ==
  ASSUME TypeInv, TreeRight(data), Guarded(table, data), Guarded(volume, data),
         NEW p \in Paths, NEW t \in Texts, Write(p, t), "reread" \notin trouble'
  PROVE  Guarded(table', data) /\ Guarded(volume', data)
<1> DEFINE new == find_free_cluster(Fat)
           c == FileAt(p).cluster
           t1 == Updated(new.fat.table, c, new.cluster)
<1>1. /\ c \in Clusters /\ c \notin Directories(data) /\ c # 1
      /\ c < EntriesPerSector
  BY WriteKeepsTree
<1>2. CASE table' = table /\ volume' = volume
  BY <1>2
<1>3. CASE /\ table' = Updated(t1, new.cluster, EOC)
           /\ volume' \in {volume, table'} \/ (c = 0 /\ new.cluster # 0 /\ volume' = t1)
           /\ Scarce(new.cluster) \subseteq trouble'
  <2>1. /\ Guarded(new.fat.table, data) /\ new.cluster \in Clusters
        /\ new.cluster < EntriesPerSector
    BY <1>3, NewCluster
  <2>2. new.fat.table \in Tables
    BY FreeCluster DEF TypeInv, FilesTypeOK
  <2> HIDE DEF new, c
  <2>3. t1 \in Tables
    BY <2>1, <2>2, UpdateTyped
  <2>4. EOC # 0
    BY DEF EOC
  <2>5. CASE c # 0
    <3>1. c \notin {0, 1} \cup Directories(data)
      BY <1>1, <2>5
    <3>2. Guarded(t1, data)
      BY <3>1, <1>1, <2>1, <2>2, UpdateGuarded
    <3> HIDE DEF t1
    <3> QED
      BY <3>2, <1>3, <2>1, <2>3, <2>4, UpdateGuarded
  <2>6. CASE c = 0 /\ new.cluster # 0
    <3>1. Guarded(t1, data)
      BY <2>6, <1>1, <2>1, <2>2, UpdateGuarded
    <3> HIDE DEF t1
    <3> QED
      BY <3>1, <1>3, <2>1, <2>3, <2>4, UpdateGuarded
  <2>7. CASE c = 0 /\ new.cluster = 0
    <3>1. 0 % EntriesPerSector = 0 /\ 0 \in 0 .. EntriesPerSector - 1
      BY Sizes, Offset
    <3>2. DOMAIN new.fat.table = 0 .. EntriesPerSector - 1
      BY <2>2 DEF Tables
    <3>3. table' = Updated(new.fat.table, 0, EOC)
      BY <1>3, <2>7, <3>1, <3>2 DEF Updated
    <3>4. 0 \in Clusters /\ 0 < EntriesPerSector
      BY <2>1, <2>7
    <3> QED
      BY <1>3, <2>7, <3>3, <3>4, <2>1, <2>2, <2>4, UpdateGuarded
  <2> QED
    BY <2>5, <2>6, <2>7
<1> QED
  BY <1>2, <1>3, WriteDoes

\* The directories' soundness is kept by every step.
LEMMA TreeKeeps ==
  ASSUME TypeInv, TreeInv, [Next]_vars
  PROVE  TreeInv'
<1> SUFFICES ASSUME "reread" \notin trouble'
             PROVE  TreeRight(data') /\ Guarded(table', data') /\ Guarded(volume', data')
  BY DEF TreeInv
<1>1. CASE UNCHANGED vars
  BY <1>1 DEF vars, TreeInv
<1>2. CASE Reboot
  BY <1>2 DEF Reboot, TreeInv
<1>3. ASSUME NEW p \in Paths, Quiet
      PROVE  TreeRight(data') /\ Guarded(table', data') /\ Guarded(volume', data')
  BY <1>3 DEF Quiet, TreeInv
<1>4. ASSUME NEW p \in Paths, Touch(p)
      PROVE  TreeRight(data') /\ Guarded(table', data') /\ Guarded(volume', data')
  <2>1. trouble \subseteq trouble'
    BY <1>4, TouchDoes
  <2>2. TreeRight(data) /\ Guarded(table, data) /\ Guarded(volume, data)
    BY <2>1 DEF TreeInv
  <2>3. TreeRight(data') /\ Directories(data') = Directories(data)
    BY <1>4, <2>2, TouchKeepsTree DEF Grows
  <2>4. Guarded(table', data) /\ Guarded(volume', data)
    BY <1>4, <2>2, TouchKeepsGuard
  <2> QED
    BY <2>1, <2>2, <2>3, <2>4, GuardedSame
<1>5. ASSUME NEW p \in Paths, NEW t \in Texts, Write(p, t)
      PROVE  TreeRight(data') /\ Guarded(table', data') /\ Guarded(volume', data')
  <2>1. trouble \subseteq trouble'
    BY <1>5, WriteDoes
  <2>2. TreeRight(data) /\ Guarded(table, data) /\ Guarded(volume, data)
    BY <2>1 DEF TreeInv
  <2>3. TreeRight(data') /\ Directories(data') = Directories(data)
    BY <1>5, <2>2, WriteKeepsTree DEF Alike
  <2>4. Guarded(table', data) /\ Guarded(volume', data)
    BY <1>5, <2>2, WriteKeepsGuard
  <2> QED
    BY <2>1, <2>2, <2>3, <2>4, GuardedSame
<1> QED
  BY <1>1, <1>2, <1>3, <1>4, <1>5, CommandIs DEF Next

\* No step changes the directories but by adding entries.
LEMMA StepGrows ==
  ASSUME TypeInv, TreeRight(data), Guarded(table, data), Guarded(volume, data), [Next]_vars
  PROVE  Grows(data, data')
<1>1. CASE data' = data
  BY <1>1 DEF Grows
<1>2. ASSUME NEW p \in Paths, Touch(p)
      PROVE  Grows(data, data')
  BY <1>2, TouchKeepsTree
<1>3. ASSUME NEW p \in Paths, NEW t \in Texts, Write(p, t)
      PROVE  Grows(data, data')
  BY <1>3, WriteKeepsTree DEF Alike
<1> QED
  BY <1>1, <1>2, <1>3, CommandIs DEF Next, vars, Reboot, Quiet
-----------------------------------------------------------------------------
(* Chains stay apart                                                       *)

\* ChainsApart with its last part said of entries and of next clusters.
LEMMA ApartMeans ==
  ASSUME NEW t, NEW d
  PROVE  ChainsApart(t, d) <=>
           /\ \A e, f \in Places(d) : e # f => EntryAt(d, e).cluster # EntryAt(d, f).cluster
           /\ \A b, c \in Linked(t) : b # c => t[b] # t[c]
           /\ \A c \in Linked(t), e \in Places(d) : t[c] # EntryAt(d, e).cluster
           /\ \A e \in Places(d) :
                EntryAt(d, e).cluster < EntriesPerSector => t[EntryAt(d, e).cluster] # 0
           /\ \A b \in Linked(t) : t[b] < EntriesPerSector => t[t[b]] # 0
  BY DEF ChainsApart

\* A cluster that was free becomes the first and last of a new chain.
LEMMA NewChain ==
  ASSUME NEW t \in Tables, ChainsApart(t, data),
         NEW k \in 2 .. EntriesPerSector - 1, t[k] = 0, NewPlace(k)
  PROVE  ChainsApart(Updated(t, k, EOC), data')
<1> DEFINE u == Updated(t, k, EOC)
           Old == Places(data)
<1>1. k % EntriesPerSector = k /\ DOMAIN t = 0 .. EntriesPerSector - 1
  BY Sizes, Offset DEF Tables
<1>2. DOMAIN u = DOMAIN t /\ u[k] = EOC /\ \A b : b # k => u[b] = t[b]
  BY <1>1, Sizes DEF Updated
<1> HIDE DEF u
<1>3. /\ \A e, f \in Old : e # f => EntryAt(data, e).cluster # EntryAt(data, f).cluster
      /\ \A b, c \in Linked(t) : b # c => t[b] # t[c]
      /\ \A c \in Linked(t), e \in Old : t[c] # EntryAt(data, e).cluster
      /\ \A e \in Old :
           EntryAt(data, e).cluster < EntriesPerSector => t[EntryAt(data, e).cluster] # 0
      /\ \A b \in Linked(t) : t[b] < EntriesPerSector => t[t[b]] # 0
  BY ApartMeans
<1>4. \A b \in Linked(u) : b \in Linked(t) /\ b # k /\ u[b] = t[b]
  BY <1>2 DEF Linked, EOC
<1>5. EOC # 0 /\ k < EntriesPerSector
  BY Sizes DEF EOC
<1>6. \A e \in Old : EntryAt(data, e).cluster # k
  BY <1>3, <1>5
<1>7. \A b \in Linked(t) : t[b] # k
  BY <1>3, <1>5
<1>8. /\ \A f \in Old : f \in Places(data') /\ EntryAt(data', f) = EntryAt(data, f)
      /\ \A f \in Places(data') : f \notin Old => EntryAt(data', f).cluster = k
      /\ \A e, f \in Places(data') : e \notin Old /\ f \notin Old => e = f
  BY DEF NewPlace
<1>9. \A e, f \in Places(data') : e # f => EntryAt(data', e).cluster # EntryAt(data', f).cluster
  <2> SUFFICES ASSUME NEW e \in Places(data'), NEW f \in Places(data'), e # f
               PROVE  EntryAt(data', e).cluster # EntryAt(data', f).cluster
    OBVIOUS
  <2>1. CASE e \in Old /\ f \in Old
    BY <2>1, <1>3, <1>8
  <2>2. CASE e \in Old /\ f \notin Old
    BY <2>2, <1>6, <1>8
  <2>3. CASE e \notin Old /\ f \in Old
    BY <2>3, <1>6, <1>8
  <2>4. CASE e \notin Old /\ f \notin Old
    BY <2>4, <1>8
  <2> QED
    BY <2>1, <2>2, <2>3, <2>4
<1>10. \A b, c \in Linked(u) : b # c => u[b] # u[c]
  BY <1>3, <1>4
<1>11. \A c \in Linked(u), e \in Places(data') : u[c] # EntryAt(data', e).cluster
  BY <1>3, <1>4, <1>7, <1>8
<1>12. \A e \in Places(data') :
         EntryAt(data', e).cluster < EntriesPerSector => u[EntryAt(data', e).cluster] # 0
  BY <1>2, <1>3, <1>5, <1>8
<1>13. \A b \in Linked(u) : u[b] < EntriesPerSector => u[u[b]] # 0
  BY <1>2, <1>3, <1>4, <1>5
<1>14. ChainsApart(u, data')
  BY <1>9, <1>10, <1>11, <1>12, <1>13, ApartMeans
<1> QED
  BY <1>14 DEF u

\* A cluster that was free becomes the last of the chain that ended in c.
LEMMA LongerChain ==
  ASSUME NEW t \in Tables, NEW d, ChainsApart(t, d),
         NEW c \in 0 .. EntriesPerSector - 1, t[c] = EOC,
         NEW k \in 2 .. EntriesPerSector - 1, t[k] = 0
  PROVE  ChainsApart(Updated(Updated(t, c, k), k, EOC), d)
<1> DEFINE u == Updated(Updated(t, c, k), k, EOC)
<1>1. /\ k % EntriesPerSector = k /\ c % EntriesPerSector = c
      /\ DOMAIN t = 0 .. EntriesPerSector - 1
  BY Sizes, Offset DEF Tables
<1>2. c # k /\ EOC # 0 /\ k < EntriesPerSector
  BY Sizes DEF EOC
<1>3. DOMAIN u = DOMAIN t /\ u[k] = EOC /\ u[c] = k /\ \A b : b \notin {c, k} => u[b] = t[b]
  <2> DEFINE w == [t EXCEPT ![c] = k]
  <2>1. u = [w EXCEPT ![k] = EOC]
    BY <1>1 DEF Updated
  <2>2. DOMAIN w = DOMAIN t /\ w[c] = k /\ \A b : b # c => w[b] = t[b]
    BY <1>1
  <2> HIDE DEF u, w
  <2>3. k \in DOMAIN w
    BY <2>2, <1>1, Sizes
  <2> QED
    BY <2>1, <2>2, <2>3, <1>2
<1> HIDE DEF u
<1>4. /\ \A e, f \in Places(d) : e # f => EntryAt(d, e).cluster # EntryAt(d, f).cluster
      /\ \A a, b \in Linked(t) : a # b => t[a] # t[b]
      /\ \A b \in Linked(t), e \in Places(d) : t[b] # EntryAt(d, e).cluster
      /\ \A e \in Places(d) :
           EntryAt(d, e).cluster < EntriesPerSector => t[EntryAt(d, e).cluster] # 0
      /\ \A b \in Linked(t) : t[b] < EntriesPerSector => t[t[b]] # 0
  BY ApartMeans
<1>5. \A b \in Linked(u) : b = c \/ (b \in Linked(t) /\ u[b] = t[b])
  BY <1>3 DEF Linked, EOC
<1>6. \A e \in Places(d) : EntryAt(d, e).cluster # k
  BY <1>4, <1>2
<1>7. \A b \in Linked(t) : t[b] # k
  BY <1>4, <1>2
<1>8. \A a, b \in Linked(u) : a # b => u[a] # u[b]
  BY <1>3, <1>4, <1>5, <1>7
<1>9. \A b \in Linked(u), e \in Places(d) : u[b] # EntryAt(d, e).cluster
  BY <1>3, <1>4, <1>5, <1>6
<1>10. \A b : t[b] # 0 => u[b] # 0
  BY <1>2, <1>3
<1>11. \A e \in Places(d) : EntryAt(d, e).cluster < EntriesPerSector => u[EntryAt(d, e).cluster] # 0
  BY <1>4, <1>10
<1>12. \A b \in Linked(u) : u[b] < EntriesPerSector => u[u[b]] # 0
  BY <1>2, <1>3, <1>4, <1>5, <1>10
<1>13. ChainsApart(u, d)
  BY <1>4, <1>8, <1>9, <1>11, <1>12, ApartMeans
<1> QED
  BY <1>13 DEF u

\* The same disk for the table, as far as chains go.
LEMMA ApartSame ==
  ASSUME NEW t, NEW d, NEW d2, ChainsApart(t, d), Alike(d, d2)
  PROVE  ChainsApart(t, d2)
  BY ApartMeans DEF Alike

\* No step makes two chains meet, but for the failures that are named.
LEMMA ChainsKeep ==
  ASSUME TypeInv, TreeInv, NoCrossLinks, [Next]_vars
  PROVE  NoCrossLinks'
<1> SUFFICES ASSUME trouble' \cap {"full", "reread", "reboot"} = {}
             PROVE  ChainsApart(table', data')
  BY DEF NoCrossLinks
<1> DEFINE new == find_free_cluster(Fat)
<1>0. table \in Tables
  BY DEF TypeInv, FilesTypeOK
<1>1. ASSUME trouble \subseteq trouble'
      PROVE  ChainsApart(table, data)
             /\ TreeRight(data) /\ Guarded(table, data) /\ Guarded(volume, data)
  BY <1>1 DEF NoCrossLinks, TreeInv
<1>2. CASE UNCHANGED vars
  BY <1>2, <1>1 DEF vars
<1>3. CASE Reboot
  <2>1. trouble \subseteq trouble' /\ table' = volume /\ data' = data
        /\ (table # volume => "reboot" \in trouble')
    BY <1>3 DEF Reboot
  <2> QED
    BY <2>1, <1>1
<1>4. CASE Quiet
  BY <1>4, <1>1 DEF Quiet
<1>5. ASSUME Scarce(new.cluster) \subseteq trouble', trouble \subseteq trouble'
      PROVE  new.fat.table = table /\ table[new.cluster] = 0 /\ new.cluster \in 2 .. EntriesPerSector - 1
  <2>1. Scarce(new.cluster) = {}
    BY <1>5 DEF Scarce
  <2>2. table[0] # 0 /\ table[1] # 0
    BY <1>1, <1>5 DEF Guarded
  <2> QED
    BY <2>1, <2>2, FreeCluster
<1>6. ASSUME NEW p \in Paths, Touch(p)
      PROVE  ChainsApart(table', data')
  <2>1. table' = Updated(new.fat.table, new.cluster, EOC)
        /\ trouble \cup Scarce(new.cluster) \subseteq trouble'
    BY <1>6, TouchDoes
  <2>2. NewPlace(new.cluster)
    BY <1>6, <2>1, <1>1, TouchKeepsTree
  <2>3. new.fat.table = table /\ table[new.cluster] = 0 /\ new.cluster \in 2 .. EntriesPerSector - 1
    BY <2>1, <1>5
  <2>4. ChainsApart(table, data)
    BY <2>1, <1>1
  <2> HIDE DEF new
  <2> QED
    BY <2>1, <2>2, <2>3, <2>4, <1>0, NewChain
<1>7. ASSUME NEW p \in Paths, NEW t \in Texts, Write(p, t)
      PROVE  ChainsApart(table', data')
  <2> DEFINE c == FileAt(p).cluster
  <2>1. /\ trouble \subseteq trouble'
        /\ \/ table' = table
           \/ /\ next_cluster(table, c) = EOC
              /\ table' = Updated(Updated(new.fat.table, c, new.cluster), new.cluster, EOC)
              /\ Scarce(new.cluster) \subseteq trouble'
    BY <1>7, WriteDoes
  <2>2. ChainsApart(table, data) /\ Alike(data, data')
        /\ c \in Clusters /\ c < EntriesPerSector
    BY <1>7, <2>1, <1>1, WriteKeepsTree
  <2> HIDE DEF new, c
  <2>3. CASE table' = table
    BY <2>2, <2>3, ApartSame
  <2>4. CASE /\ next_cluster(table, c) = EOC
             /\ table' = Updated(Updated(new.fat.table, c, new.cluster), new.cluster, EOC)
             /\ Scarce(new.cluster) \subseteq trouble'
    <3>1. new.fat.table = table /\ table[new.cluster] = 0 /\ new.cluster \in 2 .. EntriesPerSector - 1
      BY <2>1, <2>4, <1>5
    <3>2. c \in 0 .. EntriesPerSector - 1 /\ c % EntriesPerSector = c
      BY <2>2, Sizes, Offset DEF Clusters
    <3>3. table[c] = EOC
      BY <3>2, <2>4 DEF next_cluster
    <3>4. ChainsApart(table', data)
      BY <3>1, <3>2, <3>3, <2>2, <2>4, <1>0, LongerChain
    <3> QED
      BY <3>4, <2>2, ApartSame
  <2> QED
    BY <2>1, <2>3, <2>4
<1> QED
  BY <1>2, <1>3, <1>4, <1>6, <1>7, CommandIs DEF Next
-----------------------------------------------------------------------------
(* What was written is there                                               *)

\* Outside the failures that reach a file's text, each path that was written to
\* leads to a file, and its cluster holds what was written last.
WroteInv ==
  trouble \cap {"full", "reread", "reboot", "into a file"} = {} =>
    \A p \in Paths : wrote[p] # Nothing =>
      Found(p) /\ ~FileAt(p).is_dir /\ data[FileAt(p).cluster] = Text(wrote[p])

\* Two paths that lead to the same cluster are the same path: the clusters tell
\* the entries apart, so their directories' entries and names are the same.
LEMMA PathsApart ==
  ASSUME TypeInv, TreeRight(data), ChainsApart(table, data),
         NEW p \in Paths, NEW q \in Paths, Found(p), Found(q),
         FileAt(p).cluster = FileAt(q).cluster
  PROVE  p = q
<1>0. Typed(data) /\ RootCluster \in Directories(data)
  BY DirectoriesTyped DEF TypeInv
<1>1. \A e, f \in Places(data) : EntryAt(data, e).cluster = EntryAt(data, f).cluster => e = f
  BY ApartMeans
<1> DEFINE i == Least(Matches(DirOf(p), p.name))
           j == Least(Matches(DirOf(q), q.name))
<1>2. /\ <<DirOf(p), i>> \in Places(data) /\ EntryAt(data, <<DirOf(p), i>>) = FileAt(p)
      /\ <<DirOf(q), j>> \in Places(data) /\ EntryAt(data, <<DirOf(q), j>>) = FileAt(q)
      /\ FileAt(p).name = p.name /\ FileAt(q).name = q.name
  BY <1>0, FileIsThere
<1> HIDE DEF i, j
<1>3. <<DirOf(p), i>> = <<DirOf(q), j>>
  BY <1>1, <1>2
<1>4. DirOf(p) = DirOf(q) /\ p.name = q.name
  BY <1>2, <1>3
<1>5. ASSUME NEW r \in {p, q}, r.dir # NoDir
      PROVE  LET k == Least(Matches(RootCluster, r.dir))
             IN  /\ <<RootCluster, k>> \in Places(data)
                 /\ EntryAt(data, <<RootCluster, k>>).cluster = DirOf(r)
                 /\ EntryAt(data, <<RootCluster, k>>).name = r.dir
                 /\ DirOf(r) > RootCluster
  <2>1. Exists(RootCluster, r.dir) /\ find_file(RootCluster, r.dir).is_dir
    BY <1>5 DEF Found, DirFound
  <2> DEFINE k == Least(Matches(RootCluster, r.dir))
  <2>2. /\ <<RootCluster, k>> \in Places(data)
        /\ EntryAt(data, <<RootCluster, k>>) = find_file(RootCluster, r.dir)
        /\ find_file(RootCluster, r.dir).name = r.dir
    BY <1>0, <2>1, Lookup
  <2> HIDE DEF k
  <2>3. DirOf(r) = find_file(RootCluster, r.dir).cluster
    BY <1>5 DEF DirOf
  <2>4. DirOf(r) > RootCluster
    BY <2>1, <2>2, <2>3 DEF TreeRight
  <2> QED
    BY <2>2, <2>3, <2>4 DEF k
<1>6. p.dir = q.dir
  <2>1. CASE p.dir # NoDir /\ q.dir # NoDir
    <3> DEFINE k == Least(Matches(RootCluster, p.dir))
               l == Least(Matches(RootCluster, q.dir))
    <3>1. /\ <<RootCluster, k>> \in Places(data)
          /\ EntryAt(data, <<RootCluster, k>>).cluster = DirOf(p)
          /\ EntryAt(data, <<RootCluster, k>>).name = p.dir
      BY <2>1, <1>5
    <3>2. /\ <<RootCluster, l>> \in Places(data)
          /\ EntryAt(data, <<RootCluster, l>>).cluster = DirOf(q)
          /\ EntryAt(data, <<RootCluster, l>>).name = q.dir
      BY <2>1, <1>5
    <3> HIDE DEF k, l
    <3>3. <<RootCluster, k>> = <<RootCluster, l>>
      BY <3>1, <3>2, <1>1, <1>4
    <3> QED
      BY <3>1, <3>2, <3>3
  <2>2. CASE p.dir = NoDir /\ q.dir # NoDir
    <3>1. DirOf(q) > RootCluster
      BY <2>2, <1>5
    <3>2. DirOf(p) = RootCluster
      BY <2>2 DEF DirOf
    <3> QED
      BY <3>1, <3>2, <1>4 DEF RootCluster
  <2>3. CASE p.dir # NoDir /\ q.dir = NoDir
    <3>1. DirOf(p) > RootCluster
      BY <2>3, <1>5
    <3>2. DirOf(q) = RootCluster
      BY <2>3 DEF DirOf
    <3> QED
      BY <3>1, <3>2, <1>4 DEF RootCluster
  <2>4. CASE p.dir = NoDir /\ q.dir = NoDir
    BY <2>4
  <2> QED
    BY <2>1, <2>2, <2>3, <2>4
<1>7. p \in [dir : STRING, name : STRING] /\ q \in [dir : STRING, name : STRING]
  BY FilesAssumption
<1> QED
  BY <1>4, <1>6, <1>7

\* What was written stays where it is until it is written again.
LEMMA WroteKeeps ==
  ASSUME TypeInv, TreeInv, NoCrossLinks, WroteInv, [Next]_vars
  PROVE  WroteInv'
<1> SUFFICES ASSUME trouble' \cap {"full", "reread", "reboot", "into a file"} = {},
                    NEW p \in Paths, wrote'[p] # Nothing
             PROVE  Found(p)' /\ ~FileAt(p)'.is_dir /\ data'[FileAt(p)'.cluster] = Text(wrote'[p])
  BY DEF WroteInv
<1> DEFINE Right == Found(p) /\ ~FileAt(p).is_dir /\ data[FileAt(p).cluster] = Text(wrote[p])
<1>0. Typed(data) /\ Typed(data') /\ wrote \in [Paths -> Texts \cup {Nothing}]
  BY TypesKeep DEF TypeInv, FilesTypeOK
<1>1. ASSUME trouble \subseteq trouble'
      PROVE  /\ ChainsApart(table, data)
             /\ TreeRight(data) /\ Guarded(table, data) /\ Guarded(volume, data)
             /\ wrote[p] # Nothing => Right
  BY <1>1 DEF NoCrossLinks, TreeInv, WroteInv
<1>2. ASSUME data' = data, wrote' = wrote, trouble \subseteq trouble'
      PROVE  Right'
  <2>1. Right
    BY <1>1, <1>2
  <2>2. Found(p)' /\ FileAt(p)' = FileAt(p)
    BY <2>1, <1>2, <1>1, <1>0, PathsStay DEF Grows
  <2> QED
    BY <2>1, <2>2, <1>2
<1>3. ASSUME NEW q \in Paths, Touch(q)
      PROVE  Right'
  <2> DEFINE c == FileAt(p).cluster
             a == Parent(q)
  <2>1. /\ wrote' = wrote /\ trouble \subseteq trouble'
        /\ \/ data' = data
           \/ \E x : data' = [data EXCEPT ![a] = x] /\ (data[a].kind = "text" => "into a file" \in trouble')
    BY <1>3, TouchDoes
  <2>2. Right /\ Grows(data, data') /\ TreeRight(data)
    BY <1>3, <2>1, <1>1, TouchKeepsTree
  <2>3. Found(p)' /\ FileAt(p)' = FileAt(p)
    BY <2>2, <1>0, PathsStay
  <2>3a. data[c] = Text(wrote[p]) /\ FileAt(p) \in Entries
    BY <2>2, <1>0, FileIsThere
  <2>3b. c \in Clusters
    BY <2>3a DEF Entries
  <2> HIDE DEF c, a
  <2>3c. Text(wrote[p]).kind = "text"
    BY DEF Text
  <2>4. data[c].kind = "text"
    BY <2>3a, <2>3c
  <2>5. data'[c] = data[c]
    BY <2>1, <2>3b, <2>4, <1>0 DEF Typed
  <2> QED
    BY <2>1, <2>2, <2>3, <2>5 DEF c
<1>4. ASSUME NEW q \in Paths, NEW t \in Texts, Write(q, t)
      PROVE  Right'
  <2> DEFINE c == FileAt(p).cluster
             b == FileAt(q).cluster
  <2>1. /\ Found(q) /\ ~FileAt(q).is_dir
        /\ wrote' = [wrote EXCEPT ![q] = t] /\ trouble \subseteq trouble'
        /\ data' = [data EXCEPT ![b] = Text(t)]
    BY <1>4, WriteDoes
  <2>2. /\ TreeRight(data) /\ ChainsApart(table, data)
        /\ wrote[p] # Nothing => Right
    BY <2>1, <1>1
  <2>3. Grows(data, data') /\ b \in Clusters
    BY <1>4, <2>2, WriteKeepsTree DEF Alike
  <2>4. CASE p = q
    <3>1. Found(p)' /\ FileAt(p)' = FileAt(p)
      BY <2>1, <2>2, <2>3, <2>4, <1>0, PathsStay
    <3>2. wrote'[p] = t /\ data'[b] = Text(t)
      BY <2>1, <2>3, <2>4, <1>0 DEF Typed
    <3> QED
      BY <3>1, <3>2, <2>1, <2>4
  <2>5. CASE p # q
    <3>1. wrote'[p] = wrote[p]
      BY <2>1, <2>5, <1>0
    <3>2. Right
      BY <3>1, <2>2
    <3>3. Found(p)' /\ FileAt(p)' = FileAt(p)
      BY <3>2, <2>2, <2>3, <1>0, PathsStay
    <3>4. c # b
      BY <3>2, <2>1, <2>2, <2>5, PathsApart
    <3>4a. FileAt(p) \in Entries
      BY <3>2, <2>2, <1>0, FileIsThere
    <3>4b. c \in Clusters
      BY <3>4a DEF Entries
    <3> HIDE DEF b, c
    <3>5. data'[c] = data[c]
      BY <2>1, <3>4, <3>4b, <1>0 DEF Typed
    <3> QED
      BY <3>1, <3>2, <3>3, <3>5 DEF c
  <2> QED
    BY <2>4, <2>5
<1>5. CASE UNCHANGED vars
  BY <1>5, <1>2 DEF vars
<1>6. CASE Reboot
  BY <1>6, <1>2 DEF Reboot
<1>7. CASE Quiet
  BY <1>7, <1>2 DEF Quiet
<1> QED
  BY <1>3, <1>4, <1>5, <1>6, <1>7, CommandIs DEF Next
\* cat shows the text of the file's cluster.
LEMMA CatKeeps ==
  ASSUME TypeInv, WroteInv, CatShowsLastWrite, [Next]_vars
  PROVE  CatShowsLastWrite'
<1> SUFFICES ASSUME last' # NoCat, wrote'[last'.path] # Nothing,
                    trouble' \cap {"exhausted", "full", "reread", "reboot", "into a file"} = {}
             PROVE  last'.out = Text(wrote'[last'.path])
  BY DEF CatShowsLastWrite
<1>1. ASSUME last' = last, wrote' = wrote, trouble \subseteq trouble'
      PROVE  last'.out = Text(wrote'[last'.path])
  BY <1>1 DEF CatShowsLastWrite
<1>2. ASSUME Done
      PROVE  FALSE
  BY <1>2 DEF Done
<1>3. ASSUME NEW p \in Paths, NEW out, NEW after, Shows(p, out, after), wrote' = wrote, trouble \subseteq trouble'
      PROVE  /\ last'.path = p /\ last'.out = out /\ wrote'[last'.path] = wrote[p]
             /\ Found(p) /\ ~FileAt(p).is_dir /\ data[FileAt(p).cluster] = Text(wrote[p])
             /\ wrote[p] \in Texts
  <2>1. last'.path = p /\ last'.out = out
    BY <1>3 DEF Shows
  <2>2. wrote'[last'.path] = wrote[p] /\ wrote[p] # Nothing
    BY <2>1, <1>3
  <2>3. wrote[p] \in Texts
    BY <2>2 DEF TypeInv, FilesTypeOK
  <2> QED
    BY <2>1, <2>2, <2>3, <1>3 DEF WroteInv
<1>4. CASE UNCHANGED vars
  BY <1>4, <1>1 DEF vars
<1>5. CASE Reboot
  BY <1>5, <1>2 DEF Reboot
<1>6. ASSUME NEW p \in Paths, Command(p)
      PROVE  last'.out = Text(wrote'[last'.path])
  <2>1. CASE Ls(p)
    BY <2>1, <1>2 DEF Ls
  <2>2. CASE CatMissing(p)
    BY <2>2, <1>3 DEF CatMissing
  <2>3. CASE CatHangs(p)
    BY <2>3, <1>1 DEF CatHangs
  <2>4. CASE CatEmpty(p)
    <3>1. /\ Found(p) /\ ~FileAt(p).is_dir /\ data[FileAt(p).cluster] = Text(wrote[p])
          /\ wrote[p] \in Texts
      BY <2>4, <1>3 DEF CatEmpty
    <3>2. Text(wrote[p]) = Zeros
      BY <2>4, <3>1 DEF CatEmpty
    <3>3. Text(wrote[p]).text = wrote[p] /\ Zeros.text = ""
      BY DEF Text, Zeros
    <3> QED
      BY <3>1, <3>2, <3>3, FilesAssumption
  <2>5. CASE CatText(p)
    <3>1. Exhausted(opened) = {}
      BY <2>5 DEF CatText, Exhausted
    <3>2. PICK after : Shows(p, data[FileAt(p).cluster], after)
      BY <2>5, <3>1 DEF CatText
    <3>3. wrote' = wrote /\ trouble \subseteq trouble'
      BY <2>5 DEF CatText
    <3> QED
      BY <3>2, <3>3, <1>3
  <2>6. CASE TouchExisting(p)
    BY <2>6, <1>2 DEF TouchExisting
  <2>7. CASE Touch(p)
    <3>1. wrote' = wrote /\ trouble \subseteq trouble'
      BY <2>7, TouchDoes
    <3>2. Done \/ last' = last
      BY <2>7 DEF Touch
    <3> QED
      BY <3>1, <3>2, <1>1, <1>2
  <2>8. CASE WriteMissing(p)
    BY <2>8, <1>2 DEF WriteMissing
  <2>9. CASE \E t \in Texts : WriteToStdin(p, t)
    BY <2>9, <1>2 DEF WriteToStdin
  <2>10. CASE \E t \in Texts : Write(p, t)
    BY <2>10, <1>2 DEF Write
  <2> QED
    BY <1>6, <2>1, <2>2, <2>3, <2>4, <2>5, <2>6, <2>7, <2>8, <2>9, <2>10 DEF Command
<1> QED
  BY <1>4, <1>5, <1>6 DEF Next

-----------------------------------------------------------------------------
(* The theorems                                                            *)

IInv ==
  /\ TypeInv /\ TreeInv /\ NoCrossLinks
  /\ WroteInv /\ CatShowsLastWrite

\* A sound volume has a sound tree, and neither table gives its clusters away.
LEMMA SoundTree ==
  ASSUME NEW t, NEW d, Sound(t, d)
  PROVE  Typed(d) /\ TreeRight(d) /\ Guarded(t, d)
<1>1. /\ t[0] # 0 /\ t[1] # 0 /\ t[RootCluster] # 0
      /\ Typed(d)
      /\ \A c \in Directories(d) : IsDir(d[c]) /\ Len(d[c].entries) <= DirCapacity
      /\ \A e \in Places(d) :
           /\ EntryAt(d, e).cluster > RootCluster
           /\ ~EntryAt(d, e).is_dir =>
                EntryAt(d, e).cluster < EntriesPerSector /\ EntryAt(d, e).cluster \notin Directories(d)
      /\ ChainsApart(t, d)
  BY DEF Sound, Typed
<1>2. RootCluster \in Directories(d) /\ Directories(d) \subseteq Clusters
  BY <1>1, DirectoriesTyped
<1>3. ASSUME NEW c \in Directories(d), c # RootCluster
      PROVE  c > RootCluster /\ (c < EntriesPerSector => t[c] # 0)
  <2> DEFINE r == EntriesIn(d, RootCluster)
  <2>1. PICK i \in DOMAIN r : r[i].cluster = c
    BY <1>3 DEF Directories
  <2>2. r \in Seq(Entries) /\ Len(r) <= DirCapacity
    BY <1>1, <1>2 DEF EntriesIn, IsDir
  <2>3. i \in 1 .. DirCapacity
    <3> HIDE DEF r
    <3>1. i \in 1 .. Len(r) /\ Len(r) \in Nat
      BY <2>1, <2>2, Elements
    <3> QED
      BY <3>1, <2>2, Sizes
  <2>4. <<RootCluster, i>> \in Places(d) /\ EntryAt(d, <<RootCluster, i>>).cluster = c
    BY <2>1, <2>3, <1>2 DEF Places, EntryAt
  <2>5. \A e \in Places(d) :
          EntryAt(d, e).cluster < EntriesPerSector => t[EntryAt(d, e).cluster] # 0
    BY <1>1, ApartMeans
  <2> QED
    BY <2>4, <2>5, <1>1
<1>4. \A c \in Directories(d) : c >= RootCluster
  BY <1>2, <1>3 DEF RootCluster, Clusters
<1>5. \A e \in Places(d) : EntryAt(d, e).cluster > RootCluster => EntryAt(d, e).cluster # 1
  BY DEF RootCluster
<1>6. TreeRight(d)
  BY <1>1, <1>4, <1>5 DEF TreeRight
<1>7. Guarded(t, d)
  BY <1>1, <1>3 DEF Guarded
<1> QED
  BY <1>1, <1>6, <1>7

\* The volume mounted first satisfies the invariant.
LEMMA FilesInit ==
  Init => IInv
<1> SUFFICES ASSUME Init
             PROVE  IInv
  OBVIOUS
<1>1. PICK v \in Volumes : volume = v.table /\ table = v.table /\ data = v.data
  BY DEF Init
<1>2. Sound(v.table, v.data)
  BY FilesAssumption
<1>3. Typed(v.data) /\ TreeRight(v.data) /\ Guarded(v.table, v.data)
  BY <1>2, SoundTree
<1>4. v.table \in Tables /\ ChainsApart(v.table, v.data)
  BY <1>2 DEF Sound
<1>5. /\ opened = {} /\ hung = FALSE /\ last = NoCat
      /\ wrote = [p \in Paths |-> Nothing]
  BY DEF Init
<1>6. TypeInv
  <2>1. DOMAIN data = Clusters /\ \A c \in Clusters : data[c].kind \in {"dir", "text"}
    BY <1>1, <1>3 DEF Typed, IsDir
  <2> QED
    BY <2>1, <1>1, <1>3, <1>4, <1>5 DEF TypeInv, FilesTypeOK
<1>7. TreeInv
  BY <1>1, <1>3 DEF TreeInv
<1>8. NoCrossLinks
  BY <1>1, <1>4 DEF NoCrossLinks
<1>9. WroteInv
  BY <1>5 DEF WroteInv
<1>10. CatShowsLastWrite
  BY <1>5 DEF CatShowsLastWrite
<1> QED
  BY <1>6, <1>7, <1>8, <1>9, <1>10 DEF IInv

\* The invariant is inductive.
LEMMA FilesInductive ==
  IInv /\ [Next]_vars => IInv'
<1> SUFFICES ASSUME IInv, [Next]_vars
             PROVE  IInv'
  OBVIOUS
<1>1. TypeInv /\ TreeInv /\ NoCrossLinks /\ WroteInv /\ CatShowsLastWrite
  BY DEF IInv
<1>2. TypeInv'
  BY <1>1, TypesKeep
<1>3. TreeInv'
  BY <1>1, TreeKeeps
<1>4. NoCrossLinks'
  BY <1>1, ChainsKeep
<1>5. WroteInv'
  BY <1>1, WroteKeeps
<1>6. CatShowsLastWrite'
  BY <1>1, CatKeeps
<1> QED
  BY <1>2, <1>3, <1>4, <1>5, <1>6 DEF IInv

\* The tables, the disk, the open flags and the history have their types: the
\* handle that find_free_handle gives out is one of the table's.
THEOREM FilesTypes == Spec => []FilesTypeOK
<1>1. IInv => FilesTypeOK
  BY DEF IInv, TypeInv
<1> QED
  BY <1>1, FilesInit, FilesInductive, PTL DEF Spec

\* find_free_cluster, FAT_create_file and FAT_write never make two chains meet,
\* until the volume is full, the scan rereads the FAT or the machine restarts.
THEOREM ChainsNeverMeet == Spec => []NoCrossLinks
<1>1. IInv => NoCrossLinks
  BY DEF IInv
<1> QED
  BY <1>1, FilesInit, FilesInductive, PTL DEF Spec

\* What cat prints begins with what the last write to that path wrote, outside
\* those failures; what the heap has behind it may follow.
THEOREM CatReadsBack == Spec => []CatShowsLastWrite
<1>1. IInv => CatShowsLastWrite
  BY DEF IInv
<1> QED
  BY <1>1, FilesInit, FilesInductive, PTL DEF Spec

\* A path that names a file names the same file after every command, also on a
\* full volume, where update_fat of cluster 0 overwrites the FAT on the disk, and
\* after a restart that reads it, until the scan rereads the FAT.
THEOREM NamesStay == Spec => NamesAreStable
<1> DEFINE Stable ==
      \A p \in Paths : Found(p) /\ "reread" \notin trouble => Found(p)' /\ FileAt(p)' = FileAt(p)
<1>1. IInv /\ [Next]_vars => Stable
  <2> SUFFICES ASSUME IInv, [Next]_vars, NEW p \in Paths, Found(p), "reread" \notin trouble
               PROVE  Found(p)' /\ FileAt(p)' = FileAt(p)
    OBVIOUS
  <2>1. TypeInv /\ TreeRight(data) /\ Guarded(table, data) /\ Guarded(volume, data)
    BY DEF IInv, TreeInv
  <2>2. Grows(data, data')
    BY <2>1, StepGrows
  <2>3. Typed(data) /\ Typed(data')
    BY <2>1, TypesKeep DEF TypeInv
  <2> QED
    BY <2>1, <2>2, <2>3, PathsStay
<1>2. IInv /\ [Next]_vars => [Stable]_vars
  BY <1>1
<1>3. Spec => [][Stable]_vars
  BY <1>2, FilesInit, FilesInductive, PTL DEF Spec
<1> QED
  BY <1>3 DEF NamesAreStable
=============================================================================
