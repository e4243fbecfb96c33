------------------------------ MODULE MCFiles ------------------------------
(***************************************************************************)
(* Two volumes of more clusters than a FAT sector has entries, each with a *)
(* subdirectory and a file of more than 512 bytes.  Only the last cluster  *)
(* is beyond ReloadAfter: its entry is looked up at 5, which is used on    *)
(* the one volume, so that it can become full, and free on the other,      *)
(* where the last cluster is the subdirectory's.  Free clusters hold zeros *)
(* or what was on the disk before.                                         *)
(***************************************************************************)
EXTENDS Files, TLC

MCPaths ==
  { [dir |-> NoDir, name |-> "f"], [dir |-> NoDir, name |-> "big"],
    [dir |-> "sub", name |-> "f"], [dir |-> "absent", name |-> "f"],
    [dir |-> "f", name |-> "g"] }

\* The file starts in cluster 4 and ends in cluster `end'.
Volume(sub, end) ==
  [table |-> [c \in 0 .. EntriesPerSector - 1 |->
                IF c = 4 THEN end
                ELSE IF c < 4 \/ c = end THEN FormattedEnd ELSE 0],
   data  |-> [c \in 0 .. TotalClusters - 1 |->
                CASE c = 2 -> Dir(<<Entry("sub", sub, TRUE), Entry("big", 4, FALSE)>>)
                  [] c = sub -> Dir(<< >>)
                  [] c = 4 -> Long
                  [] c = 6 -> Zeros
                  [] OTHER -> Text("stale")]]

MCVolumes == {Volume(3, 5), Volume(TotalClusters - 1, 3)}

TextSymmetry == Permutations(Texts)
=============================================================================
