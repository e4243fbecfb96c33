SPECIFICATION Spec
CONSTANTS
  TotalClusters = 14
  EntriesPerSector = 8
  ReloadAfter = 12
  MaxOpenFile = 2
  DirCapacity = 3
  Paths <- MCPaths
  Texts = {t1, t2}
  Volumes <- MCVolumes
SYMMETRY TextSymmetry
INVARIANT CatReadsTheFile
