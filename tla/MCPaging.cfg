SPECIFICATION PagingSpec
CONSTANTS
  WordBits = 4
  ByteBits = 4
  BlockSize = 2
  UintMod = 64
  MapLocation = 2
  KernelSize = 2
  MapBits = 27
  MaxRequest = 3
  Layouts <- MCLayouts
  TablesPerDirectory = 4
  PagesPerTable = 19
  KernelEntry = 3
  UserPages <- MCUserPages
  MaxMmap = 2
INVARIANTS PagingTypeOK GrantsIntact TablesPrivate TablesReachable NoStrayMapping
PROPERTIES MmapTakesFreePages
