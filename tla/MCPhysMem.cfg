SPECIFICATION Spec
CONSTANTS
  WordBits = 8
  ByteBits = 4
  BlockSize = 2
  UintMod = 64
  MapLocation = 6
  KernelSize = 4
  MapBits = 28
  MaxRequest = 3
  Layouts <- MCLayouts
INVARIANTS TypeOK HeldExclusively HandedOutIsAvailable
PROPERTIES DriftConserved ImplementsPool
