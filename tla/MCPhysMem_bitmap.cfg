SPECIFICATION Spec
CONSTANTS
  WordBits = 8
  ByteBits = 4
  BlockSize = 8
  UintMod = 256
  MapLocation = 80
  KernelSize = 16
  MapBits = 26
  MaxRequest = 3
  Layouts <- SmallLayouts
INVARIANT BitmapNeverHandedOut
