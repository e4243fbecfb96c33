SPECIFICATION Spec
CONSTANTS
  Volumes <- MCVolumes
  MaxMisses = 3
  MAX_FILE_HANDLES = 2
  MaxRootSectors = 4
  MEMORY_LOAD_SIZE = 1024
  SizeMod = 1024
  MAX_REGION = 3
INVARIANTS BootTypeOK Stage2Intact KernelIntact HandlesReturned
PROPERTIES HealthyBoots NeverHangs
CHECK_DEADLOCK FALSE
