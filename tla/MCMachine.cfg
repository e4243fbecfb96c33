SPECIFICATION Spec
CONSTANTS
  TickMod = 3
  LowMod = 4
  TopMod = 2
  partition_offset = 1
  Lbas = {0, 8}
  Values = {1}
  Delays = {0, 2}
  Programs <- MCPrograms
INVARIANTS MachineTypeOK HandlersDoNotNest ReadsBack NothingLeft
PROPERTIES KeysHeard SleepsEnd
CHECK_DEADLOCK FALSE
