SPECIFICATION FairSpec
CONSTANTS
  MAX_PROCESSORS = 2
  Slices = {0, 2}
  MaxUses = 1
INVARIANTS TypeOK OwnRegisters ClockStands
PROPERTIES EveryCpuRuns FrontEndStops
CHECK_DEADLOCK TRUE
