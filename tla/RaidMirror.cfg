CONSTANTS
  DISKS = 4
  NUMBER_OF_BLOCKS = 2
  PAGES = 0
  Levels = {2, 3}
  UserBlocks = {0}
  UserDisks = {1, 2}
  Faults = {"crash", "loss"}
  JunkMeta <- NoJunk
  StackBits = {0}
SPECIFICATION Spec
INVARIANTS Integrity OneFailureReadable FailedStaysFailedAtReboot StuckOnlyWithoutRaid
