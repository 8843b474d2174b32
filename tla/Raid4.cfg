CONSTANTS
  DISKS = 3
  NUMBER_OF_BLOCKS = 2
  PAGES = 1
  Levels = {1, 4, 9}
  UserBlocks = {0, 1}
  UserDisks = {1, 3}
  Faults = {"crash", "loss"}
  JunkMeta <- SomeJunk
  StackBits = {1}
SPECIFICATION Spec
INVARIANTS Integrity
