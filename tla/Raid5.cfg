CONSTANTS
  DISKS = 3
  NUMBER_OF_BLOCKS = 3
  PAGES = 1
  Levels = {5}
  UserBlocks = {0, 1, 2}
  UserDisks = {2}
  Faults = {"crash"}
  JunkMeta <- NoJunk
  StackBits = {0}
SPECIFICATION FairSpec
INVARIANTS Integrity ParityHolds
 
