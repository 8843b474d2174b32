CONSTANTS
  DISKS = 4
  NUMBER_OF_BLOCKS = 26
SPECIFICATION Spec
INVARIANTS WrittenBlocksKeepTheirPlaces
CHECK_DEADLOCK FALSE
