CONSTANT N = 4
SPECIFICATION FairSpec
INVARIANTS NoLostWakeup
PROPERTIES ImplementsLock FreeLockIsTaken
