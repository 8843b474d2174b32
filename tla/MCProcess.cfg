SPECIFICATION Spec
CONSTANTS
  NPROC = 4
  NFILE = 3
  NOFILE = 3
  NPIPE = 1
  PIPESIZE = 2
  WRAP = 4
  Workloads <- MCWorkloads
INVARIANTS NoLostParent ParentAlive NoLostPipeWakeup  PipeFifo
