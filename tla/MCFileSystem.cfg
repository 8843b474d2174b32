SPECIFICATION Spec
CONSTANTS
  Procs = {1, 2}
  NINODES = 4
  NBLOCKS = 3
  NDIRECT = 1
  NINDIRECT = 1
  Names = {"a", "b"}
  Paths <- MCPaths
  Workloads <- MCWorkloads
  MaxCrashes = 1
INVARIANTS NamesResolve LinkCounts  RefsExact Tree
