CONSTANTS
  NCPU = 2
  NPROC = 2
  Scenarios <- MCScenarios
  UINT = 4
  INPUT_BUF_SIZE = 2
  UART_TX_BUF_SIZE = 1
SPECIFICATION Spec
INVARIANTS OneStackPerCpu   NoLostWakeup 
