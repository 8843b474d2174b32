CONSTANTS
  NPROC = 3
  Memories = {7, 9, 13, 15, 16}
  ROOT = 8
  FAN = 2
  Programs <- MCPrograms
  Amounts <- MCAmounts
  MAXUINT = 64
  MaxCalls = 4
SPECIFICATION Spec
INVARIANTS PagesConserved SizeMatchesMapping
PROPERTIES FailsCleanly Isolated
