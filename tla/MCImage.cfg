CONSTANTS
  Bits = 20
  Base = 128
  ScanRounds = 3
  Symbol <- MCSymbol
  File <- MCFile
  Elf <- MCElf
  Plan <- MCPlan
SPECIFICATION Spec
CHECK_DEADLOCK FALSE
INVARIANT ImageLoads
