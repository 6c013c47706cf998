SPECIFICATION KSpec
CONSTANTS
  NumBlocks = 2
  BlockWidth = 2
  MaxNodes = 10
  MaxOperands = 3
  Names = {1, 2, 3}
  MergeNames = {}
  NoName = NoName
  Opcodes = {"br", "br.cond", "ret", "add"}
  Kernels = {"block-merge"}
  Programs <- JumpPrograms
INVARIANTS NeverHangs
CHECK_DEADLOCK FALSE
