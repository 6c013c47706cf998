SPECIFICATION KSpec
CONSTANTS
  NumBlocks = 3
  BlockWidth = 2
  MaxNodes = 13
  MaxOperands = 3
  Names = {1, 2, 3, 4}
  MergeNames = {3}
  NoName = NoName
  Opcodes = {"br", "br.cond", "ret", "add"}
  Kernels = {"block-merge", "cfg-canonicalize", "unreachable-elim"}
  Programs <- JumpPrograms
CHECK_DEADLOCK FALSE
INVARIANTS KernelResults CommitValid
PROPERTIES KernelReturns
