SPECIFICATION ExecSpec
CHECK_DEADLOCK FALSE
CONSTANTS
  MaxNodes = 8
  MaxOperands = 1
  Names = {"entry", "exit", "lost"}
  MergeNames = {}
  NoName = "-"
  Opcodes = {"br", "ret"}
  Files <- MCFiles
  NoKey = "none"
  Caps = {"c1"}
  IRs = {"main", "other"}
  NoIR = "null"
  Accessors = {"instr-delete!"}
  Versions = {"core"}
  IntRange = 16
  MaxKernels = 2
  MaxDepth = 2
  MaxCalls = 2
INVARIANTS FramesSound SlotsSound
PROPERTIES IsolatedIR HandlesKept RefusalHolds
