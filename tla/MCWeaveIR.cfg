SPECIFICATION Spec
CONSTANTS
  MaxNodes = 5
  MaxOperands = 1
  Names = {"a"}
  MergeNames = {}
  NoName = "-"
  Opcodes = {"br", "add"}
CHECK_DEADLOCK FALSE
INVARIANTS TableSound
PROPERTIES DeadForever EdgesSurvive
