CONSTANTS
  MaxCalls = 4
  MaxInclude = 3
  MaxHooks = 1
  Driver <- MCDriver
  Call <- MCCall
  File <- MCFile
SPECIFICATION Spec
CHECK_DEADLOCK FALSE
INVARIANTS ScriptSound
PROPERTIES CallsKept
