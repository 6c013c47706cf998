CONSTANTS
  X86Reg <- MCX86Reg
  Lines <- MCLines
  Options <- MCOptions
  Files <- MCFiles
  GensymNames <- MCGensymNames
  MaxPieces = 3
  MaxDepth = 3
  NameLen = 4
  MaxShNames = 9
  Insns <- MCInsns
  MemTexts <- MCMemTexts
  Names <- MCNames
  ExprTexts <- MCExprTexts
SPECIFICATION Spec
CHECK_DEADLOCK FALSE
INVARIANTS ObjectSound EncodeDecodes TextMeans
PROPERTIES SymbolsKept AssemblyEnds
