SPECIFICATION Spec
CONSTANTS
  a = a
  b = b
  Names = {a, b}
  Constructs = {"if", "struct", "tagref", "goto", "label"}
  MaxSets = 5
  MaxSymbols = 3
  MaxNesting = 3
  MaxNames = 2
SYMMETRY Symmetry
CHECK_DEADLOCK FALSE
INVARIANTS
  TypeOK
  FileScopeIsGlobal
  UniqueNames
PROPERTIES
  LabelOfThisFunction
  LabelTwiceIsInOneFunction
