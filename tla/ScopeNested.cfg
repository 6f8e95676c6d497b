SPECIFICATION Spec
CONSTANTS
  a = a
  b = b
  Names = {a, b}
  Constructs = {"if", "plain", "struct"}
  MaxSets = 5
  MaxSymbols = 4
  MaxNesting = 3
  MaxNames = 2
SYMMETRY Symmetry
CHECK_DEADLOCK FALSE
INVARIANTS
  InnermostScope
  CompleteTagHasMembers
PROPERTIES
  UseBindsInnermost
  ExternAtFileScope
