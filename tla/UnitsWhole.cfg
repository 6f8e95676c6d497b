SPECIFICATION Spec
CONSTANTS
  Shapes = {}
  MaxTokens = 7
  MaxNodes = 20
INVARIANTS TypeOK EndIsLast TopIsWhole EmittedInOrder
CHECK_DEADLOCK FALSE
