SPECIFICATION Spec
CONSTANTS
  LoopKinds = {"for", "forever"}
  MustReturn = TRUE
  MaxTokens = 7
CHECK_DEADLOCK FALSE
INVARIANT TypeOK
PROPERTY ImplementsStructured
