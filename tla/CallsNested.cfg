SPECIFICATION Spec
CONSTANTS
  Order <- MCOrder
  Externals = {"printf"}
  LocalCount = 1
  Values = {1}
  MaxArgs = 2
  MaxTokens = 5
  CallBeforeArgument = FALSE
  Depth = 26
CHECK_DEADLOCK FALSE
INVARIANTS TypeOK ArgumentsArrive StackBalanced
PROPERTIES ImplementsActivations ProgramStops
