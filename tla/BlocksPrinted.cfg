SPECIFICATION Spec
CONSTANTS
  LoopKinds = {"for", "forever", "do"}
  MustReturn = FALSE
  MaxTokens = 7
CHECK_DEADLOCK FALSE
INVARIANTS JumpTargetsPrinted OneWayOut
