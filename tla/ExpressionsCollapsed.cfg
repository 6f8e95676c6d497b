SPECIFICATION Spec
CONSTANTS
  Bits = 8
  Names = {"x", "p"}
  Constants = {"one"}
  Operators = {"deref", "add", "assign"}
  Shapes = {"store after load"}
  Contents = {5}
  Targets = {"x", "a"}
  Stale = {77}
  MaxNodes = 4
CHECK_DEADLOCK FALSE
INVARIANTS
  CollapsedIsOneStore
