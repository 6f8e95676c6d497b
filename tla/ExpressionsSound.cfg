SPECIFICATION Spec
CONSTANTS
  Bits = 8
  Names = {"x", "p", "m"}
  Constants = {"one"}
  Operators = {"neg", "bitnot", "not", "deref", "addressof", "sizeof", "postinc", "postdec", "add", "subtract", "multiply", "divide", "mod", "gt", "lt", "gteq", "lteq", "equals", "assign", "assign_add", "assign_subtract", "assign_multiply", "assign_divide", "assign_mod"}
  Shapes = {}
  Contents = {5}
  Targets = {"x", "a"}
  Stale = {77}
  MaxNodes = 6
CHECK_DEADLOCK FALSE
INVARIANTS
  TypeOK
  ValueIsMeaning
  StoresAreMeaning
  ReadAfterWrite
