SPECIFICATION Spec
CONSTANTS
  Keywords = {"short", "int", "long", "double", "struct", "signed", "unsigned", "const"}
  Shapes = {}
  MaxTokens = 7
  MaxDeclarators = 2
INVARIANTS TypeOK DeclaredTypeIsC LegalIsAccepted AcceptedIsLegal
CHECK_DEADLOCK FALSE
