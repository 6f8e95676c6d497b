SPECIFICATION Spec
CONSTANTS
  x = x
  y = y
  Values = {x, y}
  Garbage = Garbage
  SavedEbp = SavedEbp
  ReturnAddress = ReturnAddress
  Lengths = {1}
  MaxObjects = 4
  Depth = 10
  Height = 2
CHECK_DEADLOCK FALSE
INVARIANTS
  TypeOK
  ObjectsInFrame
  CallerIntact
PROPERTY StoresItsLocals
