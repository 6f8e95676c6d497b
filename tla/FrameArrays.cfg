SPECIFICATION Spec
CONSTANTS
  x = x
  y = y
  Values = {x, y}
  Garbage = Garbage
  SavedEbp = SavedEbp
  ReturnAddress = ReturnAddress
  Lengths = {1, 2}
  MaxObjects = 3
  Depth = 10
  Height = 2
CHECK_DEADLOCK FALSE
PROPERTY OffsetAccessesSymbol
