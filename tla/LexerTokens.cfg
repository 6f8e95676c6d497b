SPECIFICATION Spec
CONSTANTS
  Plain <- MCPlain
  Escapes <- MCEscapes
  Octals <- MCOctals
  Hexes <- MCHexes
  Names <- MCNames
  Numerals <- MCNumerals
  Modulus <- MCModulus
  Shapes = {}
  MaxLength = 3
  MaxName = 1
  MaxLine = 2
INVARIANTS TypeOK TokensMeanText PositionOfText StringsSurvive
CHECK_DEADLOCK FALSE
