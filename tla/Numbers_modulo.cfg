SPECIFICATION Spec
CONSTANTS
  Width = 7
  Precision = 3
  UnitsPerOne = 16
  Fixnums <- SomeLongs
  Reals <- SomeDoubles
  MaxArgs = 3
  A = 7
  M = 61
  MaxLong = 63
INVARIANT ModuloSign
