\* One variable, three pairs within its reach, and cells for a call of apply
\* on apply.
CONSTANTS
  Cells = {c1, c2, c3, c4, c5, c6, c7}
  Nil = Nil
  One = One
  Symbol = Symbol
  Vars = {x}
  MaxHeld = 3
  MaxCalls = 3
SPECIFICATION PrimitivesSpec
PROPERTIES HeldKept EntersChecked ResultsMeant
CHECK_DEADLOCK FALSE
