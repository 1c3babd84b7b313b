\* Three extents, two continuations made anywhere, two calls of them, one error.
CONSTANTS
  MaxWinds = 3
  MaxConts = 2
  MaxJumps = 2
  MaxErrors = 1
SPECIFICATION Spec
INVARIANTS WindingsMatch
PROPERTIES SharedKept
\* The program may end once it has made all its calls.
CHECK_DEADLOCK FALSE
