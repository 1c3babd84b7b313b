\* A program that does not hold the string of an open port.
SPECIFICATION Spec
CONSTANTS
  Chars = {nul, a, sp}
  Typed = {nul, a}
  NUL = nul
  Space = sp
  EOFChar = sp
  Strings = {s1, s2}
  Ports = {p1, p2}
  Blocks = {b1, b2, b3}
  BLOCK_SIZE = 1
  STRING_MAX = 1
  TEXT_MAX = 3
  KeepsStrings = FALSE
INVARIANT BuffersLive
