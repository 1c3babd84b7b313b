\* The character 255, where char is signed.
SPECIFICATION Spec
CONSTANTS
  Chars = {nul, a, sp}
  Typed = {nul, a}
  NUL = nul
  Space = sp
  EOFChar = a
  Strings = {s1, s2}
  Ports = {p1, p2}
  Blocks = {b1, b2, b3}
  BLOCK_SIZE = 1
  STRING_MAX = 1
  TEXT_MAX = 3
  KeepsStrings = TRUE
PROPERTY PeekKeeps
