\* Catches that are left by a continuation of the program.
CONSTANTS
  f1 = f1
  f2 = f2
  f3 = f3
  Names = {f1, f2, f3}
  Stdin = stdin
  Missing = missing
  Programs <- Jumping
  MAXFIL = 3
SPECIFICATION Spec
INVARIANTS NoneActive
\* The program ends after its last file.
CHECK_DEADLOCK FALSE
