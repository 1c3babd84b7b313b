\* Errors in files that are loaded.
CONSTANTS
  f1 = f1
  f2 = f2
  f3 = f3
  Names = {f1, f2, f3}
  Stdin = stdin
  Missing = missing
  Programs <- FailingPrograms
  MAXFIL = 3
SPECIFICATION Spec
INVARIANTS LoadReturns
\* The program ends after its last file.
CHECK_DEADLOCK FALSE
