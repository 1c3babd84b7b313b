\* Users at the prompt, scripts that load each other down to the bound, and
\* failures, catches and loads of every kind.
CONSTANTS
  f1 = f1
  f2 = f2
  f3 = f3
  Names = {f1, f2, f3}
  Stdin = stdin
  Missing = missing
  Programs <- AllPrograms
  MAXFIL = 3
SPECIFICATION FairSpec
INVARIANTS TypeOK LoadsComeBack PromptClean
PROPERTIES Ends
\* The program ends after its last file.
CHECK_DEADLOCK FALSE
