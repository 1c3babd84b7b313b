\* A continuation captured in an operand is called a second time.
CONSTANTS
  Programs <- ReentrantPrograms
SPECIFICATION Spec
INVARIANTS EntryWhole
CHECK_DEADLOCK FALSE
