\* Every form with fillings of every kind; no continuation is called again after
\* the operands it waits for have been used.
CONSTANTS
  Programs <- OrdinaryPrograms
SPECIFICATION Spec
INVARIANTS EntryWhole ProperTail MeansWhatItSays
\* A program ends with its last expression or with an error.
CHECK_DEADLOCK FALSE
