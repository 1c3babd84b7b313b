SPECIFICATION Spec
CONSTANTS
  MaxCalls = 3
  MaxForeign = 2
  MaxTokens = 4
  MaxConts = 1
  MaxJumps = 2
  MaxForms = 2
INVARIANTS
  CallerRestored
  LocalsRooted
  ResumedOnce
