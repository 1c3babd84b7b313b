SPECIFICATION Spec
CONSTANTS
  MaxCalls = 2
  MaxForeign = 2
  MaxTokens = 4
  MaxConts = 1
  MaxJumps = 2
  MaxForms = 2
PROPERTY PreCallOperationsWait
