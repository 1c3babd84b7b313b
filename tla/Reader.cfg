SPECIFICATION ReaderSpec
CONSTANTS
  Characters <- AllCharacters
  Data <- AllData
  Texts <- AllTexts
  MaxText = 4
INVARIANTS
  ReadBack
  UnclosedCounted
