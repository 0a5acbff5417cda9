CONSTANTS
  Words = {"a", "b"}
  Chars <- MCChars
  Texts <- MCTexts
  LargeCount = 1
  SpareShare = 2
  SpareMax = 1
  MAX_COMMAND_MEMORY = 2
  MaxEdits = 3
  MaxChildren = 2
  MaxEditsBelow = 3
SPECIFICATION Spec
PROPERTY CancelUndoes
CHECK_DEADLOCK FALSE
