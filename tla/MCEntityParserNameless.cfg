CONSTANTS
  Words = {"a", "b"}
  Chars <- MCChars
  Texts <- MCNameless
  LargeCount = 1
  SpareShare = 2
  SpareMax = 1
  MAX_COMMAND_MEMORY = 2
  MaxEdits = 3
  MaxChildren = 2
  MaxEditsBelow = 0
SPECIFICATION Spec
PROPERTY CancelRestores
CHECK_DEADLOCK FALSE
