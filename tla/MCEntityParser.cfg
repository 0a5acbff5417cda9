CONSTANTS
  Words = {"a", "b"}
  Chars <- MCChars
  Texts <- MCTexts
  LargeCount = 1
  SpareShare = 2
  SpareMax = 1
  MAX_COMMAND_MEMORY = 2
  MaxEdits = 3
  MaxChildren = 2
  MaxEditsBelow = 2
SPECIFICATION FairSpec
INVARIANTS TypeOK Accounted ChildrenFit ReversesParse HistoryShape
PROPERTIES CallsReturn ImplementsUndoLog
CHECK_DEADLOCK FALSE
