CONSTANTS
  Char <- TestChar
  PatternLists <- TestPatternLists
  Texts <- TestTexts
SPECIFICATION Spec
INVARIANT CompileFailsOnlyWithoutMemory
CHECK_DEADLOCK FALSE
