CONSTANTS
  Char <- MCChar
  PatternLists <- MCPatternLists
  Texts <- MCTexts
SPECIFICATION Spec
INVARIANTS IInv ShiftTableSafe ListsSorted NothingSkipped ReportsFirst
PROPERTIES Returns ImplementsFirstMatch
CHECK_DEADLOCK FALSE
