CONSTANTS
  Newline = "NL"
  Char <- MCChar
  PregLists <- BoundedPregLists
  Texts <- MCTexts
SPECIFICATION Spec
INVARIANT NoMatchBeforeEnd
CHECK_DEADLOCK FALSE
