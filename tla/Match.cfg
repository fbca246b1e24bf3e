CONSTANTS
  Newline = "NL"
  Char <- MCChar
  PregLists <- MCPregLists
  Texts <- MCTexts
SPECIFICATION Spec
INVARIANTS TypeOK OffsetsNameAMatch AnswersAsOriginal NoSubIsExact RetIsSet
PROPERTY Returns
CHECK_DEADLOCK FALSE
