CONSTANTS
  Char <- TestChar
  Inputs <- TestInputs
  Texts <- TestTexts
  Flags <- TestFlags
SPECIFICATION Spec
INVARIANT EscapesResolved
CHECK_DEADLOCK FALSE
