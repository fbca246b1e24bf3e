CONSTANTS
  Char <- MCChar
  Inputs <- TurboInputs
  Texts <- TurboTexts
  Flags <- TestFlags
SPECIFICATION Spec
INVARIANT FirstMatchFound
CHECK_DEADLOCK FALSE
