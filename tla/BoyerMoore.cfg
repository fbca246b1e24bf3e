CONSTANTS
  Char <- MCChar
  Inputs <- MCInputs
  Texts <- MCTexts
  Flags <- MCFlags
SPECIFICATION Spec
INVARIANTS TablesAreBoyerMoore PassedCharsAgree NothingSkipped ReportsFirst NoMatchIsTrue
PROPERTY Returns
CHECK_DEADLOCK FALSE
