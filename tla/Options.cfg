CONSTANTS
  NL = "NL"
  Char <- MCChar
  LLONG_MAX <- MCLLONG_MAX
  Calls <- MCCalls
SPECIFICATION Spec
INVARIANTS ContextAsGiven PatternsAsGiven LengthsFit HeadersAsGiven OffsetsWhereUsed
CHECK_DEADLOCK FALSE
