CONSTANTS
  PatternLists <- MCPatternLists
  MAX_FRAGMENTS <- MCMAX_FRAGMENTS
  Uninitialized <- MCUninitialized
SPECIFICATION Spec
INVARIANTS FragmentsInEveryWord Promise CandidatesComplete
CHECK_DEADLOCK FALSE
