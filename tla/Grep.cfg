CONSTANTS
  Calls <- MCCalls
  MAX_LINE_MATCHES <- MCMAX_LINE_MATCHES
SPECIFICATION Spec
INVARIANTS TypeOK QueueIsRecent PrintedExactly InOrder GapsSeparated LimitExact ExitTruthful
PROPERTIES Ends
CHECK_DEADLOCK FALSE
