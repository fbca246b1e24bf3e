CONSTANTS
  NL = "NL"
  NUL = "NUL"
  Behaviours = {"STDIO", "MMAP"}
  MAXBUFSIZ <- MCMAXBUFSIZ
  LNBUFBUMP <- MCLNBUFBUMP
  Inputs <- MCInputs
SPECIFICATION Spec
INVARIANT BuffersHoldFile
PROPERTIES ImplementsLineSource CallReturns
CHECK_DEADLOCK FALSE
