CONSTANTS
  End = End
  Trees <- Dash
  MaxWords = 2
  MaxCalls = 1
SPECIFICATION Spec
INVARIANT FailuresAreParseErrors
CHECK_DEADLOCK FALSE
