CONSTANTS
  End = End
  Trees <- OneOf
  MaxWords = 2
  MaxCalls = 2
SPECIFICATION Spec
INVARIANT MismatchIsTrue
CHECK_DEADLOCK FALSE
