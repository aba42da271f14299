CONSTANTS
  End = End
  Trees <- Validated
  MaxWords = 3
  MaxCalls = 1
SPECIFICATION Spec
INVARIANTS EachGetsItsShare
PROPERTIES OneNodeOfAName
CHECK_DEADLOCK FALSE
