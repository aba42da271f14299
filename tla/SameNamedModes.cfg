CONSTANTS
  End = End
  Trees <- SameNamed
  MaxWords = 2
  MaxCalls = 1
SPECIFICATION Spec
PROPERTIES OneNodeOfAName
CHECK_DEADLOCK FALSE
