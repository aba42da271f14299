CONSTANTS
  End = End
  Trees <- MarkedFirst
  MaxWords = 3
  MaxCalls = 1
SPECIFICATION Spec
PROPERTY MarkerEndsList
CHECK_DEADLOCK FALSE
