CONSTANTS
  End = End
  Trees <- Leaves
  MaxWords = 4
  MaxCalls = 1
SPECIFICATION Spec
INVARIANTS TypeOK Explained Delivered InRange CountsWithin OwnErrors
PROPERTIES RoundsConsume MarkerEndsList
CHECK_DEADLOCK FALSE
