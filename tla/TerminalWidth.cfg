SPECIFICATION Spec
CONSTANTS
  Inputs <- ShortTexts
  DoubleRows <- DoubleWidth
  ZeroRows <- ZeroWidth
INVARIANTS TypeOK NeverLeftBehind InStep WidthIsRight
PROPERTY Halves
CHECK_DEADLOCK FALSE
