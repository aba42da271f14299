CONSTANTS
  Cases <- ToDisabled
  Indent = 4
  DescColumnOffset = 8
  End = End
SPECIFICATION Spec
INVARIANTS NamesTheWord
CHECK_DEADLOCK FALSE
