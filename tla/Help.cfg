CONSTANTS
  Cases <- AllCases
  Indent = 4
  DescColumnOffset = 8
  End = End
SPECIFICATION Spec
INVARIANTS FoundIsTrue ShownOnce Aligned NearestSuggested SuggestionCanBeAsked
PROPERTIES HelpEnds
CHECK_DEADLOCK FALSE
