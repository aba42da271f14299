CONSTANTS
  End = End
  Trees <- Relations
  MaxWords = 4
  MaxCalls = 1
SPECIFICATION Spec
INVARIANTS SetOnce AlreadySetIsTrue MismatchIsTrue DependenciesMet DisabledUntouched DisabledModesClosed AliasDelivered ModeIsDeepest
PROPERTIES ImplementsParseCall EveryCallEnds
CHECK_DEADLOCK FALSE
