CONSTANTS
  End = End
  Token = {a, b}
  Runs <- MCRuns
  MaxTokens = 4
SPECIFICATION Spec
INVARIANTS TypeOK
PROPERTIES ImplementsTokenList InsertedWhereAsked
