SPECIFICATION Spec
CONSTANTS
  Inputs <- MCInputs
  WindowSize = 4
INVARIANTS TypeOK NothingLost ClustersAsRuled LinesFit LinesAsRuled
PROPERTY IterationEnds
CHECK_DEADLOCK FALSE
