SPECIFICATION Spec
CONSTANTS
  None = None
  DefaultLimit = 2
  Asks <- MCAsks
  MaxMessage = 5
  Responses <- MCResponses
  Failures <- MCFailures
INVARIANT AsksAsTold
INVARIANT WithinLimit
INVARIANT StatusDecides
INVARIANT KeyNotShown
INVARIANT AnswersAreFinished
INVARIANT TraceTells
\* The attempt ends.
CHECK_DEADLOCK FALSE
