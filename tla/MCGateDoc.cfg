SPECIFICATION Spec
CONSTANTS
  r1 = r1
  r2 = r2
  r3 = r3
  Requests = {r1, r2, r3}
  BoundKinds = {"AttemptDeadline"}
  BoundTicks = 1
  MaxTime = 0
  MaxCloses = 1
  RuntimeDrops = FALSE
  NoOne = NoOne
SYMMETRY Symmetry
INVARIANT FailedOnlyByItsTurn
\* Every request ends; the transport then has nothing left to do.
CHECK_DEADLOCK FALSE
