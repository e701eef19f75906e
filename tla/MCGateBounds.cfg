SPECIFICATION Spec
CONSTANTS
  r1 = r1
  r2 = r2
  r3 = r3
  Requests = {r1, r2}
  BoundKinds <- AllBounds
  BoundTicks = 1
  MaxTime = 2
  MaxCloses = 1
  RuntimeDrops = TRUE
  NoOne = NoOne
SYMMETRY Symmetry
INVARIANT BoundSparesLater
INVARIANT AlikeErrors
\* Every request ends; the transport then has nothing left to do.
CHECK_DEADLOCK FALSE
