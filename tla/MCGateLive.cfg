SPECIFICATION FairSpec
CONSTANTS
  r1 = r1
  r2 = r2
  r3 = r3
  Requests = {r1, r2}
  BoundKinds = {"AttemptDeadline", "None"}
  BoundTicks = 1
  MaxTime = 1
  MaxCloses = 1
  RuntimeDrops = FALSE
  NoOne = NoOne
PROPERTY LeavesTheGate
\* Every request ends; the transport then has nothing left to do.
CHECK_DEADLOCK FALSE
