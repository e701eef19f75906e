SPECIFICATION FairSpec
CONSTANTS
  c1 = c1
  c2 = c2
  c3 = c3
  c4 = c4
  k1 = k1
  k2 = k2
  NoOne = NoOne
  Callers = {c1, c2, c3, c4}
  Keys = {k1, k2}
INVARIANT NoEmptyEntry
PROPERTY KeepsBuilt
PROPERTY ForgetsOnlyItsOwn
PROPERTY CallsReturn
\* Every call returns or is dropped; the client then has nothing left to do.
CHECK_DEADLOCK FALSE
