SPECIFICATION Spec
CONSTANTS
  c1 = c1
  c2 = c2
  c3 = c3
  c4 = c4
  k1 = k1
  k2 = k2
  NoOne = NoOne
  Callers = {c1, c2, c3}
  Keys = {k1, k2}
SYMMETRY Symmetry
INVARIANT BuildsOncePerPair
\* Every call returns or is dropped; the client then has nothing left to do.
CHECK_DEADLOCK FALSE
