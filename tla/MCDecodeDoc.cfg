SPECIFICATION Spec
CONSTANTS
  None = None
  Bodies <- MCBodies
INVARIANT TwoTypesAtType
\* The body ends.
CHECK_DEADLOCK FALSE
