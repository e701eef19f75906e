SPECIFICATION Spec
CONSTANTS
  None = None
  Bodies <- MCBodies
INVARIANT YieldsContract
INVARIANT NeverMixed
INVARIANT PathsTell
\* The body ends.
CHECK_DEADLOCK FALSE
