SPECIFICATION FairSpec
CONSTANTS
  None = None
  Policies <- MCPolicies
  Deadlines <- MCDeadlines
  Responses <- MCResponses
  LongestAttempt = 2
  MaxDuration = 7
  TicksPerMilli = 2
INVARIANT CallLastsAtMost
INVARIANT EveryAttemptWhole
INVARIANT CountsTell
INVARIANT WaitsAsAsked
INVARIANT BacksOff
INVARIANT RepeatsListed
PROPERTY CallEnds
\* The call ends.
CHECK_DEADLOCK FALSE
