SPECIFICATION Spec
CONSTANTS
  None = None
  Never = Never
  MaxCalls = 3
  DefaultTimeout = 5
  DefaultMaxBytes = 9
  DefaultRetries = 2
  Environments <- MCEnvironments
  BuilderCalls <- MCBuilderCalls
  QuestionCalls <- MCQuestionCalls
  Structs <- MCStructs
  RequestCalls <- MCRequestCalls
  States <- MCStates
  Letters <- MCLetters
  Characters <- MCCharacters
  Failures <- MCFailures
  MaxScanned = 3
  MaxShown = 2
  MaxMessage = 6
INVARIANT IdentityKept
INVARIANT SettingsTell
INVARIANT QuestionsReread
INVARIANT CredentialsHidden
\* A program ends.
CHECK_DEADLOCK FALSE
