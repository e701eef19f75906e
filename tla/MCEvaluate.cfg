SPECIFICATION Spec
CONSTANTS
  t1 = t1
  t2 = t2
  Texts = {t1, t2}
  NoText = NoText
  None = None
  MaxRetries = 1
  MaxCorrective = 2
  MaxCount = 2
  Unit = 4
  Tolerance = 1
  MaxProblems = 2
  QuestionSets <- MCQuestionSets
  Replies <- MCReplies
  Json <- MCJson
SYMMETRY Symmetry
INVARIANT ReasonsExplain
INVARIANT CarriesCorrections
INVARIANT UsageTells
INVARIANT SchemaAgrees
INVARIANT CorrectionsComplete
INVARIANT AnswersTell
\* A call ends.
CHECK_DEADLOCK FALSE
