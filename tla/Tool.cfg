SPECIFICATION FairSpec
CONSTANTS
  right = right
  wrong = wrong
  NoSql = NoSql
  Sqls <- RightAndWrong
  Verdicts <- MCVerdicts
  NQuestions = 2
  MaxToolCalls = 4
  MaxRetries = 1
  MaxSilent = 1
  Budget = 2
  MaxTicks = 2
  MaxReply = 2
INVARIANTS
  TypeOK
  SuccessIsEarned
  CallsAreRationed
PROPERTIES
  NoNeedlessCall
  QuestionEnds
