SPECIFICATION Spec
CONSTANTS
  right = right
  wrong = wrong
  NoSql = NoSql
  Sqls <- RightAndWrong
  Verdicts <- MCVerdicts
  NQuestions = 1
  MaxToolCalls = 3
  MaxRetries = 1
  MaxSilent = 1
  Budget = 0
  MaxTicks = 1
  MaxReply = 2
INVARIANTS
  LimitScoresLastGoodQuery
