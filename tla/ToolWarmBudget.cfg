SPECIFICATION Spec
CONSTANTS
  right = right
  wrong = wrong
  NoSql = NoSql
  Sqls <- RightAndWrong
  Verdicts <- MCVerdicts
  NQuestions = 2
  MaxToolCalls = 4
  MaxRetries = 1
  MaxSilent = 1
  Budget = 3
  MaxTicks = 3
  MaxReply = 1
INVARIANTS
  QuestionKeepsBudget
