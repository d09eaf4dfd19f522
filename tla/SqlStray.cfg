SPECIFICATION Spec
CONSTANTS
  Questions <- MCQuestions
  Results <- MCResults
  Statements <- MCStatements
  NQuestions = 2
  MaxRounds = 2
  MaxTries = 2
  MaxOverruns = 1
CHECK_DEADLOCK FALSE
INVARIANTS
  StrayTimerIsHarmless
