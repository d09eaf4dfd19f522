SPECIFICATION Spec
CONSTANTS
  Questions <- MCQuestions
  Results <- MCAnswerResults
  Statements <- MCAnswers
  NQuestions = 2
  MaxRounds = 2
  MaxTries = 2
  MaxOverruns = 1
CHECK_DEADLOCK FALSE
INVARIANTS
  PassRoundsToReference
