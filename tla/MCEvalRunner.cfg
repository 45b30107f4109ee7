SPECIFICATION FairSpec
CONSTANTS
  Scenarios = 2
  Probes = 2
  Strategies = 2
  ACGC = 2
  OpenEnded = {2}
  AnswerTokens = {2}
  BudgetCaps = {0, 3}
  Marks = {5}
  Attempts = 2
  MaxRuns = 2
  MaxFailures = 1
INVARIANTS
  NeverPaidTwice
  LiveScoresInRange
PROPERTIES
  WholeLinesStay
  RunsGoForward
  RunsEnd
CHECK_DEADLOCK FALSE
