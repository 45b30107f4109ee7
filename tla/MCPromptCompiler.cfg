SPECIFICATION Spec
CONSTANTS
  Ids = {n1, n2, n3}
  Inputs <- MCInputs
  HitScores = {0, 2}
  Budgets = {1, 2, 4, 6}
  SystemTokens = 1
  UserTokens = 1
  HeadingTokens = 3
SYMMETRY Symmetry
INVARIANTS
  FitsBudget
  PriorityWins
  NothingThatFitsIsLeftOut
  SectionsReportWhatTheyLack
CHECK_DEADLOCK FALSE
