SPECIFICATION Spec
CONSTANTS
  Events <- MCEvents
  MaxTurns = 3
  MaxSnapshotTurn = 2
  TokenBudget = 4
  SoftLimit = 3
  MaxActiveNodes = 3
  MaxTreeDepth = 1
  MaxChildrenPerNode = 2
  CompressedTokens = 1
CHECK_DEADLOCK FALSE
INVARIANT GoalsAttachToRoot
