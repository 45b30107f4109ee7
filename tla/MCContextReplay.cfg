SPECIFICATION Spec
CONSTANTS
  Script <- MCScript
  Similarity <- MCSimilarity
  Recency <- MCRecency
  SemanticWeight = 20
  StaleAfterTurns = 15
  MaxTokensPerNode = 2000
  LowRelevanceThreshold = 30
  DecisionSweepFloor = 20
  TopK = 12
  NTurns = 3
  MaxFailures = 1
  TokenBudget = 9
  SoftLimit = 5
  MaxActiveNodes = 7
  MaxTreeDepth = 10
  MaxChildrenPerNode = 50
INVARIANTS
  ReplaysMirrorTree
  ArchivedComeBack
  FrozenForgetsMore
  CoherencyFollowsAge
PROPERTIES
  RecentTurnsStay
  RelevantTurnsStay
CHECK_DEADLOCK FALSE
