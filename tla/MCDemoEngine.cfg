SPECIFICATION Spec
CONSTANTS
  Clients = {c1, c2}
  Script <- MCScript
  SeedUntil = 2
  Question <- MCQuestion
  ReplyTokens = 5
  Budget = 50
  ChannelBuffer = 2
  MaxCalls = 3
  MaxProbes = 1
  MaxOverlaps = 1
CHECK_DEADLOCK FALSE
INVARIANT PanesAligned
INVARIANT ScriptFollowed
INVARIANT ProbeComesLast
INVARIANT SeedsAreInTheTree
INVARIANT ConnectionFollowsSession
PROPERTY WindowNeverReopens
PROPERTY RequestsEnd
