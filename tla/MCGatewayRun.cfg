SPECIFICATION RunSpec
CONSTANTS
  c1 = c1
  c2 = c2
  Clients = {c1, c2}
  MaxEvents = 2
  ChannelBuffer = 2
  MayStall = FALSE
  MetricsEvery = 2
  MaxIncarnations = 2
  MaxCrashes = 1
  MaxFailures = 0
SYMMETRY Symmetry
INVARIANTS
  OneWorker
  NothingForgotten
  ClientOrder
  PromptsArePast
  AnswersFollowTheirPrompt
PROPERTIES
  NodesKeepTheirEvent
  ImplementsLog
CHECK_DEADLOCK FALSE
