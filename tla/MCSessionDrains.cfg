SPECIFICATION FairSpec
CONSTANTS
  c1 = c1
  c2 = c2
  Clients = {c1, c2}
  MaxEvents = 1
  ChannelBuffer = 1
  MayStall = TRUE
  MetricsEvery = 2
  MaxIncarnations = 2
  MaxCrashes = 1
  MaxFailures = 1
PROPERTIES
  QueueDrains
  ImplementsLog
CHECK_DEADLOCK FALSE
