SPECIFICATION FairSpec
CONSTANTS
  c1 = c1
  c2 = c2
  Clients = {c1, c2}
  MaxEvents = 1
  ChannelBuffer = 1
  MayStall = FALSE
  MetricsEvery = 2
  MaxIncarnations = 2
  MaxCrashes = 0
  MaxFailures = 0
PROPERTY AcceptedIsProcessed
CHECK_DEADLOCK FALSE
