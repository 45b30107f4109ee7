SPECIFICATION Spec
CONSTANTS
  MaxEvents = 2
  TopK = 2
  MaxStarts = 3
  MaxCrashes = 1
  MaxFailures = 2
INVARIANT IndexesMirrorTree
PROPERTIES
  NothingEmbeddedIsMissed
  ImplementsLog
CHECK_DEADLOCK FALSE
