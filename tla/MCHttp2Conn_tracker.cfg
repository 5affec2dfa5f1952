SPECIFICATION Spec
CONSTANTS
  Streams <- TwoStreams
  Targets = {"messages"}
  Settings <- TwoSettings
  Increments <- TwoIncrements
  MaxChunks = 0
  MaxSettings = 2
  MaxUpdates = 2
  MaxPriorities = 2
  PriorityLimit = 1
  MaxCaptures = 0
  MaxFrameSize = 2
  Window = 2
INVARIANTS TypeOK TrackerKeepsFirst FramesAsSent
PROPERTIES CapturesOnlyLearn
CHECK_DEADLOCK FALSE
