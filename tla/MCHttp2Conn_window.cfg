SPECIFICATION FairSpec
CONSTANTS
  Streams <- TwoStreams
  Targets = {"messages"}
  Settings <- OneSetting
  Increments <- TwoIncrements
  MaxChunks = 2
  MaxSettings = 0
  MaxUpdates = 0
  MaxPriorities = 0
  PriorityLimit = 1
  MaxCaptures = 0
  MaxFrameSize = 2
  Window = 3
PROPERTIES EveryRequestAnswered
CHECK_DEADLOCK FALSE
