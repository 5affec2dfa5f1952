SPECIFICATION Spec
CONSTANTS
  Streams <- TwoStreams
  Targets = {"messages"}
  Settings <- OneSetting
  Increments <- TwoIncrements
  MaxChunks = 1
  MaxSettings = 1
  MaxUpdates = 1
  MaxPriorities = 0
  PriorityLimit = 1
  MaxCaptures = 4
  MaxFrameSize = 2
  Window = 2
INVARIANTS RepliesFit
CHECK_DEADLOCK FALSE
