SPECIFICATION FairSpec
CONSTANTS
  Streams <- ThreeStreams
  Targets = {"messages"}
  Settings <- OneSetting
  Increments <- TwoIncrements
  MaxChunks = 2
  MaxSettings = 0
  MaxUpdates = 0
  MaxPriorities = 0
  PriorityLimit = 1
  MaxCaptures = 1
  MaxFrameSize = 2
  Window = 6
INVARIANTS AnswersAreOwn AnsweredIffEnded NothingLeftBehind
PROPERTIES EveryRequestAnswered
CHECK_DEADLOCK FALSE
