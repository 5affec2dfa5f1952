SPECIFICATION Spec
CONSTANTS
  Streams <- AllStreams
  MinHello = 1
  MaxRead = 6
INVARIANTS TypeOK PlayedBack HelloAsSent WaitsForNothing
CHECK_DEADLOCK FALSE
