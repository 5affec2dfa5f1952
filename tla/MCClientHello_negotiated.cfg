SPECIFICATION Spec
CONSTANTS
  Hellos <- AllHellos
INVARIANTS NegotiatedIsOffered
CHECK_DEADLOCK FALSE
