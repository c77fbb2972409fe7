\* Two calls, a session that ends and one more change, and every fault.
CONSTANTS
  MaxCalls = 2
  MaxMoves = 3
  MaxListens = 1
  MaxFlight = 1
  Faults = {"save", "load", "start"}

SPECIFICATION Spec

INVARIANT ListenerKnows
