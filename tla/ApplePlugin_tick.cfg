\* A session that ends with a tick in flight.
CONSTANTS
  MaxCalls = 0
  MaxMoves = 2
  MaxListens = 1
  MaxFlight = 1
  Faults = {}

SPECIFICATION Spec

INVARIANT ConnectedIsActive
