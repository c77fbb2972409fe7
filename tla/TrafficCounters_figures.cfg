SPECIFICATION TrafficSpec
CONSTANTS
  Window = 3
  Marks = {0, 2}
  Chunks <- MCChunks
  Modes = {"tun", "proxy"}
  Failing <- MCFailing
  MaxMoves = 3
  MaxSessions = 1
INVARIANT TotalsExact
PROPERTY FiguresSteady
