SPECIFICATION FairSpec
CONSTANTS
  None = None
  Window = 2
  Marks = {1}
  Chunks <- MCChunks
  Modes = {"tun"}
  Failing = {}
  MaxMoves = 1
  MaxSessions = 2
  TickInterval = 1
  MinInterval = 1
  Heartbeat = 2
  MaxListens = 1
  MaxTicks = 1
INVARIANTS  ThreadJoined
PROPERTIES  NewsTold CancelReturns KeepsHearing
