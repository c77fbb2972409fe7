CONSTANTS
  None = None
  MaxStarts = 1
  MaxStops = 1
  MaxUpdates = 1
  MaxTuns = 1
  MaxKills = 1
  Durations <- MCDurations
  Extra <- MCExtra
  Faults <- MCLiveFaults

SPECIFICATION FairSpec

CHECK_DEADLOCK FALSE

PROPERTIES
  StopAnswered
  ConnectingEnds
  CountdownEnds
  DeathReported
