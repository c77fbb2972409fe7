CONSTANTS
  None = None
  MaxStarts = 1
  MaxStops = 0
  MaxUpdates = 0
  MaxTuns = 1
  MaxKills = 0
  Durations <- MCDurations
  Extra <- MCExtra
  Faults <- MCStartFaults

SPECIFICATION Spec

CHECK_DEADLOCK FALSE

INVARIANTS
  ConnectedHasCore
