CONSTANTS
  NoDeadline = NoDeadline
  MaxSessions = 1
  AutoSeconds <- MCAutoSeconds
  Adjustments <- MCAdjustments
  MaxDeadline = 2
  MaxLate = 1
  MaxUpdates = 1

SPECIFICATION Spec

INVARIANT
  StopKeepsProcess
