CONSTANTS
  NoDeadline = NoDeadline
  MaxSessions = 2
  AutoSeconds <- MCAutoSeconds
  Adjustments <- MCAdjustments
  MaxDeadline = 3
  MaxLate = 1
  MaxUpdates = 1

SPECIFICATION FairSpec

INVARIANTS
  NoOrphan
  NetworkRestored
  SettledMeansReleased
  RightSession
  DeadlineWatched
  CancelHolds
  ShutdownComplete
  IInv

PROPERTY
  IsTunnelSession CallsReturn DeadlineReached ExitNoticed
