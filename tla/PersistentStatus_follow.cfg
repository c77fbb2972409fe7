\* Two streams of the controller and one of the app, over a channel of bounded length.
CONSTANTS
  None = None
  Ui = Ui
  Statuses <- MCStatuses
  MaxStarts = 2
  MaxStops = 1
  MaxUi = 1
  MaxEvents = 1
  MaxFails = 1

SPECIFICATION FairSpec

INVARIANTS
  StoppedIsSilent
  PollsBounded

PROPERTIES
  CatchesUp
