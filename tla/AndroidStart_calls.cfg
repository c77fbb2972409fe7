\* Two starts, a stop, and every broadcast, dialog and change of the activity.
CONSTANTS
  None = None
  MaxStarts = 2
  MaxStops = 1
  MaxNews = 2
  MaxDialogs = 2
  MaxMoves = 2
  Ends = {"ERROR"}

SPECIFICATION FairSpec
CHECK_DEADLOCK FALSE

INVARIANTS
  OneAnswer

PROPERTIES
  SuccessIsFresh
  StartAnswered
  ListenerHears
