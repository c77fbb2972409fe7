\* Two starts and a stop with every fault, or one whose tun2socks is started again.
CONSTANTS
  None = None
  MaxStarts = 2
  MaxStops = 1
  MaxUpdates = 0
  MaxTuns = 2
  MaxKills = 0
  Durations <- MCDurations
  Extra <- MCExtra
  Faults <- MCAllFaults

SPECIFICATION Spec

CHECK_DEADLOCK FALSE

CONSTRAINT MCHalves

INVARIANTS
  CoreWatched
  TunnelOwned
  
  
  
