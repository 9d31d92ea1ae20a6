SPECIFICATION FairSpec
CONSTANTS
  Message <- MCMessage
  Setup <- MCSetup
  Cooldown = 1
  MaxTime = 1
  MaxEvents = 3
  MaxStops = 1
INVARIANT RemediationsSpaced
PROPERTY IncidentsRemediated
CHECK_DEADLOCK FALSE
