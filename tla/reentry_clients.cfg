SPECIFICATION ReentryFairSpec
CONSTANTS
  p1 = p1
  p2 = p2
  Policies = {p1, p2}
  Others = {"other"}
  Cap = 1
  MaxEntries = 5
  Clients <- MCClients
  Earlier <- MCEarlier
  MaxTurns = 1
  Faults = {"unwritable"}
INVARIANTS CapHoldsWhileRecorded NoEarlyWarning
PROPERTIES EveryTurnEnds
CHECK_DEADLOCK FALSE
