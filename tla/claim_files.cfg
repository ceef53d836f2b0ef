SPECIFICATION Spec
CONSTANTS
  h1 = h1
  h2 = h2
  h3 = h3
  h4 = h4
  c1 = c1
  c2 = c2
  Hooks <- MCHooks
  Calls <- MCCalls
  CallOf <- MCCallOf
  KeyOf <- MCKeyOf
  Timed <- MCTimed
  Pruners <- MCPruners
  Timeout = 1
  ClaimSeconds = 1
  MaxTime = 2
  Faults = {"claim", "append", "crash"}
INVARIANTS AllowIsOneLine OnlyTheClaimantIsNameless AllowIsLogged
SYMMETRY MCSymmetry
CHECK_DEADLOCK FALSE
