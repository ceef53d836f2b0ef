SPECIFICATION HSpec
CONSTANTS
  A = A
  B = B
  W = W
  Repos <- MCRepos
  MainOf <- MCMainOf
  Unknown = "unknown"
  MaxCalls = 1
  Clients = {"cursor", "claude", "unknown"}
  Commands = {p1, p2}
  Jobs <- MCJobs
  Calls <- MCCalls
  MaxCommands = 3
  Faults = {"crash", "home", "repo", "spoil"}
INVARIANTS StoppedIsRefused RefusalHasItsStop StopLastsUntilResume ResumeClears
SYMMETRY MCSymmetry
CHECK_DEADLOCK FALSE
