SPECIFICATION FairSpec
CONSTANTS
  here = here
  there = there
  codex = codex
  claude = claude
  NoClient = NoClient
  Everyone = Everyone
  Home = here
  Scopes = {codex, claude}
  Gates <- MCGates
  Lines <- MCLines
  Stops <- MCStops
  Room = 1
  MaxLines = 2
  MaxStops = 1
  MaxMissed = 1
INVARIANTS
  StandingStopRefuses
  AnsweredOnce
  LogTellsTheFate
PROPERTIES
  HangUpEnds
  EndedGatewayLeaves
\* The gateway ends, and a jammed one stands still.
CHECK_DEADLOCK FALSE
