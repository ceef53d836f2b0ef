SPECIFICATION MCFairSpec
CONSTANTS
  Writers = {w1, w2}
  NoWriter = none
  RotateAt = 1
  MaxLines = 5
  Legacy = 0
  Stalled = {w1}
  Faults = {"timeout", "unreadable", "tear", "crash", "open", "rename"}
INVARIANTS BreakIsAccountedFor NeverForks
PROPERTIES TornNeverJoined NoWriterWaitsForever
