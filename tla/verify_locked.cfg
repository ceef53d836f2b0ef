SPECIFICATION VSpec
CONSTANTS
  Writers = {w1, w2, w3}
  NoWriter = none
  RotateAt = 2
  MaxLines = 8
  Legacy = 1
  Stalled = {}
  Faults = {"crash", "open", "rename"}
SYMMETRY Symmetry
INVARIANTS TypeOK ChainIntact BreakOnlyIfOvertaken KeptHeadOnlyAgesOut
PROPERTIES ImplementsChain
