SPECIFICATION Spec
CONSTANTS
  N = 2
  Allowed <- MCAllowed
  Spoken = {0, 1, 3}
  MaxTime = 2
  MaxChildren = 1
INVARIANTS NothingIsSoftened OnlyYoungTreesSurvive OnlyTheLateSpeakUp
PROPERTIES HookLeaves
