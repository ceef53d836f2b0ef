SPECIFICATION AnySpec
CONSTANTS
  Ids = {1, 2, 3}
  Seqs = {0, 1, 2}
  MaxLen = 3
INVARIANTS IntactMeansWellChained ChangeIsABreak HeadNamesItsLine
CHECK_DEADLOCK FALSE
