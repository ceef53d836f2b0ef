SPECIFICATION Spec
CONSTANTS
  Packs = {"p"}
  Mandatory = {}
  Contents = {v1, v2}
  Commands = {a, b}
  MaxCommands = 2
  MaxEdits = 1
  Faults = {"crash", "wire", "list", "git"}
INVARIANTS CommandSettles AttestedIsCompiled ProvenanceIsTrue ProvenanceKept
SYMMETRY Symmetry
CHECK_DEADLOCK FALSE
