SPECIFICATION Spec
CONSTANTS
  Members = {"m"}
  People = {p}
  Hooks = {h}
  Sessions = {"s"}
  Unnamed = "unknown"
  MaxCommands = 1
  MaxEdits = 2
  MaxHooks = 2
  Faults = {"crash", "keep", "prune", "forge"}
INVARIANTS OffWasApproved
PROPERTIES OffPredatesSession TurnEndTells
CHECK_DEADLOCK FALSE
