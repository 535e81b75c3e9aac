SPECIFICATION Spec
CONSTANTS
  MaxCalls = 2
  Kinds = {"read","fetch"}
  NoCheckpoint = NoCheckpoint
  Env = {}
INVARIANTS AllowedIsExecuted
CHECK_DEADLOCK FALSE
