SPECIFICATION Spec
CONSTANTS
  MaxCalls = 3
  Kinds = {"write", "shell", "ask"}
  NoCheckpoint = NoCheckpoint
  Env = {"again"}
INVARIANTS DenyStopsBatch
CHECK_DEADLOCK FALSE
