SPECIFICATION Spec
CONSTANTS
  MaxCalls = 3
  Kinds <- MixedKinds
  NoCheckpoint = NoCheckpoint
  Env <- RaceEnv
INVARIANTS TypeOK 
CHECK_DEADLOCK FALSE
 
