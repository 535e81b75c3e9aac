SPECIFICATION FairSpec
CONSTANTS
  MaxCalls = 3
  Kinds <- AllKinds
  NoCheckpoint = NoCheckpoint
  Env <- LocalEnv
INVARIANTS  ResultsMatchRows DenyStopsBatch
 
CHECK_DEADLOCK FALSE
