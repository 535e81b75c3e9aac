SPECIFICATION Spec
CONSTANTS
  t1 = t1
  t2 = t2
  s1 = s1
  A = A
  B = B
  Tasks <- TwoTasks
  NoTask = NoTask
  Sessions <- OneSession
  SessionOf <- SameSession
  Models <- TwoModels
  NoModel = NoModel
  Config = Config
  Routing <- CheapOnly
  Mode = "quality"
  Credentials <- TwoKeys
  Fallbacks <- FallBackToA
  TaskSoft = 1
  TaskHard = 2
  SessionSoft = 2
  SessionHard = 3
  MaxUse = 2
  MaxIterations = 2
  MaxCalls = 2
  MaxPauses = 2
  Actions = {n1, n2}
  Commitments = {c1}
  NoCommitment = NoCommitment
  MaxApprovals = 1
  MaxEdits = 2
  Callers = {k1, k2}
  MaxChildren = 3
  MaxRequests = 4
  MaxCloses = 1
  Messages = {m1}
  Plans = {p1}
  Approvals = {a1}
  Confirmations = {q1}
  MaxHandled = 1
  MaxDeliveries = 2
  MaxRestarts = 1
  ProtectFirst = 3
  TailMin = 2
  MaxTurns = 2
  MaxTurnCalls = 2
  w1 = w1
  w2 = w2
  Prompts = {x1, x2}
  ChatSessions <- TwoSessions
  NoPrompt = NoPrompt
  Requesters = {u1}
  NoBucket = NoBucket
  Burst = 2
  Cost = 2
  Refill = 1
  Ttl = 4
  MaxTime = 9
  MaxGatewayRestarts = 1
CHECK_DEADLOCK FALSE
INVARIANTS
  PartsTypeOK
  SpendBounded
  
  UnverifiedIsMarked
  CheckpointFitsStatus
  RequestsBounded
  NoDecisionWithoutApproval
  NoStaleBlock
  AnswerIsOwn
  OneServer
  HandledOnce
  ConfirmationHonoured
  RequestsPaired
  
  RateHeld
PROPERTIES
  DowngradeHolds
  FailureShown
  
  CallsSettle
  QueuedIsSent
