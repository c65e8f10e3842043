SPECIFICATION Spec
CONSTANTS
  main = main
  root = root
  a = a
  b = b
  strict = strict
  other = other
  CapacityTime = 3
  NoCondition = NoCondition
  NoKey = NoKey
  Workflow <- MCWorkflow
  Node <- MCNode
  Edge <- MCEdge
  EdgeStatus <- MCEdgeStatus
  JoinMinimum <- MCJoinMinimum
  JoinsAll = {}
  Required <- MCRequired
  Kind <- MCKind
  WorkflowOf <- MCWorkflowOf
  RootOf <- MCRootOf
  Graph = {}
  EffectClass <- MCEffectClass
  MaxAttempts <- MCMaxAttempts
  ConflictKeys <- MCConflictKeys
  EffectKey = {}
  IdempotencyKey <- MCIdempotencyKey
  InputDigest <- MCInputDigest
  CapacityGroup = {"provider"}
  CapacityLimit <- MCCapacityLimit
  MaxAgentTasks <- MCMaxAgentTasks
  CandidateLimit = 2
  LeaseTime = 1
  HeartbeatTime = 2
  HeartbeatAge = 1
  InitialBackoff = 1
  MaxBackoff = 2
  MaxTime = 3
CONSTRAINT OneInstance
INVARIANTS
  CapacityRespected
CHECK_DEADLOCK FALSE
