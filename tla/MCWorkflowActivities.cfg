SPECIFICATION Spec
CONSTANTS
  a = a
  b = b
  c = c
  join = join
  all = all
  main = main
  root = root
  send = send
  resend = resend
  write = write
  key = key
  NoCondition = NoCondition
  NoKey = NoKey
  Workflow <- MCWorkflow
  Node <- MCNode
  Edge <- MCEdge
  EdgeStatus <- MCEdgeStatus
  JoinMinimum <- MCJoinMinimum
  JoinsAll = {all}
  Required <- MCRequired
  Kind <- MCKind
  WorkflowOf <- MCWorkflowOf
  RootOf <- MCRootOf
  Graph = {{a, b, c, join}, {a, b, all}}
  EffectClass <- MCEffectClass
  MaxAttempts <- MCMaxAttempts
  ConflictKeys <- MCConflictKeys
  EffectKey = {key}
  IdempotencyKey <- MCIdempotencyKey
  InputDigest <- MCInputDigest
  CapacityGroup = {}
  CapacityLimit <- MCCapacityLimit
  MaxAgentTasks <- MCMaxAgentTasks
  CandidateLimit = 4
  LeaseTime = 1
  HeartbeatTime = 1
  HeartbeatAge = 0
  InitialBackoff = 0
  MaxBackoff = 2
  MaxTime = 2
CONSTRAINT OneInstance
INVARIANTS
  LedgerSound
  OneExecutor
  JoinJustified
  DependenciesRespected
CHECK_DEADLOCK FALSE
