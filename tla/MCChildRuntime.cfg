SPECIFICATION MCSpec
CONSTANTS
  Child = {c1, c2}
  ParentTurns = 1
  MaxChildRuns = 2
  MaxParallel = 2
  ChildTurns = 1
  MaxHostFaults = 1
  Request = {1, 2}
  Mix <- MCMix
  MaxTokens = 2
  MaxTries = 2
  MaxChunks = 1
  Stream = {1, 2}
  Provider = {"p", "q"}
  Candidates <- MCCandidates
  RetryAttempts = 1
  Threshold = 2
  Cooldown = 1
  MaxParts = 2
  MaxClock = 1
INVARIANTS
  HostSound
  ChannelSound
  RouterSound
PROPERTIES
  NeverCharged
  NotCalledAgain
  ChildrenEnd
CHECK_DEADLOCK FALSE
