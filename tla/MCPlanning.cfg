SPECIFICATION MCSpec
CONSTANTS
  Step = {1, 2, 3}
  Deps <- MCDeps
  Keys <- MCKeys
  Idempotent = {1}
  Ceiling = 1
  MaxAttempts = 2
  ParentTurns = 3
  MaxChildRuns = 6
  MaxParallel = 2
  MaxEvents = 1
  GitAttempt = {t1, t2}
  User = u
  MaxGitEvents = 2
  DirAttempt = {t1, t2}
  Path = {1, 2}
  MaxDirEvents = 1
  Actor = {a1, a2}
  Reviewer = {a1}
  Item = {"i1", "i2"}
  Definition = {"d1", "d2", "d3"}
  FirstDefinition = {"d1"}
  ItemsOf <- MCItemsOf
  TextOf <- MCTextOf
  CriteriaOf <- MCCriteriaOf
  Mechanical = {"i2"}
  MaxRepair = 0
  MaxReplans = 1
  MaxTries = 1
  MaxReviews = 2
  MaxEvidence = 1
  MaxNoProgress = 0
  MaxTrouble = 1
INVARIANTS
  PlanSound
  UnsafeOnce
  WorkSafe
  
  CompletionEarned
  ReviewsPaid
PROPERTIES
  FenceHolds
  WorkEnds
CHECK_DEADLOCK FALSE
