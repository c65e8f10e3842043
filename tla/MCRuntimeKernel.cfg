SPECIFICATION Spec
CONSTANTS
  NoRun = 0
  Run = {1, 2}
  Request = {1, 2}
  MaxTurns = 1
  MaxEvents = 2
INVARIANTS
  EndTold
  MessagesPrecedeEnd
  OneRunPerRequest
  SessionSound
PROPERTIES
  RunsEnd
CHECK_DEADLOCK FALSE
