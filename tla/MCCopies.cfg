SPECIFICATION DirSpec
CONSTANTS
  DirAttempt = {t1, t2}
  Path = {1}
  MaxDirEvents = 0
PROPERTIES
  MergeUndisturbed
CHECK_DEADLOCK FALSE
