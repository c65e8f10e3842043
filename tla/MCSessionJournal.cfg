SPECIFICATION MCSpec
CONSTANTS
  h1 = h1
  h2 = h2
  a1 = a1
  a2 = a2
  a3 = a3
  s1 = s1
  s2 = s2
  c1 = c1
  c2 = c2
  NoCommit = NoCommit
  Host = {h1, h2}
  Session = {s1}
  Commit = {"first", "second", "third"}
  KeyOf <- SqlKeyOf
  Size <- SqlSize
  Actor = {a1, a2, a3}
  HostOf <- SqlHostOf
  Mine <- SqlMine
  PageLimit = 2
  MaxReads = 1
  MaxSqlFaults = 1
  MaxFaults = 2
SYMMETRY Interchangeable
INVARIANTS
  JournalSound
  TablesSound
PROPERTIES
  JsonlImplementsLog
  SqliteImplementsLog
CHECK_DEADLOCK FALSE
