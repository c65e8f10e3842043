SPECIFICATION JournalSpec
CONSTANTS
  h1 = h1
  h2 = h2
  a1 = a1
  a2 = a2
  s1 = s1
  NoCommit = NoCommit
  Actor = {a1, a2}
  Host = {h1, h2}
  HostOf <- TwoHostsOf
  May <- OneSession
  Running = {h1}
  LiveScrub = FALSE
  MaxFaults = 0
  Session = {s1}
  Commit = {c1, c2}
INVARIANTS
  Durable
CHECK_DEADLOCK FALSE
