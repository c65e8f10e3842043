SPECIFICATION MCSpec
CONSTANTS
  Plugin = {"p1", "p2"}
  Caller = {"c1", "c2"}
  FirstInstalled = {"p1", "p2"}
  FirstPublished <- MCFirst
  MaxSlots = 1
  MaxRequests = 2
  MaxFaults = 1
  Prompt = {p1, p2}
  RunLength = 2
  Capacity = 1
  Attempts = 1
  Window = 2
  Reattach = {TRUE, FALSE}
  MaxReads = 1
  MaxLinkFaults = 1
INVARIANTS
  PluginsSound
  StreamSound
PROPERTIES
  ProcessesEnd
CHECK_DEADLOCK FALSE
