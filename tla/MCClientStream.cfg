SPECIFICATION ClientSpec
CONSTANTS
  Prompt = {p1}
  RunLength = 2
  Capacity = 2
  Attempts = 1
  Window = 2
  Reattach = {FALSE}
  MaxReads = 1
  MaxLinkFaults = 0
INVARIANTS
  StreamGoesOn
CHECK_DEADLOCK FALSE
