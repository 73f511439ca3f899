CONSTANTS
  Root = "r"
  Children <- MCChildren
  NoDomain = NoDomain
  LeafCaps <- MCLeafCaps
  Requests <- MCRequests
  Flags = {FALSE, TRUE}
SPECIFICATION Spec
CHECK_DEADLOCK FALSE
INVARIANTS
  GreedyAnswerKept
