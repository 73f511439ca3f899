CONSTANTS
  Root = "r"
  Children <- MCChildren
  NoDomain = NoDomain
  LeafCaps <- MCLeafCaps
  Requests <- MCRequests
SPECIFICATION Spec
CHECK_DEADLOCK FALSE
INVARIANTS
  FailureLeavesDomains
