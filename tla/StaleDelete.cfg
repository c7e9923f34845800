\* Expected to fail: a deletion handled from a stale cache, with a rule.
SPECIFICATION Spec
CONSTANTS
  Specs <- OneSpec
  Kinds = {"LoadBalancer"}
  MaxUid = 1
  MaxEdits = 0
  MaxLag = 3
  MaxLbs = 1
  MaxOps = 1
  Managed = TRUE
  ClientErrors = FALSE
  ReaderForbidden = FALSE
  OperatorActs = FALSE
  MaxFaults = 0
  MaxOpFaults = 0
PROPERTY RecordedLoadBalancerIsRemoved
CHECK_DEADLOCK FALSE
