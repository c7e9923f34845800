\* Expected to fail: a crash before the load balancer id is recorded.
SPECIFICATION Spec
CONSTANTS
  Specs <- OneSpec
  Kinds = {"LoadBalancer"}
  MaxUid = 1
  MaxEdits = 0
  MaxLag = 0
  MaxLbs = 1
  MaxOps = 1
  Managed = FALSE
  ClientErrors = FALSE
  ReaderForbidden = FALSE
  OperatorActs = FALSE
  MaxFaults = 1
  MaxOpFaults = 0
PROPERTY NoLoadBalancerIsLeft
CHECK_DEADLOCK FALSE
