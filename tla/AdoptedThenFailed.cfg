\* Expected to fail: an adopted load balancer whose creation then fails.
SPECIFICATION FairSpec
CONSTANTS
  Specs <- OneSpec
  Kinds = {"LoadBalancer"}
  MaxUid = 1
  MaxEdits = 0
  MaxLag = 0
  MaxLbs = 2
  MaxOps = 1
  Managed = FALSE
  ClientErrors = FALSE
  ReaderForbidden = FALSE
  OperatorActs = FALSE
  MaxFaults = 1
  MaxOpFaults = 1
PROPERTY IsProvisioned
CHECK_DEADLOCK FALSE
