\* Expected to fail: the Service stops being a LoadBalancer.
SPECIFICATION FairSpec
CONSTANTS
  Specs <- OneSpec
  Kinds = {"LoadBalancer", "Other"}
  MaxUid = 1
  MaxEdits = 1
  MaxLag = 0
  MaxLbs = 1
  MaxOps = 1
  Managed = FALSE
  ClientErrors = FALSE
  ReaderForbidden = FALSE
  OperatorActs = FALSE
  MaxFaults = 0
  MaxOpFaults = 0
PROPERTY IsEventuallyReleased
CHECK_DEADLOCK FALSE
