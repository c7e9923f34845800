\* Expected to fail: a reconcile whose cache misses the recorded
\* operation, which has failed.
SPECIFICATION Spec
CONSTANTS
  Specs <- OneSpec
  Kinds = {"LoadBalancer"}
  MaxUid = 1
  MaxEdits = 0
  MaxLag = 1
  MaxLbs = 1
  MaxOps = 2
  Managed = TRUE
  ClientErrors = FALSE
  ReaderForbidden = FALSE
  OperatorActs = FALSE
  MaxFaults = 0
  MaxOpFaults = 1
PROPERTY EveryReconcileWaits
CHECK_DEADLOCK FALSE
