\* Creation and deletion of one Service of any kind, its ports edited once,
\* with a stale cache, a crash, an operator and a failed operation.
SPECIFICATION Spec
CONSTANTS
  Specs <- AllSpecs
  Kinds = {"LoadBalancer", "Foreign", "Other"}
  MaxUid = 1
  MaxEdits = 1
  MaxLag = 2
  MaxLbs = 2
  MaxOps = 1
  Managed = FALSE
  ClientErrors = FALSE
  ReaderForbidden = FALSE
  OperatorActs = TRUE
  MaxFaults = 1
  MaxOpFaults = 1
INVARIANTS TypeOK AtMostOneLoadBalancer ExternalIPIsRecorded SettledWhenQuiet
PROPERTIES RecordedIdIsFinal RecordedLoadBalancerIsRemoved
CHECK_DEADLOCK FALSE
