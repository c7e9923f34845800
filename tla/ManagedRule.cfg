\* A Service with a managed firewall rule whose node port is edited, or that is
\* deleted and created again under its name, with a cache behind the API server.
SPECIFICATION Spec
CONSTANTS
  Specs <- MovedPort
  Kinds = {"LoadBalancer"}
  MaxUid = 2
  MaxEdits = 1
  MaxLag = 1
  MaxLbs = 2
  MaxOps = 2
  Managed = TRUE
  ClientErrors = TRUE
  ReaderForbidden = TRUE
  OperatorActs = FALSE
  MaxFaults = 1
  MaxOpFaults = 1
CONSTRAINT RuleBounds
ACTION_CONSTRAINT SamePorts
INVARIANTS RecordsAreOwn SettledWhenQuiet
PROPERTIES KeepsOwnership CooldownIsKept NoEarlierRuleIsLeft
CHECK_DEADLOCK FALSE
