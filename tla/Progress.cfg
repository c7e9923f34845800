\* Everything gets done in spite of two failed calls or restarts, or of two
\* create operations that fail or age out (two failures need three ids), or of
\* a firewall rule that is deleted by hand.
SPECIFICATION RuleRemovedSpec
CONSTANTS
  Specs <- OneSpec
  Kinds = {"LoadBalancer"}
  MaxUid = 1
  MaxEdits = 1
  MaxLag = 0
  MaxLbs = 3
  MaxOps = 3
  Managed = TRUE
  ClientErrors = FALSE
  ReaderForbidden = FALSE
  OperatorActs = TRUE
  MaxFaults = 2
  MaxOpFaults = 2
PROPERTIES IsProvisioned IsEventuallyReleased
CHECK_DEADLOCK FALSE
