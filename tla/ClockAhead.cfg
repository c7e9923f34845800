\* A firewall rule creation that fails by a clock that is ahead.
SPECIFICATION Spec
CONSTANTS
  Characters = {"a", "-", "0", "1"}
  firewallRuleCreateRetryDelay = 2
  maxBackOffSeconds = 8
INVARIANT ServerClockCannotStretch
